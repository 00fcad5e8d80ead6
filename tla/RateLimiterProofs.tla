-------------------------- MODULE RateLimiterProofs --------------------------
(***************************************************************************)
(* Theorems about RateLimiter, for every number of requests, every limit,  *)
(* every length of the window and every bound on the clock.                *)
(***************************************************************************)
EXTENDS RateLimiter, FiniteSetTheorems, TLAPS

\* The requests counted in time in the window that starts at s, and those of
\* them that were let through.
Counted(s) == {q \in prompt : window[q] = s}
Let(s) == {q \in allowed \cap prompt : window[q] = s}

\* How far each request is: it has a window once it has read the clock, and is
\* counted or let through once it has incremented.
Progress ==
    \A q \in Requests :
        /\ pc[q] \in {"incr", "expire"} => window[q] \in Starts /\ window[q] <= now
        /\ q \in allowed \cup prompt => pc[q] \in {"expire", "done"}

\* The counter of a window that is not over counts every request counted in
\* time, and is not dropped before the window is over.
Counting ==
    /\ IsFiniteSet(prompt)
    /\ \A s \in Starts :
          /\ now < s + WindowSecs => Cardinality(Counted(s)) <= count[s]
          /\ expiry[s] # None => s + WindowSecs <= expiry[s]

\* The inductive invariant.
LimiterInv ==
    /\ TypeOK
    /\ Progress
    /\ Counting
    /\ LimitHolds
    /\ CountersExpire

-----------------------------------------------------------------------------

\* The start of a window is a multiple of its length, and not in the future.
LEMMA WindowStart ==
    ASSUME NEW t \in 0 .. MaxTime
    PROVE  t - (t % WindowSecs) \in Starts /\ t - (t % WindowSecs) <= t
<1> USE LimiterAssumption
<1> DEFINE k == t \div WindowSecs
<1>1. /\ t % WindowSecs \in 0 .. WindowSecs - 1
      /\ k \in Int
      /\ t = WindowSecs * k + (t % WindowSecs)
    OBVIOUS
<1>2. t - (t % WindowSecs) = WindowSecs * k
    BY <1>1
<1>3. k \in Nat
    BY <1>1
<1>4. (WindowSecs * k) % WindowSecs = 0
    BY <1>3
<1>5. WindowSecs * k \in 0 .. t
    BY <1>1, <1>2, <1>3
<1> QED BY <1>2, <1>4, <1>5 DEF Starts

\* A set of counted requests that one more joins.
LEMMA OneMore ==
    ASSUME NEW S, NEW q, IsFiniteSet(S)
    PROVE  /\ IsFiniteSet(S \cup {q})
           /\ Cardinality(S) \in Nat
           /\ q \notin S => Cardinality(S \cup {q}) = Cardinality(S) + 1
BY FS_AddElement, FS_CardinalityType

\* What is counted or let through in one window is finite, and no more is let
\* through than counted.
LEMMA CountedFinite ==
    ASSUME Counting, NEW s
    PROVE  /\ IsFiniteSet(Counted(s)) /\ IsFiniteSet(Let(s))
           /\ Cardinality(Counted(s)) \in Nat /\ Cardinality(Let(s)) \in Nat
           /\ Cardinality(Let(s)) <= Cardinality(Counted(s))
<1>1. Counted(s) \subseteq prompt /\ Let(s) \subseteq Counted(s)
    BY DEF Counted, Let
<1>2. IsFiniteSet(Counted(s))
    BY <1>1, FS_Subset DEF Counting
<1> QED BY <1>1, <1>2, FS_Subset, FS_CardinalityType

\* No window is counted at the start.
LEMMA LimiterInit == Init => LimiterInv
<1> SUFFICES ASSUME Init PROVE LimiterInv
    OBVIOUS
<1> USE LimiterAssumption DEF Init
<1>1. TypeOK /\ Progress
    BY DEF TypeOK, Progress
<1>2. \A s : Counted(s) = {} /\ Let(s) = {}
    BY DEF Counted, Let
<1>3. Counting
    BY <1>2, FS_EmptySet DEF Counting
<1>4. LimitHolds
    BY <1>2, FS_EmptySet DEF LimitHolds, Let
<1>5. CountersExpire
    BY DEF CountersExpire
<1> QED BY <1>1, <1>3, <1>4, <1>5 DEF LimiterInv

\* A step that counts nobody and lets nobody through in time, and drops no
\* counter of a window that is not over.
LEMMA NobodyCounted ==
    ASSUME LimiterInv, UNCHANGED prompt,
           \A q \in Requests : q \in prompt => window'[q] = window[q],
           allowed' \cap prompt = allowed \cap prompt,
           now' \in Int, now <= now',
           \A s \in Starts : now' < s + WindowSecs => count[s] <= count'[s],
           \A s \in Starts : expiry'[s] # None => s + WindowSecs <= expiry'[s],
           count' \in [Starts -> Nat]
    PROVE  Counting' /\ LimitHolds'
<1> USE LimiterAssumption DEF LimiterInv, TypeOK
<1>1. \A s : Counted(s)' = Counted(s) /\ Let(s)' = Let(s)
    BY DEF Counted, Let
<1>2. \A s \in Starts : s \in Int /\ Cardinality(Counted(s)) \in Nat
    BY CountedFinite DEF Starts
<1>3. Counting'
    BY <1>1, <1>2 DEF Counting
<1>4. LimitHolds'
    BY <1>1 DEF LimitHolds, Let
<1> QED BY <1>3, <1>4

\* A request enters the window of the time it reads.
LEMMA ReadClockKeeps ==
    ASSUME LimiterInv, NEW q \in Requests, ReadClock(q)
    PROVE  LimiterInv'
<1> USE LimiterAssumption DEF LimiterInv, TypeOK, ReadClock, Goto
<1>1. now - (now % WindowSecs) \in Starts /\ now - (now % WindowSecs) <= now
    BY WindowStart
<1>2. TypeOK'
    BY <1>1
<1>3. Progress'
    BY <1>1 DEF Progress
<1>4. Counting' /\ LimitHolds'
    <2>1. \A p \in Requests : p \in prompt => window'[p] = window[p]
        BY DEF Progress
    <2> QED BY <2>1, NobodyCounted DEF Counting
<1>5. CountersExpire'
    BY DEF CountersExpire
<1> QED BY <1>2, <1>3, <1>4, <1>5

\* Counting a request, and letting it through or not, keeps what the counter
\* bounds; the first of a window goes on to set the expiry.
LEMMA IncrKeeps ==
    ASSUME LimiterInv, NEW q \in Requests, Incr(q)
    PROVE  LimiterInv'
<1> USE LimiterAssumption DEF LimiterInv, TypeOK
<1>0. PICK s \in Starts : s = window[q]
    BY DEF Progress, Incr, Goto
<1> DEFINE current == count[s] + 1
<1>1. /\ pc[q] = "incr" /\ pc' = [pc EXCEPT ![q] = IF current = 1 THEN "expire" ELSE "done"]
      /\ count' = [count EXCEPT ![s] = current]
      /\ allowed' = IF current <= Limit THEN allowed \cup {q} ELSE allowed
      /\ prompt' = IF InWindow(q) THEN prompt \cup {q} ELSE prompt
      /\ UNCHANGED <<now, window, expiry, orphans>>
    BY <1>0 DEF Incr, Goto
<1>2. /\ s \in Int /\ s <= now
      /\ q \notin allowed /\ q \notin prompt /\ current \in Nat \ {0}
    BY <1>0, <1>1 DEF Progress, Starts
<1>3. TypeOK'
    BY <1>1, <1>2
<1>4. Progress'
    BY <1>0, <1>1, <1>2 DEF Progress
<1>5. CountersExpire'
    BY <1>0, <1>1, <1>2 DEF CountersExpire
<1>6. CASE InWindow(q)
    <2>1. now < s + WindowSecs
        BY <1>0, <1>6 DEF InWindow
    <2>2. /\ Counted(s)' = Counted(s) \cup {q} /\ q \notin Counted(s)
          /\ \A t : t # s => Counted(t)' = Counted(t)
        BY <1>0, <1>1, <1>2, <1>6 DEF Counted
    <2>3. IsFiniteSet(prompt)'
        BY <1>1, <1>6, OneMore DEF Counting
    <2>4. Cardinality(Counted(s)') = Cardinality(Counted(s)) + 1
          /\ Cardinality(Counted(s)) \in Nat
        BY <2>2, CountedFinite, OneMore
    <2>5. Cardinality(Counted(s)) <= count[s]
        BY <1>2, <2>1 DEF Counting
    <2>6. Counting'
        <3> SUFFICES ASSUME NEW t \in Starts
                     PROVE  /\ now < t + WindowSecs => Cardinality(Counted(t)') <= count'[t]
                            /\ expiry[t] # None => t + WindowSecs <= expiry[t]
            BY <1>1, <2>3 DEF Counting
        <3>1. CASE t = s
            BY <1>1, <1>2, <2>4, <2>5, <3>1 DEF Counting
        <3>2. CASE t # s
            BY <1>1, <2>2, <3>2 DEF Counting
        <3> QED BY <3>1, <3>2
    <2>7. /\ Let(s)' = IF current <= Limit THEN Let(s) \cup {q} ELSE Let(s)
          /\ q \notin Let(s)
          /\ \A t : t # s => Let(t)' = Let(t)
        BY <1>0, <1>1, <1>2, <1>6 DEF Let
    <2>8. Cardinality(Let(s)') <= Limit
        <3>1. CASE current <= Limit
            <4>1. Cardinality(Let(s)') = Cardinality(Let(s)) + 1
                BY <2>7, <3>1, CountedFinite, OneMore
            <4>2. Cardinality(Let(s)) <= Cardinality(Counted(s)) /\ Cardinality(Let(s)) \in Nat
                BY CountedFinite
            <4> QED BY <1>2, <2>4, <2>5, <3>1, <4>1, <4>2
        <3>2. CASE ~(current <= Limit)
            BY <1>2, <2>7, <3>2 DEF LimitHolds, Let
        <3> QED BY <3>1, <3>2
    <2>9. \A t \in Starts : Cardinality(Let(t)) <= Limit
        BY DEF LimitHolds, Let
    <2>10. \A t \in Starts : Cardinality(Let(t)') <= Limit
        BY <2>7, <2>8, <2>9
    <2>11. LimitHolds'
        BY <2>10 DEF LimitHolds, Let
    <2> QED BY <1>3, <1>4, <1>5, <2>6, <2>11
<1>7. CASE ~InWindow(q)
    <2>1. allowed' \cap prompt = allowed \cap prompt
        BY <1>1, <1>2
    <2>2. Counting' /\ LimitHolds'
        BY <1>1, <1>2, <1>3, <1>7, <2>1, NobodyCounted DEF Counting
    <2> QED BY <1>3, <1>4, <1>5, <2>2
<1> QED BY <1>6, <1>7

\* A request that is let through because Redis fails is not counted.
LEMMA IncrFailsKeeps ==
    ASSUME LimiterInv, NEW q \in Requests, IncrFails(q)
    PROVE  LimiterInv'
<1> USE LimiterAssumption DEF LimiterInv, TypeOK, IncrFails, Goto
<1>1. window[q] \in Starts /\ q \notin prompt
    BY DEF Progress
<1>2. TypeOK'
    BY <1>1
<1>3. Progress'
    BY <1>1 DEF Progress
<1>4. Counting' /\ LimitHolds'
    <2>1. allowed' \cap prompt = allowed \cap prompt
        BY <1>1
    <2>2. \A s \in Starts : count[s] <= count'[s]
        BY <1>1
    <2> QED BY <1>2, <2>1, <2>2, NobodyCounted DEF Counting
<1>5. CountersExpire'
    BY <1>1 DEF CountersExpire
<1> QED BY <1>2, <1>3, <1>4, <1>5

\* The expiry is set from a time within the window, or not at all.
LEMMA ExpireKeeps ==
    ASSUME LimiterInv, NEW q \in Requests, Expire(q) \/ ExpireFails(q)
    PROVE  LimiterInv'
<1> USE LimiterAssumption DEF LimiterInv, TypeOK, Expire, ExpireFails, Goto
<1>1. window[q] \in Starts /\ window[q] <= now /\ window[q] \in Int
    BY DEF Progress, Starts
<1>2. TypeOK'
    BY <1>1
<1>3. Progress'
    BY <1>1 DEF Progress
<1>4. Counting' /\ LimitHolds'
    <2>1. \A s \in Starts : expiry'[s] # None => s + WindowSecs <= expiry'[s]
        BY <1>1 DEF Counting
    <2> QED BY <1>2, <2>1, NobodyCounted DEF Counting
<1>5. CountersExpire'
    BY <1>1 DEF CountersExpire
<1> QED BY <1>2, <1>3, <1>4, <1>5

\* Time passes; what expires is of a window that is over.
LEMMA TickKeeps ==
    ASSUME LimiterInv, Tick
    PROVE  LimiterInv'
<1> USE LimiterAssumption DEF LimiterInv, TypeOK, Tick
<1>1. TypeOK'
    OBVIOUS
<1>2. Progress'
    BY DEF Progress, Starts
<1>3. Counting' /\ LimitHolds'
    <2>1. \A s \in Starts : now' < s + WindowSecs => count[s] <= count'[s]
        BY DEF Counting, Starts
    <2>2. \A s \in Starts : expiry'[s] # None => s + WindowSecs <= expiry'[s]
        BY DEF Counting
    <2> QED BY <1>1, <2>1, <2>2, NobodyCounted
<1>4. CountersExpire'
    BY DEF CountersExpire
<1> QED BY <1>1, <1>2, <1>3, <1>4

\* The invariant holds in every reachable state.
LEMMA LimiterInvariant == Spec => []LimiterInv
<1>1. LimiterInv /\ UNCHANGED vars => LimiterInv'
    BY DEF vars, LimiterInv, TypeOK, Progress, Counting, Counted, LimitHolds, CountersExpire
<1>2. LimiterInv /\ [Next]_vars => LimiterInv'
    BY <1>1, ReadClockKeeps, IncrKeeps, IncrFailsKeeps, ExpireKeeps, TickKeeps
    DEF Next, Check, Quiescent
<1> QED BY <1>2, LimiterInit, PTL DEF Spec

\* The limiter is well typed; the window a request counts in is always the start
\* of one.
THEOREM LimiterTypeCorrect == Spec => []TypeOK
BY LimiterInvariant, PTL DEF LimiterInv

\* RateLimiter.check: however the increments of concurrent requests interleave
\* with the clock, the expiries and failing commands, no window lets through
\* more than the limit of those counted in it.
THEOREM LimitAlwaysHolds == Spec => []LimitHolds
BY LimiterInvariant, PTL DEF LimiterInv

\* A counter is left without an expiry only by a command that failed.
THEOREM CountersAlwaysExpire == Spec => []CountersExpire
BY LimiterInvariant, PTL DEF LimiterInv
=============================================================================
