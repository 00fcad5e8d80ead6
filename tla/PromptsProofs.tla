---------------------------- MODULE PromptsProofs ----------------------------
(***************************************************************************)
(* Theorems about Prompts, for every history, system prompt and context:   *)
(* each prompt style tells the model all that was said, and then asks.     *)
(*                                                                         *)
(* The styles are loops over the messages, FlattenSeq in Prompts, and      *)
(* FlattenSeq is a recursion.  What a recursion computes is proved by      *)
(* induction, and induction comes from the least number outside of a set   *)
(* (LeastNumber, Induction, InductionOnSequences).                         *)
(***************************************************************************)
EXTENDS Prompts, SequenceTheorems, WellFoundedInduction, TLAPS

-----------------------------------------------------------------------------
(* Induction, on numbers and on sequences.                                 *)

\* A set of numbers has a least one.
LEMMA LeastNumber ==
    ASSUME NEW S \in SUBSET Nat, S # {}
    PROVE  \E x \in S : \A y \in S : x <= y
<1>1. \E x \in S : \A y \in S : ~(<<y, x>> \in OpToRel(<, Nat))
    BY NatLessThanWellFounded, WFMin
<1>2. \A x, y \in Nat : y < x => <<y, x>> \in OpToRel(<, Nat)
    BY DEF OpToRel
<1>3. \A x, y \in Nat : y < x \/ x <= y
    OBVIOUS
<1> QED BY <1>1, <1>2, <1>3

\* What holds of 0, and of n + 1 if of n, holds of every number.
LEMMA Induction ==
    ASSUME NEW S, 0 \in S, \A n \in Nat : n \in S => n + 1 \in S
    PROVE  Nat \subseteq S
<1>1. SUFFICES ASSUME Nat \ S # {} PROVE FALSE
    OBVIOUS
<1>2. PICK x \in Nat \ S : \A y \in Nat \ S : x <= y
    BY <1>1, LeastNumber
<1>3. x - 1 \in Nat /\ (x - 1) + 1 = x /\ ~(x <= x - 1)
    BY <1>2
<1> QED BY <1>2, <1>3

\* Sequences are what is made of the empty one by appending.
LEMMA InductionOnSequences ==
    ASSUME NEW A, NEW P, << >> \in P,
           \A s \in Seq(A), e \in A : s \in P => Append(s, e) \in P
    PROVE  Seq(A) \subseteq P
<1> DEFINE L == {n \in Nat : \A s \in Seq(A) : Len(s) = n => s \in P}
<1>1. 0 \in L
    <2>1. \A s \in Seq(A) : Len(s) = 0 => s = << >>
        BY EmptySeq
    <2> QED BY <2>1
<1>2. ASSUME NEW n \in Nat, n \in L PROVE n + 1 \in L
    <2> SUFFICES ASSUME NEW s \in Seq(A), Len(s) = n + 1 PROVE s \in P
        OBVIOUS
    <2>1. s # << >>
        BY EmptySeq
    <2>2. PICK f \in Seq(A), e \in A : s = Append(f, e)
        BY <2>1, SequenceEmptyOrAppend
    <2>3. Len(f) \in Nat /\ Len(s) = Len(f) + 1
        BY <2>2, AppendProperties, LenProperties
    <2>4. f \in P
        BY <1>2, <2>3
    <2> QED BY <2>2, <2>4
<1> HIDE DEF L
<1>3. Nat \subseteq L
    BY <1>1, <1>2, Induction
<1> QED BY <1>3, LenProperties DEF L

-----------------------------------------------------------------------------
\* f holds what the loop of FlattenSeq has after each of the first n items.
Flattens(f, ss, n) ==
    \A i \in 1 .. n : f[i] = IF i = 1 THEN ss[i] ELSE f[i - 1] \o ss[i]

\* Two runs of the loop over the same items agree.
LEMMA StepsAgree ==
    ASSUME NEW n \in Nat, NEW ss, NEW tt, NEW f, NEW h,
           \A i \in 1 .. n : ss[i] = tt[i],
           Flattens(f, ss, n), Flattens(h, tt, n)
    PROVE  \A i \in 1 .. n : h[i] = f[i]
<1> DEFINE T == {i \in Nat : i \in 1 .. n => h[i] = f[i]}
<1>1. 0 \in T
    OBVIOUS
<1>2. ASSUME NEW i \in Nat, i \in T PROVE i + 1 \in T
    <2> SUFFICES ASSUME i + 1 \in 1 .. n PROVE h[i + 1] = f[i + 1]
        OBVIOUS
    <2>1. (i + 1) - 1 = i /\ (i + 1 # 1 => i \in 1 .. n)
        OBVIOUS
    <2>2. i + 1 # 1 => h[i] = f[i]
        BY <1>2, <2>1
    <2>3. h[i + 1] = IF i + 1 = 1 THEN tt[i + 1] ELSE h[i] \o tt[i + 1]
        BY <2>1 DEF Flattens
    <2>4. f[i + 1] = IF i + 1 = 1 THEN ss[i + 1] ELSE f[i] \o ss[i + 1]
        BY <2>1 DEF Flattens
    <2> QED BY <2>2, <2>3, <2>4
<1> HIDE DEF T
<1>3. \A i \in Nat : i \in T
    BY <1>1, <1>2, Induction
<1> QED BY <1>3 DEF T

\* The recursion of FlattenSeq has a solution.
LEMMA FlattenSteps ==
    ASSUME NEW A, NEW ss \in Seq(Seq(A)), ss # << >>
    PROVE  \E f \in [1 .. Len(ss) -> Seq(A)] :
             FlattenSeq(ss) = f[Len(ss)] /\ Flattens(f, ss, Len(ss))
<1> DEFINE S == {n \in Nat : n <= Len(ss) =>
                    \E f \in [1 .. n -> Seq(A)] : Flattens(f, ss, n)}
<1>0. Len(ss) \in Nat \ {0} /\ \A i \in 1 .. Len(ss) : ss[i] \in Seq(A)
    BY EmptySeq, ElementOfSeq
<1>1. 0 \in S
    <2>1. /\ [i \in 1 .. 0 |-> << >>] \in [1 .. 0 -> Seq(A)]
          /\ Flattens([i \in 1 .. 0 |-> << >>], ss, 0)
        BY DEF Flattens
    <2> QED BY <2>1
<1>2. ASSUME NEW n \in Nat, n \in S PROVE n + 1 \in S
    <2> SUFFICES ASSUME n + 1 <= Len(ss)
                 PROVE \E f \in [1 .. n + 1 -> Seq(A)] : Flattens(f, ss, n + 1)
        OBVIOUS
    <2>0. n <= Len(ss)
        BY <1>0
    <2>1. PICK f \in [1 .. n -> Seq(A)] : Flattens(f, ss, n)
        BY <2>0, <1>2
    <2> DEFINE g == [i \in 1 .. n + 1 |->
                        IF i = n + 1 THEN IF i = 1 THEN ss[i] ELSE f[n] \o ss[i]
                        ELSE f[i]]
    <2>2. ss[n + 1] \in Seq(A)
        BY <1>0
    <2>3. n # 0 => f[n] \in Seq(A) /\ f[n] \o ss[n + 1] \in Seq(A)
        BY <2>2, ConcatProperties
    <2>4. g \in [1 .. n + 1 -> Seq(A)]
        BY <2>2, <2>3
    <2>5. Flattens(g, ss, n + 1)
        <3> SUFFICES ASSUME NEW i \in 1 .. n + 1
                     PROVE g[i] = IF i = 1 THEN ss[i] ELSE g[i - 1] \o ss[i]
            BY DEF Flattens
        <3>1. i # 1 => i - 1 \in 1 .. n /\ i - 1 # n + 1
            OBVIOUS
        <3>2. i # n + 1 => i \in 1 .. n
            OBVIOUS
        <3>3. i # 1 => g[i - 1] = f[i - 1]
            BY <3>1
        <3>4. CASE i = n + 1
            BY <3>3, <3>4
        <3>5. CASE i # n + 1
            BY <2>1, <3>2, <3>3, <3>5 DEF Flattens
        <3> QED BY <3>4, <3>5
    <2> QED BY <2>4, <2>5
<1> HIDE DEF S
<1>3. Len(ss) \in S
    BY <1>0, <1>1, <1>2, Induction
<1>4. PICK f \in [1 .. Len(ss) -> Seq(A)] : Flattens(f, ss, Len(ss))
    BY <1>0, <1>3 DEF S
<1> DEFINE Eq(h) == h = [i \in 1 .. Len(ss) |-> IF i = 1 THEN ss[i] ELSE h[i - 1] \o ss[i]]
<1>5. Eq(f)
    BY <1>0, <1>4 DEF Flattens
<1>6. PICK h : Eq(h) /\ h = CHOOSE g : Eq(g)
    BY <1>5
<1>7. FlattenSeq(ss) = h[Len(ss)]
    BY <1>0, <1>6 DEF FlattenSeq
<1>8. Flattens(h, ss, Len(ss))
    BY <1>6 DEF Flattens
<1> HIDE DEF Eq
<1>9. \A i \in 1 .. Len(ss) : h[i] = f[i]
    BY <1>0, <1>4, <1>8, StepsAgree
<1>10. h[Len(ss)] = f[Len(ss)]
    BY <1>0, <1>9
<1> QED BY <1>4, <1>7, <1>10

\* Nothing to flatten.
LEMMA FlattenNone == FlattenSeq(<< >>) = << >>
BY DEF FlattenSeq

\* Each further item is added at the end: how FlattenSeq is computed.
LEMMA FlattenAppend ==
    ASSUME NEW A, NEW ss \in Seq(Seq(A)), NEW s \in Seq(A)
    PROVE  /\ FlattenSeq(ss) \in Seq(A)
           /\ FlattenSeq(Append(ss, s)) = FlattenSeq(ss) \o s
<1>0. PICK tt : tt = Append(ss, s)
    OBVIOUS
<1>1. PICK n \in Nat : n = Len(ss)
    BY LenProperties
<1>2. tt \in Seq(Seq(A)) /\ tt # << >> /\ Len(tt) = n + 1 
      /\ tt[n + 1] = s /\ \A i \in 1 .. n : ss[i] = tt[i]
    BY <1>0, <1>1, AppendProperties
<1>3. PICK g : FlattenSeq(tt) = g[n + 1] /\ Flattens(g, tt, n + 1)
    BY <1>2, FlattenSteps
<1>4. CASE ss = << >>
    <2>1. n = 0
        BY <1>1, <1>4, EmptySeq
    <2>2. g[1] = tt[1]
        BY <1>3, <2>1 DEF Flattens
    <2>3. FlattenSeq(tt) = s
        BY <1>2, <1>3, <2>1, <2>2
    <2> QED BY <2>3, <1>4, FlattenNone, EmptySeq, ConcatEmptySeq, <1>0
<1>5. CASE ss # << >>
    <2>1. PICK f : f \in [1 .. n -> Seq(A)] /\ FlattenSeq(ss) = f[n] /\ Flattens(f, ss, n)
        BY <1>1, <1>5, FlattenSteps
    <2>2. n \in 1 .. n /\ n + 1 # 1 /\ (n + 1) - 1 = n
        BY <1>1, <1>5, EmptySeq
    <2>3. Flattens(g, tt, n)
        <3>1. \A i \in 1 .. n : i \in 1 .. n + 1
            OBVIOUS
        <3> QED BY <1>3, <3>1 DEF Flattens
    <2>4. \A i \in 1 .. n : g[i] = f[i]
        <3>1. \A i \in 1 .. n : ss[i] = tt[i]
            BY <1>2
        <3>2. Flattens(f, ss, n)
            BY <2>1
        <3> QED BY <3>1, <3>2, <2>3, StepsAgree
    <2>5. g[n + 1] = g[n] \o s
        <3>1. n + 1 \in 1 .. n + 1
            BY <1>1
        <3> QED BY <1>2, <1>3, <2>2, <3>1 DEF Flattens
    <2>6. g[n] = f[n] /\ f[n] \in Seq(A)
        BY <2>1, <2>2, <2>4
    <2> QED BY <1>3, <2>1, <2>5, <2>6, <1>0
<1> QED BY <1>4, <1>5

\* What FlattenSeq returns.
LEMMA FlattenType ==
    ASSUME NEW A, NEW ss \in Seq(Seq(A))
    PROVE  FlattenSeq(ss) \in Seq(A)
BY FlattenAppend, EmptySeq

-----------------------------------------------------------------------------
(* Loops over a sequence that add something for each of its items.         *)

\* w makes a sequence of Bs of each M.
Writes(w, M, B) == w \in [M -> Seq(B)]

\* A loop over s that adds what w makes of each item.
FlatMap(w, s) == FlattenSeq([i \in DOMAIN s |-> w[s[i]]])

\* What a loop goes over, and what it returns.
LEMMA FlatMapIsFlat ==
    ASSUME NEW M, NEW B, NEW w, Writes(w, M, B), NEW s \in Seq(M)
    PROVE  /\ [i \in DOMAIN s |-> w[s[i]]] \in Seq(Seq(B))
           /\ Len([i \in DOMAIN s |-> w[s[i]]]) = Len(s)
           /\ FlatMap(w, s) \in Seq(B)
<1>1. DOMAIN s = 1 .. Len(s) /\ Len(s) \in Nat /\ \A i \in 1 .. Len(s) : s[i] \in M
    BY LenProperties, ElementOfSeq
<1>2. [i \in DOMAIN s |-> w[s[i]]] \in [1 .. Len(s) -> Seq(B)]
    BY <1>1 DEF Writes
<1>3. [i \in DOMAIN s |-> w[s[i]]] \in Seq(Seq(B))
    BY <1>1, <1>2, SeqDef
<1>4. Len([i \in DOMAIN s |-> w[s[i]]]) = Len(s)
    BY <1>1
<1> QED BY <1>3, <1>4, FlattenType DEF FlatMap

\* A loop over nothing adds nothing.
LEMMA FlatMapNone ==
    ASSUME NEW w
    PROVE  FlatMap(w, << >>) = << >>
<1>1. [i \in DOMAIN << >> |-> w[<< >>[i]]] = << >>
    OBVIOUS
<1> QED BY <1>1, FlattenNone DEF FlatMap

\* A loop over one item more adds what that item makes.
LEMMA FlatMapAppend ==
    ASSUME NEW M, NEW B, NEW w, Writes(w, M, B), NEW s \in Seq(M), NEW m \in M
    PROVE  FlatMap(w, Append(s, m)) = FlatMap(w, s) \o w[m]
<1> DEFINE t == Append(s, m)
           ws == [i \in DOMAIN s |-> w[s[i]]]
           wt == [i \in DOMAIN t |-> w[t[i]]]
<1>1. /\ t \in Seq(M) /\ Len(t) = Len(s) + 1 /\ Len(s) \in Nat
      /\ t[Len(s) + 1] = m /\ \A i \in 1 .. Len(s) : t[i] = s[i]
      /\ DOMAIN t = 1 .. Len(t) /\ DOMAIN s = 1 .. Len(s)
    BY AppendProperties, LenProperties
<1> HIDE DEF t
<1>2. ws \in Seq(Seq(B)) /\ Len(ws) = Len(s) /\ wt \in Seq(Seq(B)) /\ Len(wt) = Len(t)
    <2>1. \A r \in Seq(M) : /\ [i \in DOMAIN r |-> w[r[i]]] \in Seq(Seq(B))
                            /\ Len([i \in DOMAIN r |-> w[r[i]]]) = Len(r)
        BY FlatMapIsFlat
    <2> QED BY <1>1, <2>1
<1>3. /\ Append(ws, w[m]) \in Seq(Seq(B)) /\ Len(Append(ws, w[m])) = Len(s) + 1
      /\ Append(ws, w[m])[Len(s) + 1] = w[m]
      /\ \A i \in 1 .. Len(s) : Append(ws, w[m])[i] = ws[i]
    <2> HIDE DEF ws
    <2>1. w[m] \in Seq(B)
        BY DEF Writes
    <2> QED BY <1>2, <2>1, AppendProperties
<1>4. \A i \in 1 .. Len(s) : ws[i] = w[s[i]] /\ wt[i] = w[s[i]]
    BY <1>1
<1>5. wt[Len(s) + 1] = w[m]
    BY <1>1
<1>6. wt = Append(ws, w[m])
    <2> HIDE DEF ws, wt
    <2>1. \A i \in 1 .. Len(s) + 1 : i \in 1 .. Len(s) \/ i = Len(s) + 1
        BY <1>1
    <2>2. \A i \in 1 .. Len(s) + 1 : wt[i] = Append(ws, w[m])[i]
        BY <1>3, <1>4, <1>5, <2>1
    <2> QED BY <1>1, <1>2, <1>3, <2>2, SeqEqual
<1>7. FlattenSeq(wt) = FlattenSeq(ws) \o w[m]
    <2> HIDE DEF ws, wt
    <2>1. w[m] \in Seq(B)
        BY DEF Writes
    <2> QED BY <1>2, <1>6, <2>1, FlattenAppend
<1> QED BY <1>7 DEF FlatMap, t

\* A loop over one item.
LEMMA FlatMapOne ==
    ASSUME NEW M, NEW B, NEW w, Writes(w, M, B), NEW m \in M
    PROVE  FlatMap(w, <<m>>) = w[m]
<1>1. <<m>> = Append(<< >>, m) /\ << >> \in Seq(M) /\ w[m] \in Seq(B)
    BY EmptySeq DEF Writes
<1>2. FlatMap(w, Append(<< >>, m)) = FlatMap(w, << >>) \o w[m]
    BY <1>1, FlatMapAppend
<1> QED BY <1>1, <1>2, FlatMapNone, ConcatEmptySeq

\* Appending to the second of two sequences.
LEMMA ConcatAppend ==
    ASSUME NEW A, NEW s \in Seq(A), NEW t \in Seq(A), NEW e \in A
    PROVE  s \o Append(t, e) = Append(s \o t, e)
<1>1. <<e>> \in Seq(A)
    OBVIOUS
<1>2. s \o t \in Seq(A)
    BY ConcatProperties
<1> QED BY <1>1, <1>2, AppendIsConcat, ConcatAssociative

\* A loop over two sequences is two loops.
LEMMA FlatMapConcat ==
    ASSUME NEW M, NEW B, NEW w, Writes(w, M, B), NEW s \in Seq(M), NEW t \in Seq(M)
    PROVE  FlatMap(w, s \o t) = FlatMap(w, s) \o FlatMap(w, t)
<1> DEFINE P == {u \in Seq(M) : FlatMap(w, s \o u) = FlatMap(w, s) \o FlatMap(w, u)}
<1>1. << >> \in P
    <2>1. FlatMap(w, s) \in Seq(B)
        BY FlatMapIsFlat
    <2>2. s \o << >> = s
        BY ConcatEmptySeq
    <2>3. FlatMap(w, s) \o << >> = FlatMap(w, s)
        BY <2>1, ConcatEmptySeq
    <2> QED BY <2>2, <2>3, FlatMapNone, EmptySeq
<1>2. ASSUME NEW u \in Seq(M), NEW e \in M, u \in P PROVE Append(u, e) \in P
    <2>1. Append(u, e) \in Seq(M) /\ s \o u \in Seq(M) /\ w[e] \in Seq(B)
        BY AppendProperties, ConcatProperties DEF Writes
    <2>2. s \o Append(u, e) = Append(s \o u, e)
        BY ConcatAppend
    <2>3. FlatMap(w, Append(s \o u, e)) = FlatMap(w, s \o u) \o w[e]
        <3>1. \A r \in Seq(M) : FlatMap(w, Append(r, e)) = FlatMap(w, r) \o w[e]
            BY FlatMapAppend
        <3> QED BY <2>1, <3>1
    <2>4. FlatMap(w, s \o u) = FlatMap(w, s) \o FlatMap(w, u)
        BY <1>2
    <2>5. FlatMap(w, Append(u, e)) = FlatMap(w, u) \o w[e]
        BY FlatMapAppend
    <2>6. (FlatMap(w, s) \o FlatMap(w, u)) \o w[e] = FlatMap(w, s) \o (FlatMap(w, u) \o w[e])
        <3>1. FlatMap(w, s) \in Seq(B) /\ FlatMap(w, u) \in Seq(B)
            BY FlatMapIsFlat
        <3> HIDE DEF FlatMap
        <3>2. w[e] \in Seq(B)
            BY <2>1
        <3>3. \A x, y, z \in Seq(B) : (x \o y) \o z = x \o (y \o z)
            BY ConcatAssociative
        <3> QED BY <3>1, <3>2, <3>3
    <2> QED BY <2>1, <2>2, <2>3, <2>4, <2>5, <2>6
<1> HIDE DEF P
<1>3. t \in P
    BY <1>1, <1>2, InductionOnSequences
<1> QED BY <1>3 DEF P

\* A loop over what a loop has made is one loop.
LEMMA FlatMapFlatten ==
    ASSUME NEW M, NEW B, NEW w, Writes(w, M, B), NEW ss \in Seq(Seq(M))
    PROVE  /\ [i \in DOMAIN ss |-> FlatMap(w, ss[i])] \in Seq(Seq(B))
           /\ FlatMap(w, FlattenSeq(ss)) = FlattenSeq([i \in DOMAIN ss |-> FlatMap(w, ss[i])])
<1>0. PICK v : v = [s \in Seq(M) |-> FlatMap(w, s)]
    OBVIOUS
<1>1. Writes(v, Seq(M), B) /\ \A s \in Seq(M) : v[s] = FlatMap(w, s)
    BY <1>0, FlatMapIsFlat DEF Writes
<1> DEFINE P == {tt \in Seq(Seq(M)) : FlatMap(w, FlattenSeq(tt)) = FlatMap(v, tt)}
<1>2. << >> \in P
    BY FlattenNone, FlatMapNone, EmptySeq
<1>3. ASSUME NEW tt \in Seq(Seq(M)), NEW e \in Seq(M), tt \in P PROVE Append(tt, e) \in P
    <2>1. Append(tt, e) \in Seq(Seq(M)) /\ FlattenSeq(tt) \in Seq(M)
        BY AppendProperties, FlattenType
    <2>2. FlattenSeq(Append(tt, e)) = FlattenSeq(tt) \o e
        BY FlattenAppend
    <2>3. FlatMap(w, FlattenSeq(tt) \o e) = FlatMap(w, FlattenSeq(tt)) \o FlatMap(w, e)
        BY <2>1, FlatMapConcat
    <2>4. FlatMap(v, Append(tt, e)) = FlatMap(v, tt) \o v[e]
        BY <1>1, FlatMapAppend
    <2> QED BY <1>1, <1>3, <2>1, <2>2, <2>3, <2>4
<1> HIDE DEF P
<1>4. ss \in P
    BY <1>2, <1>3, InductionOnSequences
<1>5. \A i \in DOMAIN ss : v[ss[i]] = FlatMap(w, ss[i])
    BY <1>1, LenProperties, ElementOfSeq
<1>6. [i \in DOMAIN ss |-> v[ss[i]]] = [i \in DOMAIN ss |-> FlatMap(w, ss[i])]
    BY <1>5
<1>7. [i \in DOMAIN ss |-> v[ss[i]]] \in Seq(Seq(B))
    BY <1>1, FlatMapIsFlat
<1>8. FlatMap(v, ss) = FlattenSeq([i \in DOMAIN ss |-> v[ss[i]]])
    BY DEF FlatMap
<1>9. FlatMap(w, FlattenSeq(ss)) = FlatMap(v, ss)
    BY <1>4 DEF P
<1> QED BY <1>6, <1>7, <1>8, <1>9
-----------------------------------------------------------------------------
\* Messages with a text, what is said after the system prompt, and segments.
Messages == [role : {"system", "user", "assistant"}, text : Texts]
Said == [role : {"user", "assistant"}, text : Texts]
Segments == [as : {"system", "user", "assistant", "text", "cue"}, text : Texts]

\* What the loops add: of a segment, of a message, and of a message for ChatML.
TextOfSegment == [g \in Segments |-> g.text]
TextOf == [m \in Messages |-> m.text]
QuestionOf == [m \in Messages |-> IF m.role = "assistant" THEN NoText ELSE m.text]

\* No text is a text.
LEMMA NoTextIsText == NoText \in Texts
BY EmptySeq DEF NoText, Texts

\* The loops of the styles make texts.
LEMMA Loops ==
    /\ Writes(TextOfSegment, Segments, Words)
    /\ Writes(TextOf, Messages, Words)
    /\ Writes(QuestionOf, Messages, Words)
BY NoTextIsText DEF Writes, TextOfSegment, TextOf, QuestionOf, Segments, Messages, Texts

\* What a prompt tells is a loop over its segments.
LEMMA ToldIsLoop ==
    ASSUME NEW p \in Seq(Segments)
    PROVE  Told(p) = FlatMap(TextOfSegment, p) /\ Told(p) \in Texts
<1>1. \A i \in DOMAIN p : p[i] \in Segments
    BY LenProperties, ElementOfSeq
<1>2. [i \in DOMAIN p |-> p[i].text] = [i \in DOMAIN p |-> TextOfSegment[p[i]]]
    BY <1>1 DEF TextOfSegment
<1>3. FlatMap(TextOfSegment, p) \in Texts
    BY Loops, FlatMapIsFlat DEF Texts
<1> QED BY <1>2, <1>3 DEF Told, FlatMap

\* Two parts of a prompt tell what each of them tells.
LEMMA ToldConcat ==
    ASSUME NEW p \in Seq(Segments), NEW q \in Seq(Segments)
    PROVE  Told(p \o q) = Told(p) \o Told(q) /\ p \o q \in Seq(Segments)
<1>1. p \o q \in Seq(Segments)
    BY ConcatProperties
<1>2. FlatMap(TextOfSegment, p \o q) = FlatMap(TextOfSegment, p) \o FlatMap(TextOfSegment, q)
    BY Loops, FlatMapConcat
<1> QED BY <1>1, <1>2, ToldIsLoop

\* One segment tells its text.
LEMMA ToldOne ==
    ASSUME NEW g \in Segments
    PROVE  Told(<<g>>) = g.text /\ <<g>> \in Seq(Segments)
<1>1. <<g>> \in Seq(Segments)
    OBVIOUS
<1>2. FlatMap(TextOfSegment, <<g>>) = TextOfSegment[g]
    BY Loops, FlatMapOne
<1> QED BY <1>1, <1>2, ToldIsLoop DEF TextOfSegment

\* A prompt that is put together of parts tells what the parts tell.
LEMMA ToldFlatten ==
    ASSUME NEW pp \in Seq(Seq(Segments))
    PROVE  /\ FlattenSeq(pp) \in Seq(Segments)
           /\ Told(FlattenSeq(pp)) = FlattenSeq([i \in DOMAIN pp |-> Told(pp[i])])
<1>1. FlattenSeq(pp) \in Seq(Segments)
    BY FlattenType
<1>2. \A i \in DOMAIN pp : pp[i] \in Seq(Segments)
    BY LenProperties, ElementOfSeq
<1>3. [i \in DOMAIN pp |-> Told(pp[i])] = [i \in DOMAIN pp |-> FlatMap(TextOfSegment, pp[i])]
    BY <1>2, ToldIsLoop
<1>4. FlatMap(TextOfSegment, FlattenSeq(pp))
          = FlattenSeq([i \in DOMAIN pp |-> FlatMap(TextOfSegment, pp[i])])
    BY Loops, FlatMapFlatten
<1> QED BY <1>1, <1>3, <1>4, ToldIsLoop

\* A sequence ends as its last part does.
LEMMA LastOfConcat ==
    ASSUME NEW A, NEW s \in Seq(A), NEW t \in Seq(A), t # << >>
    PROVE  Last(s \o t) = Last(t) /\ s \o t # << >>
<1>1. Len(t) \in Nat \ {0} /\ Len(s) \in Nat
    BY EmptySeq, LenProperties
<1>2. Len(s \o t) = Len(s) + Len(t)
    BY ConcatProperties
<1>3. (s \o t)[Len(s) + Len(t)] = t[Len(t)]
    <2>1. Len(s) + Len(t) \in 1 .. Len(s) + Len(t) /\ ~(Len(s) + Len(t) <= Len(s))
          /\ (Len(s) + Len(t)) - Len(s) = Len(t)
        BY <1>1
    <2> QED BY <2>1, ConcatProperties
<1> QED BY <1>1, <1>2, <1>3, EmptySeq DEF Last

\* The cue tells nothing, and ends the prompt.
LEMMA CueEnds ==
    ASSUME NEW p \in Seq(Segments)
    PROVE  /\ Told(p \o Cue) = Told(p) /\ p \o Cue \in Seq(Segments)
           /\ Last(p \o Cue).as = "cue"
<1>1. Segment("cue", NoText) \in Segments
    BY NoTextIsText DEF Segment, Segments
<1>2. Cue \in Seq(Segments) /\ Told(Cue) = NoText
    BY <1>1, ToldOne DEF Cue, Segment
<1>3. Last(p \o Cue) = Last(Cue)
    BY <1>2, LastOfConcat DEF Cue
<1>4. Last(Cue).as = "cue"
    BY DEF Cue, Last, Segment
<1>5. Told(p) \o NoText = Told(p)
    BY ToldIsLoop, ConcatEmptySeq DEF NoText, Texts
<1> QED BY <1>2, <1>3, <1>4, <1>5, ToldConcat

\* How a refusal is recognised.
LEMMA NotRaised ==
    ASSUME NEW p, p = Raises
    PROVE  Last(p).as = "error"
BY DEF Raises, Last, Segment

-----------------------------------------------------------------------------
(* Each style tells the texts of its messages.                             *)

\* The messages of a sequence, one by one: none is without content.
LEMMA MessageAt ==
    ASSUME NEW ms \in Seq(Messages)
    PROVE  /\ Len(ms) \in Nat /\ DOMAIN ms = 1 .. Len(ms)
           /\ \A i \in 1 .. Len(ms) :
                /\ ms[i] \in Messages /\ ms[i].text \in Texts /\ ms[i].text # Blank
                /\ ms[i].role \in {"system", "user", "assistant"}
                /\ Content(ms[i]) = ms[i].text /\ Printed(ms[i]) = ms[i].text
                /\ TextOf[ms[i]] = ms[i].text
<1>1. Len(ms) \in Nat /\ DOMAIN ms = 1 .. Len(ms) /\ \A i \in 1 .. Len(ms) : ms[i] \in Messages
    BY LenProperties, ElementOfSeq
<1> QED BY <1>1, PromptsAssumption DEF Messages, Content, Printed, TextOf

\* The style "default" tells every message, and ends as they do.
LEMMA AsTheyAreTells ==
    ASSUME NEW ms \in Seq(Messages), ms # << >>
    PROVE  /\ AsTheyAre(ms) \in Seq(Segments)
           /\ Told(AsTheyAre(ms)) = FlatMap(TextOf, ms)
           /\ Last(AsTheyAre(ms)).as = Last(ms).role
<1>1. \A i \in DOMAIN ms : Segment(ms[i].role, Content(ms[i])) \in Segments
    BY MessageAt DEF Segment, Segments
<1>2. AsTheyAre(ms) \in [1 .. Len(ms) -> Segments] /\ Len(ms) \in Nat \ {0}
    BY <1>1, MessageAt, EmptySeq DEF AsTheyAre
<1>3. AsTheyAre(ms) \in Seq(Segments) /\ Len(AsTheyAre(ms)) = Len(ms)
      /\ DOMAIN AsTheyAre(ms) = DOMAIN ms
    BY <1>2, MessageAt, SeqDef, LenProperties
<1>4. \A i \in DOMAIN ms : AsTheyAre(ms)[i].text = TextOf[ms[i]] /\ AsTheyAre(ms)[i].as = ms[i].role
    BY MessageAt DEF AsTheyAre, Segment
<1>5. [i \in DOMAIN AsTheyAre(ms) |-> AsTheyAre(ms)[i].text] = [i \in DOMAIN ms |-> TextOf[ms[i]]]
    BY <1>3, <1>4
<1>6. Told(AsTheyAre(ms)) = FlatMap(TextOf, ms)
    BY <1>5 DEF Told, FlatMap
<1>7. Len(ms) \in DOMAIN ms
    BY <1>2, MessageAt
<1> QED BY <1>3, <1>4, <1>6, <1>7 DEF Last

\* Tag tells every message, and ends with the cue.
LEMMA TagTells ==
    ASSUME NEW ms \in Seq(Messages), ms # << >>
    PROVE  Told(Tag(ms)) = FlatMap(TextOf, ms) /\ Last(Tag(ms)).as = "cue"
<1>1. Tag(ms) = AsTheyAre(ms) \o Cue
    BY DEF Tag, AsTheyAre
<1> QED BY <1>1, AsTheyAreTells, CueEnds

\* ChatML tells every message but the answers, and ends with the cue.
LEMMA ChatMLTells ==
    ASSUME NEW ms \in Seq(Messages)
    PROVE  Told(ChatML(ms)) = FlatMap(QuestionOf, ms) /\ Last(ChatML(ms)).as = "cue"
<1> DEFINE written(m) ==
               CASE m.role = "system" -> <<Segment("text", Content(m))>>
                 [] m.role = "user" -> <<Segment("user", Content(m))>>
                 [] OTHER -> << >>
           pp == [i \in DOMAIN ms |-> written(ms[i])]
           head == <<Segment("system", NoText)>>
<1>1. ChatML(ms) = (head \o FlattenSeq(pp)) \o Cue
    BY DEF ChatML
<1>2. \A i \in DOMAIN ms : /\ written(ms[i]) \in Seq(Segments)
                           /\ Told(written(ms[i])) = QuestionOf[ms[i]]
    <2> SUFFICES ASSUME NEW i \in DOMAIN ms, NEW m, m = ms[i]
                 PROVE written(m) \in Seq(Segments) /\ Told(written(m)) = QuestionOf[m]
        OBVIOUS
    <2>1. m \in Messages /\ Content(m) = m.text /\ m.text \in Texts
          /\ m.role \in {"system", "user", "assistant"}
        BY MessageAt
    <2>2. CASE m.role = "assistant"
        <3>1. written(m) = << >> /\ QuestionOf[m] = << >>
            BY <2>1, <2>2 DEF QuestionOf, NoText
        <3>2. Told(<< >>) = << >>
            BY FlattenNone DEF Told
        <3> QED BY <3>1, <3>2, EmptySeq
    <2>3. CASE m.role # "assistant"
        <3>1. PICK as \in {"text", "user"} : written(m) = <<Segment(as, m.text)>>
            BY <2>1, <2>3
        <3>2. Segment(as, m.text) \in Segments
            BY <2>1 DEF Segment, Segments
        <3>3. Segment(as, m.text).text = m.text /\ QuestionOf[m] = m.text
            BY <2>1, <2>3 DEF Segment, QuestionOf
        <3> HIDE DEF written
        <3> QED BY <3>1, <3>2, <3>3, ToldOne
    <2> QED BY <2>2, <2>3
<1> HIDE DEF written
<1>3. pp \in Seq(Seq(Segments)) /\ DOMAIN pp = DOMAIN ms
    <2>1. pp \in [1 .. Len(ms) -> Seq(Segments)]
        BY <1>2, MessageAt
    <2> QED BY <2>1, MessageAt, SeqDef
<1>4. [i \in DOMAIN pp |-> Told(pp[i])] = [i \in DOMAIN ms |-> QuestionOf[ms[i]]]
    BY <1>2, <1>3
<1>5. Told(FlattenSeq(pp)) = FlatMap(QuestionOf, ms) /\ FlattenSeq(pp) \in Seq(Segments)
    <2> HIDE DEF pp
    <2> QED BY <1>3, <1>4, ToldFlatten DEF FlatMap
<1> HIDE DEF pp
<1>6. head \in Seq(Segments) /\ Told(head) = NoText
    <2>1. Segment("system", NoText) \in Segments
        BY NoTextIsText DEF Segment, Segments
    <2> QED BY <2>1, ToldOne DEF Segment
<1> HIDE DEF head
<1>7. head \o FlattenSeq(pp) \in Seq(Segments)
      /\ Told(head \o FlattenSeq(pp)) = FlatMap(QuestionOf, ms)
    <2>1. Told(FlattenSeq(pp)) \in Texts
        BY <1>5, ToldIsLoop
    <2>2. NoText \o Told(FlattenSeq(pp)) = Told(FlattenSeq(pp))
        BY <2>1, ConcatEmptySeq DEF NoText, Texts
    <2> QED BY <1>5, <1>6, <2>2, ToldConcat
<1> QED BY <1>1, <1>7, CueEnds

\* There is a system message; each has a text (MessageAt).
Leads(ms) == \E i \in DOMAIN ms : ms[i].role = "system"

\* The default system prompt of the Llama styles.
LEMMA DefaultIsText ==
    /\ DefaultSystem \in Texts
    /\ Segment("system", DefaultSystem) \in Segments
    /\ Segment("system", DefaultSystem).text = DefaultSystem
<1>1. DefaultSystem \in Texts
    BY PromptsAssumption DEF DefaultSystem, Texts
<1> QED BY <1>1 DEF Segment, Segments

\* Llama 3 tells every message, behind a system prompt of its own if there is
\* none, and ends with the cue.
LEMMA Llama3Tells ==
    ASSUME NEW ms \in Seq(Messages), ms # << >>, Last(ms).role = "user"
    PROVE  /\ Told(Llama3(ms)) = IF Leads(ms) THEN FlatMap(TextOf, ms)
                                 ELSE DefaultSystem \o FlatMap(TextOf, ms)
           /\ Last(Llama3(ms)).as = "cue"
<1> DEFINE written(i) ==
               IF ms[i].text = Blank
               THEN << >>
               ELSE <<Segment(ms[i].role, ms[i].text)>>
                        \o (IF i = Len(ms) /\ ms[i].role # "assistant" THEN Cue ELSE << >>)
           pp == [i \in DOMAIN ms |-> written(i)]
           prompt == FlattenSeq(pp)
<1>1. Llama3(ms) = IF Leads(ms) THEN prompt ELSE <<Segment("system", DefaultSystem)>> \o prompt
    <2>1. Leads(ms) <=> \E i \in DOMAIN ms : ms[i].role = "system" /\ ms[i].text # Blank
        BY MessageAt DEF Leads
    <2> QED BY <2>1 DEF Llama3
<1>2. ASSUME NEW i \in DOMAIN ms
      PROVE  /\ written(i) \in Seq(Segments) /\ Told(written(i)) = TextOf[ms[i]]
             /\ i = Len(ms) => Last(written(i)).as = "cue" /\ written(i) # << >>
    <2> DEFINE m == ms[i]
               one == <<Segment(m.role, m.text)>>
    <2>1. m.text \in Texts /\ m.role \in {"system", "user", "assistant"}
          /\ m.text # Blank /\ TextOf[m] = m.text
        BY MessageAt
    <2>2. Segment(m.role, m.text) \in Segments /\ Segment(m.role, m.text).text = m.text
        BY <2>1 DEF Segment, Segments
    <2>3. one \in Seq(Segments) /\ Told(one) = TextOf[m]
        BY <2>1, <2>2, ToldOne
    <2>4. CASE i = Len(ms)
        <3>1. m.role # "assistant"
            BY <2>4 DEF Last
        <3>2. written(i) = one \o Cue
            BY <2>1, <2>4, <3>1
        <3>3. Told(one \o Cue) = Told(one) /\ one \o Cue \in Seq(Segments)
              /\ Last(one \o Cue).as = "cue"
            <4> HIDE DEF one
            <4> QED BY <2>3, CueEnds
        <3>4. one \o Cue # << >>
            OBVIOUS
        <3> HIDE DEF written, one, m
        <3>5. Told(written(i)) = TextOf[m]
            BY <2>3, <3>2, <3>3
        <3> QED BY <3>2, <3>3, <3>4, <3>5 DEF m
    <2>5. CASE i # Len(ms)
        <3>1. written(i) = one \o << >>
            BY <2>1, <2>5
        <3>2. one \o << >> = one
            <4> HIDE DEF one
            <4> QED BY <2>3, ConcatEmptySeq
        <3> HIDE DEF written, one
        <3> QED BY <2>3, <2>5, <3>1, <3>2
    <2> HIDE DEF written
    <2> QED BY <2>4, <2>5
<1> HIDE DEF written
<1>3. pp \in Seq(Seq(Segments)) /\ DOMAIN pp = DOMAIN ms /\ Len(pp) = Len(ms)
    <2>1. pp \in [1 .. Len(ms) -> Seq(Segments)]
        BY <1>2, MessageAt
    <2> QED BY <2>1, MessageAt, SeqDef
<1>4. [i \in DOMAIN pp |-> Told(pp[i])] = [i \in DOMAIN ms |-> TextOf[ms[i]]]
    BY <1>2, <1>3
<1>5. Told(prompt) = FlatMap(TextOf, ms) /\ prompt \in Seq(Segments)
    <2> HIDE DEF pp
    <2> QED BY <1>3, <1>4, ToldFlatten DEF FlatMap
<1>6. prompt # << >> /\ Last(prompt).as = "cue"
    <2>1. Len(ms) \in DOMAIN ms
        BY MessageAt, EmptySeq
    <2>2. pp[Len(ms)] = written(Len(ms))
        BY <2>1
    <2> HIDE DEF pp
    <2>3. PICK front \in Seq(Seq(Segments)), e \in Seq(Segments) : pp = Append(front, e)
        <3>1. pp # << >>
            BY <1>3, <2>1, MessageAt
        <3> QED BY <1>3, <3>1, SequenceEmptyOrAppend
    <2>4. e = pp[Len(ms)]
        BY <1>3, <2>3, AppendProperties
    <2>5. Last(e).as = "cue" /\ e # << >>
        BY <1>2, <2>1, <2>2, <2>4
    <2>6. FlattenSeq(pp) = FlattenSeq(front) \o e /\ FlattenSeq(front) \in Seq(Segments)
        BY <2>3, FlattenAppend
    <2> QED BY <2>5, <2>6, LastOfConcat
<1> HIDE DEF prompt
<1>7. ASSUME NEW d, d = <<Segment("system", DefaultSystem)>>
      PROVE  Told(d \o prompt) = DefaultSystem \o FlatMap(TextOf, ms)
             /\ Last(d \o prompt).as = "cue"
    <2>1. d \in Seq(Segments) /\ Told(d) = DefaultSystem
        BY <1>7, DefaultIsText, ToldOne
    <2>2. Told(d \o prompt) = Told(d) \o Told(prompt)
        BY <1>5, <2>1, ToldConcat
    <2>3. Last(d \o prompt) = Last(prompt)
        BY <1>5, <1>6, <2>1, LastOfConcat
    <2> QED BY <1>5, <1>6, <2>1, <2>2, <2>3
<1> QED BY <1>1, <1>5, <1>6, <1>7

\* What is put in front is taken off again.
LEMMA ConsTail ==
    ASSUME NEW A, NEW s \in Seq(A), NEW e \in A
    PROVE  Head(<<e>> \o s) = e /\ Tail(<<e>> \o s) = s /\ <<e>> \o s \in Seq(A)
<1>1. <<e>> \in Seq(A) /\ Len(<<e>>) = 1 /\ <<e>>[1] = e /\ Len(s) \in Nat
    BY LenProperties
<1>2. PICK t : t = <<e>> \o s
    OBVIOUS
<1>3. t \in Seq(A) /\ Len(t) = Len(s) + 1 /\ t[1] = e /\ \A i \in 1 .. Len(s) : t[i + 1] = s[i]
    <2>1. /\ t \in Seq(A) /\ Len(t) = 1 + Len(s)
          /\ \A i \in 1 .. 1 + Len(s) : t[i] = IF i <= 1 THEN <<e>>[i] ELSE s[i - 1]
        BY <1>1, <1>2, ConcatProperties
    <2>2. \A i \in 1 .. Len(s) : i + 1 \in 1 .. 1 + Len(s) /\ ~(i + 1 <= 1) /\ (i + 1) - 1 = i
        BY <1>1
    <2> QED BY <1>1, <2>1, <2>2
<1>4. t # << >> /\ Head(t) = e
    BY <1>1, <1>3, EmptySeq
<1>5. /\ Tail(t) \in Seq(A) /\ Len(Tail(t)) = Len(s)
      /\ \A i \in 1 .. Len(s) : Tail(t)[i] = s[i]
    <2>1. /\ Tail(t) \in Seq(A) /\ Len(Tail(t)) = Len(t) - 1
          /\ \A i \in 1 .. Len(Tail(t)) : Tail(t)[i] = t[i + 1]
        BY <1>3, <1>4, HeadTailProperties
    <2> QED BY <1>1, <1>3, <2>1
<1>6. Tail(t) = s
    BY <1>5, SeqEqual
<1> QED BY <1>2, <1>3, <1>4, <1>6

\* Llama 2, once the system prompt is known.
Llama2Of(system, rest) ==
    LET expected(i) == IF i % 2 = 1 THEN "user" ELSE "assistant"
    IN  IF \E i \in DOMAIN rest : rest[i].role # expected(i)
        THEN Raises
        ELSE IF rest = << >>
             THEN << >>
             ELSE <<Segment("system", system)>>
                    \o [i \in DOMAIN rest |-> Segment(rest[i].role, Printed(rest[i]))]

\* Question and answer in turns, as the assertion of Llama 2 wants them.
Alternates(rest) ==
    \A i \in DOMAIN rest : rest[i].role = IF i % 2 = 1 THEN "user" ELSE "assistant"

\* Llama 2 tells the system prompt and every message of a dialogue in turns.
LEMMA Llama2Tells ==
    ASSUME NEW system \in Texts, NEW rest \in Seq(Messages), rest # << >>,
           Last(rest).role = "user", Alternates(rest)
    PROVE  /\ Told(Llama2Of(system, rest)) = system \o FlatMap(TextOf, rest)
           /\ Last(Llama2Of(system, rest)).as = "user"
<1> DEFINE d == <<Segment("system", system)>>
<1>1. Llama2Of(system, rest) = d \o AsTheyAre(rest)
    <2>1. [i \in DOMAIN rest |-> Segment(rest[i].role, Printed(rest[i]))] = AsTheyAre(rest)
        BY MessageAt DEF AsTheyAre
    <2> QED BY <2>1 DEF Llama2Of, Alternates
<1>2. d \in Seq(Segments) /\ Told(d) = system
    <2>1. Segment("system", system) \in Segments /\ Segment("system", system).text = system
        BY DEF Segment, Segments
    <2> QED BY <2>1, ToldOne
<1> HIDE DEF d
<1>3. /\ AsTheyAre(rest) \in Seq(Segments) /\ Told(AsTheyAre(rest)) = FlatMap(TextOf, rest)
      /\ Last(AsTheyAre(rest)).as = "user"
    BY AsTheyAreTells
<1>4. AsTheyAre(rest) # << >>
    BY EmptySeq, MessageAt DEF AsTheyAre
<1>5. Told(d \o AsTheyAre(rest)) = Told(d) \o Told(AsTheyAre(rest))
    BY <1>2, <1>3, ToldConcat
<1>6. Last(d \o AsTheyAre(rest)) = Last(AsTheyAre(rest))
    BY <1>2, <1>3, <1>4, LastOfConcat
<1> QED BY <1>1, <1>2, <1>3, <1>5, <1>6

\* The system prompt of Llama 2 is the first message, or its own.
LEMMA Llama2IsOf ==
    ASSUME NEW rest \in Seq(Said), rest # << >>
    PROVE  /\ Llama2(rest) = Llama2Of(DefaultSystem, rest)
           /\ \A m \in Messages : m.role = "system" =>
                  Llama2(<<m>> \o rest) = Llama2Of(m.text, rest)
<1>1. Head(rest).role # "system"
    <2>1. Head(rest) \in Said
        BY HeadTailProperties
    <2> QED BY <2>1 DEF Said
<1>2. Llama2(rest) = Llama2Of(DefaultSystem, rest)
    BY <1>1 DEF Llama2, Llama2Of
<1>3. ASSUME NEW m \in Messages, m.role = "system"
      PROVE  Llama2(<<m>> \o rest) = Llama2Of(m.text, rest)
    <2>1. Head(<<m>> \o rest) = m /\ Tail(<<m>> \o rest) = rest
        BY ConsTail
    <2>2. Content(m) = m.text
        BY PromptsAssumption DEF Messages, Content
    <2> QED BY <1>3, <2>1, <2>2 DEF Llama2, Llama2Of
<1> QED BY <1>2, <1>3

-----------------------------------------------------------------------------
(* Mistral: what has been written and what waits in inst_buffer are, at    *)
(* every message, all that was said before it.                             *)

\* A sequence is its beginning and its last item.
LEMMA RunAppend ==
    ASSUME NEW A, NEW k \in Nat, NEW f, f \in [1 .. k + 1 -> A]
    PROVE  /\ [i \in 1 .. k |-> f[i]] \in Seq(A) /\ f[k + 1] \in A
           /\ f = Append([i \in 1 .. k |-> f[i]], f[k + 1])
<1> DEFINE g == [i \in 1 .. k |-> f[i]]
<1>1. g \in [1 .. k -> A] /\ f[k + 1] \in A
    OBVIOUS
<1>2. g \in Seq(A) /\ Len(g) = k /\ f \in Seq(A) /\ Len(f) = k + 1
    BY <1>1, SeqDef, LenProperties
<1>3. \A i \in 1 .. k : g[i] = f[i]
    OBVIOUS
<1> HIDE DEF g
<1>4. PICK h : h = Append(g, f[k + 1])
    OBVIOUS
<1>5. h \in Seq(A) /\ Len(h) = k + 1 /\ h[k + 1] = f[k + 1] /\ \A i \in 1 .. k : h[i] = f[i]
    BY <1>1, <1>2, <1>3, <1>4, AppendProperties
<1>6. \A i \in 1 .. k + 1 : h[i] = f[i]
    <2>1. \A i \in 1 .. k + 1 : i \in 1 .. k \/ i = k + 1
        OBVIOUS
    <2> QED BY <1>5, <2>1
<1>7. h = f
    BY <1>2, <1>5, <1>6, SeqEqual
<1> QED BY <1>1, <1>2, <1>4, <1>7 DEF g

\* Empty items make nothing.
LEMMA FlattenNothing ==
    ASSUME NEW A, NEW ss \in Seq(Seq(A)), \A i \in 1 .. Len(ss) : ss[i] = << >>
    PROVE  FlattenSeq(ss) = << >>
<1> DEFINE P == {tt \in Seq(Seq(A)) :
                    (\A i \in 1 .. Len(tt) : tt[i] = << >>) => FlattenSeq(tt) = << >>}
<1>1. << >> \in P
    BY FlattenNone, EmptySeq
<1>2. ASSUME NEW tt \in Seq(Seq(A)), NEW e \in Seq(A), tt \in P PROVE Append(tt, e) \in P
    <2>0. Append(tt, e) \in Seq(Seq(A))
        BY AppendProperties
    <2> SUFFICES ASSUME \A i \in 1 .. Len(Append(tt, e)) : Append(tt, e)[i] = << >>
                 PROVE  FlattenSeq(Append(tt, e)) = << >>
        BY <2>0
    <2>1. /\ Len(Append(tt, e)) = Len(tt) + 1 /\ Len(tt) \in Nat
          /\ Append(tt, e)[Len(tt) + 1] = e
          /\ \A i \in 1 .. Len(tt) : Append(tt, e)[i] = tt[i]
        BY AppendProperties, LenProperties
    <2>2. e = << >> /\ \A i \in 1 .. Len(tt) : tt[i] = << >>
        BY <2>1
    <2>3. FlattenSeq(tt) = << >>
        BY <1>2, <2>2
    <2>4. FlattenSeq(Append(tt, e)) = FlattenSeq(tt) \o e
        BY FlattenAppend
    <2> QED BY <2>2, <2>3, <2>4, ConcatEmptySeq, EmptySeq
<1> HIDE DEF P
<1>3. ss \in P
    BY <1>1, <1>2, InductionOnSequences
<1> QED BY <1>3 DEF P

\* The answers among ms.
Assistants(ms) == {j \in DOMAIN ms : ms[j].role = "assistant"}

\* inst_buffer before message i.
Buffered(ms, i) ==
    FlattenSeq([j \in 1 .. i - 1 |->
        IF Assistants(ms) \cap (j .. i - 1) = {} THEN Printed(ms[j]) ELSE << >>])

\* What is written at message i.
Written(ms, i) ==
    IF i \in Assistants(ms)
    THEN <<Segment("user", Buffered(ms, i))>> \o <<Segment("assistant", Printed(ms[i]))>>
    ELSE << >>

\* The first k messages have been dealt with.
WrittenTo(ms, k) == FlattenSeq([i \in 1 .. k |-> Written(ms, i)])
SaidTo(ms, k) == FlattenSeq([i \in 1 .. k |-> TextOf[ms[i]]])

\* inst_buffer: emptied by an answer, and else one text longer.
LEMMA BufferedNext ==
    ASSUME NEW ms \in Seq(Messages), NEW k \in Nat, k + 1 <= Len(ms)
    PROVE  /\ Buffered(ms, k + 1) \in Texts
           /\ Buffered(ms, k + 2) =
                IF k + 1 \in Assistants(ms) THEN << >>
                ELSE Buffered(ms, k + 1) \o TextOf[ms[k + 1]]
<1> DEFINE f(i) == [j \in 1 .. i - 1 |->
                IF Assistants(ms) \cap (j .. i - 1) = {} THEN Printed(ms[j]) ELSE << >>]
<1>0. /\ Len(ms) \in Nat /\ DOMAIN ms = 1 .. Len(ms)
      /\ \A j \in 1 .. k + 1 : /\ j \in DOMAIN ms /\ TextOf[ms[j]] \in Texts
                               /\ Printed(ms[j]) = TextOf[ms[j]]
    <2>1. \A j \in 1 .. k + 1 : j \in 1 .. Len(ms)
        BY MessageAt
    <2> QED BY <2>1, MessageAt
<1>1. (k + 1) - 1 = k /\ (k + 2) - 1 = k + 1 /\ << >> \in Texts
    BY NoTextIsText DEF NoText
<1>2. f(k + 1) \in [1 .. k -> Texts] /\ f(k + 2) \in [1 .. k + 1 -> Texts]
    BY <1>0, <1>1
<1>3. f(k + 1) \in Seq(Texts) /\ f(k + 2) \in Seq(Texts) /\ Len(f(k + 2)) = k + 1
    BY <1>2, SeqDef, LenProperties
<1>4. Buffered(ms, k + 1) = FlattenSeq(f(k + 1)) /\ Buffered(ms, k + 2) = FlattenSeq(f(k + 2))
    BY <1>1 DEF Buffered
<1>5. Buffered(ms, k + 1) \in Texts
    <2> HIDE DEF f
    <2> QED BY <1>3, <1>4, FlattenType DEF Texts
<1>6. CASE k + 1 \in Assistants(ms)
    <2>1. \A j \in 1 .. k + 1 : k + 1 \in Assistants(ms) \cap (j .. k + 1)
        BY <1>6
    <2>2. \A j \in 1 .. k + 1 : f(k + 2)[j] = << >>
        BY <1>1, <2>1
    <2>3. FlattenSeq(f(k + 2)) = << >>
        <3> HIDE DEF f
        <3> QED BY <1>3, <2>2, FlattenNothing DEF Texts
    <2> QED BY <1>4, <1>5, <1>6, <2>3
<1>7. CASE k + 1 \notin Assistants(ms)
    <2>1. \A j \in 1 .. k : Assistants(ms) \cap (j .. k + 1) = Assistants(ms) \cap (j .. k)
        <3>1. \A j \in 1 .. k : j .. k + 1 = (j .. k) \cup {k + 1}
            OBVIOUS
        <3> QED BY <1>7, <3>1
    <2>2. Assistants(ms) \cap (k + 1 .. k + 1) = {}
        BY <1>7
    <2>3. f(k + 2)[k + 1] = TextOf[ms[k + 1]]
        BY <1>0, <1>1, <2>2
    <2>4. [j \in 1 .. k |-> f(k + 2)[j]] = f(k + 1)
        BY <1>1, <2>1
    <2> HIDE DEF f
    <2>5. f(k + 2) = Append(f(k + 1), TextOf[ms[k + 1]]) /\ TextOf[ms[k + 1]] \in Texts
        BY <1>2, <2>3, <2>4, RunAppend
    <2>6. FlattenSeq(f(k + 2)) = FlattenSeq(f(k + 1)) \o TextOf[ms[k + 1]]
        BY <1>3, <2>5, FlattenAppend DEF Texts
    <2> QED BY <1>4, <1>5, <1>7, <2>6
<1> QED BY <1>6, <1>7

\* An answer writes inst_buffer and itself, another message nothing.
LEMMA WrittenIs ==
    ASSUME NEW ms \in Seq(Messages), NEW k \in Nat, k + 1 <= Len(ms)
    PROVE  /\ Written(ms, k + 1) \in Seq(Segments)
           /\ Told(Written(ms, k + 1)) =
                IF k + 1 \in Assistants(ms)
                THEN Buffered(ms, k + 1) \o TextOf[ms[k + 1]] ELSE << >>
<1>1. Buffered(ms, k + 1) \in Texts /\ TextOf[ms[k + 1]] \in Texts
      /\ Printed(ms[k + 1]) = TextOf[ms[k + 1]]
    BY BufferedNext, MessageAt
<1> DEFINE asked == Segment("user", Buffered(ms, k + 1))
           answered == Segment("assistant", Printed(ms[k + 1]))
<1>2. /\ asked \in Segments /\ asked.text = Buffered(ms, k + 1)
      /\ answered \in Segments /\ answered.text = TextOf[ms[k + 1]]
    BY <1>1 DEF Segment, Segments
<1>3. CASE k + 1 \in Assistants(ms)
    <2>1. Written(ms, k + 1) = <<asked>> \o <<answered>>
        BY <1>3 DEF Written
    <2> HIDE DEF asked, answered
    <2>2. /\ <<asked>> \in Seq(Segments) /\ Told(<<asked>>) = asked.text
          /\ <<answered>> \in Seq(Segments) /\ Told(<<answered>>) = answered.text
        BY <1>2, ToldOne
    <2>3. \A p, q \in Seq(Segments) : Told(p \o q) = Told(p) \o Told(q) /\ p \o q \in Seq(Segments)
        BY ToldConcat
    <2>4. /\ <<asked>> \o <<answered>> \in Seq(Segments)
          /\ Told(<<asked>> \o <<answered>>) = Told(<<asked>>) \o Told(<<answered>>)
        BY ONLY <2>2, <2>3
    <2>5. Told(Written(ms, k + 1)) = Buffered(ms, k + 1) \o TextOf[ms[k + 1]]
        BY ONLY <1>2, <2>1, <2>2, <2>4
    <2> QED BY <1>3, <2>1, <2>4, <2>5
<1>4. CASE k + 1 \notin Assistants(ms)
    <2>1. Told(<< >>) = << >>
        BY FlattenNone DEF Told
    <2> QED BY <1>4, <2>1, EmptySeq DEF Written
<1> QED BY <1>3, <1>4

\* What is written and inst_buffer are, at every message, all that was said.
LEMMA MistralKeeps ==
    ASSUME NEW ms \in Seq(Messages)
    PROVE  \A k \in 0 .. Len(ms) :
             /\ WrittenTo(ms, k) \in Seq(Segments)
             /\ Buffered(ms, k + 1) \in Texts
             /\ Told(WrittenTo(ms, k)) \o Buffered(ms, k + 1) = SaidTo(ms, k)
<1> DEFINE Keeps(k) == /\ WrittenTo(ms, k) \in Seq(Segments)
                       /\ Buffered(ms, k + 1) \in Texts
                       /\ Told(WrittenTo(ms, k)) \o Buffered(ms, k + 1) = SaidTo(ms, k)
           S == {k \in Nat : k <= Len(ms) => Keeps(k)}
<1>0. Len(ms) \in Nat
    BY LenProperties
<1>1. 0 \in S
    <2>1. /\ [i \in 1 .. 0 |-> Written(ms, i)] = << >>
          /\ [i \in 1 .. 0 |-> TextOf[ms[i]]] = << >>
          /\ [j \in 1 .. (0 + 1) - 1 |->
                IF Assistants(ms) \cap (j .. (0 + 1) - 1) = {} THEN Printed(ms[j]) ELSE << >>] = << >>
        OBVIOUS
    <2>2. WrittenTo(ms, 0) = << >> /\ SaidTo(ms, 0) = << >> /\ Buffered(ms, 0 + 1) = << >>
        BY <2>1, FlattenNone DEF WrittenTo, SaidTo, Buffered
    <2>3. Told(<< >>) = << >> /\ << >> \o << >> = << >> /\ << >> \in Seq(Segments) /\ << >> \in Texts
        BY FlattenNone, NoTextIsText, EmptySeq, ConcatEmptySeq DEF Told, NoText
    <2> QED BY <2>2, <2>3
<1>2. ASSUME NEW k \in Nat, k \in S PROVE k + 1 \in S
    <2> SUFFICES ASSUME k + 1 <= Len(ms) PROVE Keeps(k + 1)
        OBVIOUS
    <2>1. Keeps(k) /\ (k + 1) + 1 = k + 2
        BY <1>0, <1>2
    <2>2. \A i \in Nat : i + 1 <= k + 1 => i + 1 <= Len(ms)
        BY <1>0
    <2>3. \A i \in 1 .. k + 1 : Written(ms, i) \in Seq(Segments) /\ TextOf[ms[i]] \in Texts
        <3> SUFFICES ASSUME NEW i \in 1 .. k + 1
                     PROVE Written(ms, i) \in Seq(Segments) /\ TextOf[ms[i]] \in Texts
            OBVIOUS
        <3>1. i - 1 \in Nat /\ (i - 1) + 1 = i /\ (i - 1) + 1 <= Len(ms) /\ i \in 1 .. Len(ms)
            BY <1>0
        <3>2. Written(ms, (i - 1) + 1) \in Seq(Segments)
            BY ONLY ms \in Seq(Messages), <3>1, WrittenIs
        <3> QED BY <3>1, <3>2, MessageAt
    <2>4. WrittenTo(ms, k + 1) = WrittenTo(ms, k) \o Written(ms, k + 1)
        <3> DEFINE f == [i \in 1 .. k + 1 |-> Written(ms, i)]
        <3>1. f \in [1 .. k + 1 -> Seq(Segments)] /\ f[k + 1] = Written(ms, k + 1)
              /\ [i \in 1 .. k |-> f[i]] = [i \in 1 .. k |-> Written(ms, i)]
            BY <2>3
        <3> HIDE DEF f
        <3>2. [i \in 1 .. k |-> f[i]] \in Seq(Seq(Segments)) /\ f[k + 1] \in Seq(Segments)
              /\ f = Append([i \in 1 .. k |-> f[i]], f[k + 1])
            BY <3>1, RunAppend
        <3>3. FlattenSeq(f) = FlattenSeq([i \in 1 .. k |-> f[i]]) \o f[k + 1]
            BY <3>2, FlattenAppend
        <3> QED BY <3>1, <3>3 DEF WrittenTo, f
    <2>5. SaidTo(ms, k + 1) = SaidTo(ms, k) \o TextOf[ms[k + 1]]
        <3> DEFINE f == [i \in 1 .. k + 1 |-> TextOf[ms[i]]]
        <3>1. f \in [1 .. k + 1 -> Texts] /\ f[k + 1] = TextOf[ms[k + 1]]
              /\ [i \in 1 .. k |-> f[i]] = [i \in 1 .. k |-> TextOf[ms[i]]]
            BY <2>3
        <3> HIDE DEF f
        <3>2. [i \in 1 .. k |-> f[i]] \in Seq(Texts) /\ f[k + 1] \in Texts
              /\ f = Append([i \in 1 .. k |-> f[i]], f[k + 1])
            BY <3>1, RunAppend
        <3>3. FlattenSeq(f) = FlattenSeq([i \in 1 .. k |-> f[i]]) \o f[k + 1]
            BY <3>2, FlattenAppend DEF Texts
        <3> QED BY <3>1, <3>3 DEF SaidTo, f
    <2> DEFINE text == TextOf[ms[k + 1]]
    <2>6. text \in Texts /\ Written(ms, k + 1) \in Seq(Segments)
        BY <2>3
    <2>7. /\ WrittenTo(ms, k + 1) \in Seq(Segments)
          /\ Told(WrittenTo(ms, k + 1)) = Told(WrittenTo(ms, k)) \o Told(Written(ms, k + 1))
        BY <2>1, <2>4, <2>6, ToldConcat
    <2>8. Told(WrittenTo(ms, k)) \in Texts
        BY <2>1, ToldIsLoop
    <2>9. /\ Buffered(ms, k + 2) = IF k + 1 \in Assistants(ms) THEN << >>
                                    ELSE Buffered(ms, k + 1) \o text
          /\ Told(Written(ms, k + 1)) = IF k + 1 \in Assistants(ms)
                                         THEN Buffered(ms, k + 1) \o text ELSE << >>
        BY BufferedNext, WrittenIs
    <2> HIDE DEF text
    <2>10. PICK told, buffered \in Texts :
              told = Told(WrittenTo(ms, k)) /\ buffered = Buffered(ms, k + 1)
        BY <2>1, <2>8
    <2>11. /\ buffered \o text \in Texts /\ << >> \in Texts
           /\ (told \o (buffered \o text)) \o << >> = told \o (buffered \o text)
           /\ told \o << >> = told
           /\ (told \o buffered) \o text = told \o (buffered \o text)
        BY <2>6, ConcatProperties, ConcatEmptySeq, ConcatAssociative, EmptySeq DEF Texts
    <2>12. Buffered(ms, k + 2) \in Texts
        BY <2>9, <2>10, <2>11
    <2>13. Told(WrittenTo(ms, k + 1)) \o Buffered(ms, k + 2) = told \o (buffered \o text)
        BY <2>7, <2>9, <2>10, <2>11
    <2>14. SaidTo(ms, k + 1) = told \o (buffered \o text)
        BY <2>1, <2>5, <2>10, <2>11 DEF text
    <2> QED BY <2>1, <2>7, <2>12, <2>13, <2>14
<1> HIDE DEF S, Keeps
<1>3. \A k \in Nat : k \in S
    BY <1>1, <1>2, Induction
<1> QED BY <1>0, <1>3 DEF S, Keeps

\* Mistral tells every message, and ends with the last question, which still
\* waits in inst_buffer behind the last message.
LEMMA MistralTells ==
    ASSUME NEW ms \in Seq(Messages), ms # << >>, Last(ms).role = "user", Last(ms).text # << >>
    PROVE  Told(Mistral(ms)) = FlatMap(TextOf, ms) /\ Last(Mistral(ms)).as = "user"
<1> DEFINE n == Len(ms)
           asked == Segment("user", Buffered(ms, n + 1))
<1>1. n \in Nat /\ DOMAIN ms = 1 .. n /\ n # 0
    BY MessageAt, EmptySeq
<1>2. Mistral(ms) = WrittenTo(ms, n) \o
          (IF Buffered(ms, n + 1) = << >> THEN << >> ELSE <<asked>>)
    BY <1>1 DEF Mistral, WrittenTo, Written, Buffered, Assistants
<1>3. SaidTo(ms, n) = FlatMap(TextOf, ms)
    BY <1>1 DEF SaidTo, FlatMap
<1> HIDE DEF asked
<1>4. /\ WrittenTo(ms, n) \in Seq(Segments) /\ Buffered(ms, n + 1) \in Texts
      /\ Told(WrittenTo(ms, n)) \o Buffered(ms, n + 1) = FlatMap(TextOf, ms)
    BY <1>1, <1>3, MistralKeeps
<1>5. Buffered(ms, n + 1) # << >>
    <2>1. n \notin Assistants(ms) /\ TextOf[ms[n]] \in Texts /\ TextOf[ms[n]] # << >>
        BY <1>1, MessageAt DEF Assistants, Last
    <2>2. n - 1 \in Nat /\ (n - 1) + 1 = n /\ (n - 1) + 2 = n + 1 /\ (n - 1) + 1 <= Len(ms)
        BY <1>1
    <2>3. /\ Buffered(ms, (n - 1) + 1) \in Texts
          /\ Buffered(ms, (n - 1) + 2) = IF (n - 1) + 1 \in Assistants(ms) THEN << >>
                ELSE Buffered(ms, (n - 1) + 1) \o TextOf[ms[(n - 1) + 1]]
        BY <2>2, BufferedNext
    <2>4. Buffered(ms, n) \in Texts /\ Buffered(ms, n + 1) = Buffered(ms, n) \o TextOf[ms[n]]
        BY <2>1, <2>2, <2>3
    <2> QED BY <2>1, <2>4, ConcatEqualIffEmpty DEF Texts
<1>6. asked \in Segments /\ asked.text = Buffered(ms, n + 1) /\ asked.as = "user"
    BY <1>4 DEF asked, Segment, Segments
<1>7. <<asked>> \in Seq(Segments) /\ Told(<<asked>>) = Buffered(ms, n + 1)
      /\ <<asked>> # << >> /\ Last(<<asked>>) = asked
    BY <1>6, ToldOne DEF Last
<1>8. Told(WrittenTo(ms, n) \o <<asked>>) = Told(WrittenTo(ms, n)) \o Told(<<asked>>)
    BY <1>4, <1>7, ToldConcat
<1>9. Last(WrittenTo(ms, n) \o <<asked>>) = asked
    BY <1>4, <1>7, LastOfConcat
<1> QED BY <1>2, <1>4, <1>5, <1>6, <1>7, <1>8, <1>9
-----------------------------------------------------------------------------
(* What the engine is given, and what it sends.                            *)

\* The parts of a sequence that one item has been appended to.
LEMMA EndOfAppend ==
    ASSUME NEW A, NEW s \in Seq(A), NEW e \in A
    PROVE  /\ s \o <<e>> \in Seq(A) /\ s \o <<e>> # << >>
           /\ Front(s \o <<e>>) = s /\ Last(s \o <<e>>) = e
           /\ Len(s \o <<e>>) = Len(s) + 1
<1>1. PICK t : t = s \o <<e>>
    OBVIOUS
<1>2. t = Append(s, e)
    BY <1>1, AppendIsConcat
<1>3. /\ t \in Seq(A) /\ t # << >> /\ Len(t) = Len(s) + 1 /\ t[Len(s) + 1] = e
      /\ Len(s) \in Nat /\ \A i \in 1 .. Len(s) : t[i] = s[i] /\ s[i] \in A
    BY <1>2, AppendProperties, LenProperties, ElementOfSeq
<1>4. /\ SubSeq(t, 1, Len(s)) \in Seq(A) /\ Len(SubSeq(t, 1, Len(s))) = Len(s)
      /\ \A i \in 1 .. Len(s) : SubSeq(t, 1, Len(s))[i] = t[i]
    <2>1. \A i \in 1 .. Len(s) : t[i] \in A
        BY <1>3
    <2>2. /\ SubSeq(t, 1, Len(s)) \in Seq(A)
          /\ Len(SubSeq(t, 1, Len(s))) = IF 1 <= Len(s) THEN Len(s) - 1 + 1 ELSE 0
          /\ \A i \in 1 .. Len(s) - 1 + 1 : SubSeq(t, 1, Len(s))[i] = t[1 + i - 1]
        BY <1>3, <2>1, SubSeqProperties
    <2> QED BY <1>3, <2>2
<1>5. SubSeq(t, 1, Len(s)) = s
    BY <1>3, <1>4, SeqEqual
<1>6. Len(t) - 1 = Len(s)
    BY <1>3
<1>7. Front(t) = s
    BY <1>5, <1>6 DEF Front
<1> QED BY <1>1, <1>3, <1>7 DEF Last

\* The system message is there exactly if there is a system prompt.
LEMMA SystemMessageTells ==
    ASSUME NEW system \in Texts
    PROVE  /\ SystemMessage(system) \in Seq(Messages)
           /\ FlatMap(TextOf, SystemMessage(system)) = system
           /\ FlatMap(QuestionOf, SystemMessage(system)) = system
           /\ system = NoText => SystemMessage(system) = << >>
           /\ system # NoText => SystemMessage(system) = <<Message("system", system)>>
           /\ Message("system", system) \in Messages
<1>1. system # Blank /\ Message("system", system) \in Messages
    BY PromptsAssumption DEF Message, Messages
<1>2. CASE system = NoText
    <2>1. SystemMessage(system) = << >>
        BY <1>2 DEF SystemMessage
    <2>2. << >> \in Seq(Messages)
        BY EmptySeq
    <2> QED BY <1>1, <1>2, <2>1, <2>2, FlatMapNone DEF NoText
<1>3. CASE system # NoText
    <2> DEFINE m == Message("system", system)
    <2>1. SystemMessage(system) = <<m>>
        BY <1>1, <1>3 DEF SystemMessage
    <2>2. TextOf[m] = system /\ QuestionOf[m] = system
        BY <1>1 DEF TextOf, QuestionOf, Message
    <2> HIDE DEF m
    <2>3. FlatMap(TextOf, <<m>>) = TextOf[m] /\ FlatMap(QuestionOf, <<m>>) = QuestionOf[m]
        BY <1>1, Loops, FlatMapOne DEF m
    <2>4. <<m>> \in Seq(Messages)
        BY <1>1 DEF m
    <2> QED BY <1>1, <1>3, <2>1, <2>2, <2>3, <2>4 DEF m
<1> QED BY <1>2, <1>3

\* Questions and answers are messages.
LEMMA SaidIsMessages == Said \subseteq Messages /\ Seq(Said) \subseteq Seq(Messages)
<1>1. Said \subseteq Messages
    BY DEF Said, Messages
<1>2. ASSUME NEW s \in Seq(Said) PROVE s \in Seq(Messages)
    <2>1. \A i \in 1 .. Len(s) : s[i] \in Messages
        BY <1>1, ElementOfSeq
    <2>2. s \in [1 .. Len(s) -> Messages] /\ Len(s) \in Nat
        BY <2>1, LenProperties
    <2> QED BY <2>2, SeqDef
<1> QED BY <1>1, <1>2

\* What the engine leads with.
Instructions(system, context) == IF context = Blank THEN system ELSE system \o context

\* What the UI sends is taken apart and put together again, the context added
\* to the system prompt.
LEMMA EngineKeeps ==
    ASSUME NEW system \in Texts, NEW context \in {Blank} \cup Texts,
           NEW said \in Seq(Said), NEW question \in Texts
    PROVE  /\ Instructions(system, context) \in Texts
           /\ EngineMessages(SystemMessage(system) \o said \o <<Message("user", question)>>,
                             context)
                  = SystemMessage(Instructions(system, context))
                        \o (said \o <<Message("user", question)>>)
<1> DEFINE given == Instructions(system, context)
           q == Message("user", question)
           rest == said \o <<q>>
           lead == SystemMessage(system)
           ms == lead \o said \o <<q>>
<1>1. given \in Texts
    BY ConcatProperties DEF Texts, Instructions
<1>2. q \in Said /\ q.text = question /\ q.role = "user" /\ question # Blank /\ system # Blank
    BY PromptsAssumption DEF Message, Said
<1>3. q \in Messages /\ said \in Seq(Messages)
    BY <1>2, SaidIsMessages
<1> HIDE DEF q
<1>4. /\ rest \in Seq(Said) /\ rest # << >> /\ Front(rest) = said /\ Last(rest) = q
    BY <1>2, EndOfAppend
<1>5. rest \in Seq(Messages) /\ Head(rest) \in Said
    BY <1>4, SaidIsMessages, HeadTailProperties
<1>6. Head(rest).role # "system"
    BY <1>5 DEF Said
<1>7. lead \in Seq(Messages) /\ SystemMessage(given) \in Seq(Messages)
      /\ <<q>> \in Seq(Messages)
    BY <1>1, <1>3, SystemMessageTells
<1>8. ms = lead \o rest /\ SystemMessage(given) \o said \o <<q>> = SystemMessage(given) \o rest
    <2>1. \A x, y, z \in Seq(Messages) : (x \o y) \o z = x \o (y \o z)
        BY ConcatAssociative
    <2> HIDE DEF lead
    <2> QED BY <1>3, <1>7, <2>1
<1> HIDE DEF rest
<1>9. /\ FromMessages(ms).system_message = IF system = NoText THEN Blank ELSE system
      /\ FromMessages(ms).last_message = question
      /\ FromMessages(ms).chat_history = said
    <2>1. CASE system = NoText
        <3>1. lead = << >> /\ << >> \o rest = rest
            BY <1>5, <2>1, SystemMessageTells, ConcatEmptySeq
        <3>2. ms = rest
            BY <1>8, <3>1
        <3> HIDE DEF ms
        <3> QED BY <1>2, <1>4, <1>6, <2>1, <3>2 DEF FromMessages
    <2>2. CASE system # NoText
        <3> DEFINE m == Message("system", system)
        <3>1. m \in Messages /\ m.role = "system" /\ m.text = system /\ lead = <<m>>
            BY <2>2, SystemMessageTells DEF Message
        <3> HIDE DEF m, lead
        <3>2. ms = <<m>> \o rest
            BY <1>8, <3>1
        <3>3. Head(ms) = m /\ Tail(ms) = rest
            BY <1>5, <3>1, <3>2, ConsTail
        <3>4. Last(ms) = q /\ ms # << >>
            <4>1. <<m>> \in Seq(Messages)
                BY <3>1
            <4> QED BY <1>4, <1>5, <3>2, <4>1, LastOfConcat
        <3> HIDE DEF ms
        <3> QED BY <1>2, <1>4, <2>2, <3>1, <3>3, <3>4 DEF FromMessages
    <2> QED BY <2>1, <2>2
<1>10. EngineMessages(ms, context) = SystemMessage(given) \o said \o <<q>>
    <2> HIDE DEF ms
    <2> QED BY <1>2, <1>9 DEF EngineMessages, Instructions, q
<1> QED BY <1>1, <1>8, <1>10 DEF ms, lead, q, rest

-----------------------------------------------------------------------------
(* The history: two messages of a turn, one of a turn without answer.      *)

\* What the kept turns say, with or without the answers.
Spoken(history, answers) ==
    FlattenSeq([i \in DOMAIN Kept(history) |->
        history[i].question
            \o (IF answers /\ history[i].shown # Blank
                THEN Head(history[i].shown) ELSE << >>)])

\* The messages of the kept turns.
SaidBefore(history) ==
    FlattenSeq([i \in DOMAIN Kept(history) |-> TurnMessages(history[i])])

\* The turns that _chat keeps are turns of the history.
LEMMA KeptTurns ==
    ASSUME NEW history \in Seq(Turns)
    PROVE  /\ Len(Kept(history)) \in Nat /\ DOMAIN Kept(history) = 1 .. Len(Kept(history))
           /\ \A i \in DOMAIN Kept(history) : history[i] \in Turns
<1>1. Len(history) \in Nat /\ \A i \in 1 .. Len(history) : history[i] \in Turns
    BY LenProperties, ElementOfSeq
<1>2. CASE Len(history) <= HistoryMax
    BY <1>1, <1>2, LenProperties DEF Kept
<1>3. CASE ~(Len(history) <= HistoryMax)
    <2>1. HistoryMax \in Nat /\ HistoryMax <= Len(history)
        BY <1>1, <1>3, PromptsAssumption
    <2>2. Kept(history) = SubSeq(history, 1, HistoryMax)
        BY <1>3 DEF Kept
    <2>3. \A i \in 1 .. HistoryMax : history[i] \in Turns
        BY <1>1, <2>1
    <2>4. /\ SubSeq(history, 1, HistoryMax) \in Seq(Turns)
          /\ Len(SubSeq(history, 1, HistoryMax)) =
                IF 1 <= HistoryMax THEN HistoryMax - 1 + 1 ELSE 0
        BY <2>1, <2>3, SubSeqProperties
    <2>5. Len(Kept(history)) = HistoryMax /\ DOMAIN Kept(history) = 1 .. HistoryMax
        BY <2>1, <2>2, <2>4, LenProperties
    <2> QED BY <2>1, <2>3, <2>5
<1> QED BY <1>2, <1>3

\* The messages of a turn tell its question and its answer, if there is one.
LEMMA TurnTells ==
    ASSUME NEW turn \in Turns
    PROVE  /\ TurnMessages(turn) \in Seq(Said)
           /\ FlatMap(TextOf, TurnMessages(turn)) = turn.question
                 \o (IF turn.shown # Blank THEN Head(turn.shown) ELSE << >>)
           /\ FlatMap(QuestionOf, TurnMessages(turn)) = turn.question \o << >>
           /\ turn.shown # Blank =>
                 /\ Len(TurnMessages(turn)) = 2
                 /\ TurnMessages(turn)[1].role = "user"
                 /\ TurnMessages(turn)[2].role = "assistant"
<1> DEFINE q == Message("user", turn.question)
<1>1. turn.question \in Texts /\ turn.shown \in {Blank} \cup (Seq(Texts) \ {<< >>})
    BY DEF Turns
<1>2. /\ q \in Said /\ TextOf[q] = turn.question /\ QuestionOf[q] = turn.question
      /\ q.role = "user"
    BY <1>1 DEF Message, Said, Messages, TextOf, QuestionOf
<1> HIDE DEF q
<1>3. /\ <<q>> \in Seq(Said) /\ <<q>> \in Seq(Messages)
      /\ FlatMap(TextOf, <<q>>) = turn.question
      /\ FlatMap(QuestionOf, <<q>>) = turn.question
    <2>1. q \in Messages
        BY <1>2, SaidIsMessages
    <2> QED BY <1>2, <2>1, Loops, FlatMapOne
<1>4. CASE turn.shown = Blank
    <2>1. TurnMessages(turn) = <<q>> \o << >> /\ <<q>> \o << >> = <<q>>
        BY <1>3, <1>4, ConcatEmptySeq DEF TurnMessages, q
    <2>2. turn.question \o << >> = turn.question
        BY <1>1, ConcatEmptySeq DEF Texts
    <2> QED BY <1>3, <1>4, <2>1, <2>2
<1>5. CASE turn.shown # Blank
    <2> DEFINE a == Message("assistant", Head(turn.shown))
    <2>1. Head(turn.shown) \in Texts
        BY <1>1, <1>5, HeadTailProperties
    <2>2. a \in Said /\ TextOf[a] = Head(turn.shown) /\ QuestionOf[a] = << >> /\ a.role = "assistant"
        BY <2>1 DEF Message, Said, Messages, TextOf, QuestionOf, NoText
    <2>3. TurnMessages(turn) = <<q>> \o <<a>>
        BY <1>5 DEF TurnMessages, q
    <2> HIDE DEF a
    <2>4. /\ <<a>> \in Seq(Said) /\ <<a>> \in Seq(Messages)
          /\ FlatMap(TextOf, <<a>>) = Head(turn.shown)
          /\ FlatMap(QuestionOf, <<a>>) = << >>
        <3>1. a \in Messages
            BY <2>2, SaidIsMessages
        <3> QED BY <2>2, <3>1, Loops, FlatMapOne
    <2>5. /\ FlatMap(TextOf, <<q>> \o <<a>>) = turn.question \o Head(turn.shown)
          /\ FlatMap(QuestionOf, <<q>> \o <<a>>) = turn.question \o << >>
        <3>1. \A x, y \in Seq(Messages) :
                 /\ FlatMap(TextOf, x \o y) = FlatMap(TextOf, x) \o FlatMap(TextOf, y)
                 /\ FlatMap(QuestionOf, x \o y) = FlatMap(QuestionOf, x) \o FlatMap(QuestionOf, y)
            BY Loops, FlatMapConcat
        <3> QED BY <1>3, <2>4, <3>1
    <2>6. PICK t : t = <<q>> \o <<a>>
        OBVIOUS
    <2>7. /\ t \in Seq(Said) /\ Len(t) = 1 + 1
          /\ \A i \in 1 .. 1 + 1 : t[i] = IF i <= 1 THEN q ELSE a
        <3>1. Len(<<q>>) = 1 /\ Len(<<a>>) = 1
            OBVIOUS
        <3>2. /\ t \in Seq(Said) /\ Len(t) = Len(<<q>>) + Len(<<a>>)
              /\ \A i \in 1 .. Len(<<q>>) + Len(<<a>>) :
                    t[i] = IF i <= Len(<<q>>) THEN <<q>>[i] ELSE <<a>>[i - Len(<<q>>)]
            BY ONLY <1>3, <2>4, <2>6, ConcatProperties
        <3>3. \A i \in 1 .. 1 + 1 : (i <= 1 => i = 1) /\ (~(i <= 1) => i - 1 = 1)
            OBVIOUS
        <3> QED BY <3>1, <3>2, <3>3
    <2>8. t[1] = q /\ t[2] = a /\ Len(t) = 2
        BY <2>7
    <2>9. TurnMessages(turn) = t
        BY <2>3, <2>6
    <2>10. /\ FlatMap(TextOf, t) = turn.question \o Head(turn.shown)
           /\ FlatMap(QuestionOf, t) = turn.question \o << >>
        BY <2>5, <2>6
    <2> QED BY <1>2, <1>5, <2>2, <2>7, <2>8, <2>9, <2>10
<1> QED BY <1>4, <1>5

\* The messages of the history tell the kept turns, in order.
LEMMA HistoryTells ==
    ASSUME NEW history \in Seq(Turns)
    PROVE  /\ SaidBefore(history) \in Seq(Said)
           /\ FlatMap(TextOf, SaidBefore(history)) = Spoken(history, TRUE)
           /\ FlatMap(QuestionOf, SaidBefore(history)) = Spoken(history, FALSE)
<1> DEFINE pp == [i \in DOMAIN Kept(history) |-> TurnMessages(history[i])]
<1>1. \A i \in DOMAIN Kept(history) :
        /\ pp[i] \in Seq(Said) /\ pp[i] \in Seq(Messages)
        /\ FlatMap(TextOf, pp[i]) = history[i].question
              \o (IF TRUE /\ history[i].shown # Blank THEN Head(history[i].shown) ELSE << >>)
        /\ FlatMap(QuestionOf, pp[i]) = history[i].question
              \o (IF FALSE /\ history[i].shown # Blank THEN Head(history[i].shown) ELSE << >>)
    BY KeptTurns, TurnTells, SaidIsMessages
<1>2. /\ pp \in Seq(Seq(Said)) /\ pp \in Seq(Seq(Messages))
      /\ DOMAIN pp = DOMAIN Kept(history)
    <2>1. /\ pp \in [1 .. Len(Kept(history)) -> Seq(Said)]
          /\ pp \in [1 .. Len(Kept(history)) -> Seq(Messages)]
        BY <1>1, KeptTurns
    <2> QED BY <2>1, KeptTurns, SeqDef
<1>3. SaidBefore(history) = FlattenSeq(pp)
    BY DEF SaidBefore
<1>4. /\ [i \in DOMAIN pp |-> FlatMap(TextOf, pp[i])] =
            [i \in DOMAIN Kept(history) |-> history[i].question
                \o (IF TRUE /\ history[i].shown # Blank THEN Head(history[i].shown) ELSE << >>)]
      /\ [i \in DOMAIN pp |-> FlatMap(QuestionOf, pp[i])] =
            [i \in DOMAIN Kept(history) |-> history[i].question
                \o (IF FALSE /\ history[i].shown # Blank THEN Head(history[i].shown) ELSE << >>)]
    BY <1>1, <1>2
<1> HIDE DEF pp
<1>5. FlattenSeq(pp) \in Seq(Said)
    BY <1>2, FlattenType
<1>6. /\ FlatMap(TextOf, FlattenSeq(pp)) = FlattenSeq([i \in DOMAIN pp |-> FlatMap(TextOf, pp[i])])
      /\ FlatMap(QuestionOf, FlattenSeq(pp)) =
            FlattenSeq([i \in DOMAIN pp |-> FlatMap(QuestionOf, pp[i])])
    BY <1>2, Loops, FlatMapFlatten
<1> QED BY <1>3, <1>4, <1>5, <1>6 DEF Spoken

\* Odd and even numbers.
LEMMA OddAndEven == \A n \in Nat : (2 * n + 1) % 2 = 1 /\ (2 * n + 2) % 2 = 0
<1>1. \A n \in Nat : (2 * n + 1) % 2 = 1
    OBVIOUS
<1>2. \A n \in Nat : (2 * n + 2) % 2 = 0
    OBVIOUS
<1> QED BY <1>1, <1>2

\* If every question was answered, the messages alternate as Llama 2 wants.
LEMMA HistoryAlternates ==
    ASSUME NEW history \in Seq(Turns),
           \A i \in DOMAIN Kept(history) : history[i].shown # Blank,
           NEW question \in Texts
    PROVE  Alternates(SaidBefore(history) \o <<Message("user", question)>>)
<1> DEFINE Pair(s) == /\ s \in Seq(Said) /\ Len(s) = 2
                      /\ s[1].role = "user" /\ s[2].role = "assistant"
           Pairs == {s \in Seq(Said) : Pair(s)}
           Even(s) == Alternates(s) /\ \E n \in Nat : Len(s) = 2 * n
           P == {ss \in Seq(Pairs) : FlattenSeq(ss) \in Seq(Said) /\ Even(FlattenSeq(ss))}
<1>1. << >> \in P
    <2>1. Alternates(<< >>) /\ Len(<< >>) = 2 * 0
        BY DEF Alternates
    <2> QED BY <2>1, FlattenNone, EmptySeq
<1>2. ASSUME NEW ss \in Seq(Pairs), NEW e \in Pairs, ss \in P PROVE Append(ss, e) \in P
    <2>1. Append(ss, e) \in Seq(Pairs) /\ e \in Seq(Said) /\ Pair(e)
        BY AppendProperties
    <2>2. ss \in Seq(Seq(Said))
        <3>1. ss \in [1 .. Len(ss) -> Seq(Said)] /\ Len(ss) \in Nat
            BY LenProperties, ElementOfSeq
        <3> QED BY <3>1, SeqDef
    <2>3. PICK s : s = FlattenSeq(ss)
        OBVIOUS
    <2>4. s \in Seq(Said) /\ Even(s)
        BY <1>2, <2>3
    <2>5. FlattenSeq(Append(ss, e)) = s \o e
        BY <2>1, <2>2, <2>3, FlattenAppend
    <2>6. PICK n \in Nat : Len(s) = 2 * n
        BY <2>4
    <2>7. PICK t : t = s \o e
        OBVIOUS
    <2>8. /\ t \in Seq(Said) /\ Len(t) = 2 * n + 2 /\ DOMAIN t = 1 .. 2 * n + 2
          /\ \A i \in 1 .. 2 * n + 2 : t[i] = IF i <= 2 * n THEN s[i] ELSE e[i - 2 * n]
        <3>1. /\ t \in Seq(Said) /\ Len(t) = Len(s) + Len(e)
              /\ \A i \in 1 .. Len(s) + Len(e) :
                    t[i] = IF i <= Len(s) THEN s[i] ELSE e[i - Len(s)]
            BY ONLY <2>1, <2>4, <2>7, ConcatProperties
        <3> HIDE DEF Even, P, Pairs
        <3> QED BY <2>1, <2>6, <3>1, LenProperties
    <2>9. \A i \in DOMAIN t : t[i].role = IF i % 2 = 1 THEN "user" ELSE "assistant"
        <3> SUFFICES ASSUME NEW i \in 1 .. 2 * n + 2
                     PROVE  t[i].role = IF i % 2 = 1 THEN "user" ELSE "assistant"
            BY <2>8
        <3>1. CASE i <= 2 * n
            <4>1. i \in DOMAIN s
                BY <2>4, <2>6, <3>1, LenProperties
            <4>2. s[i].role = IF i % 2 = 1 THEN "user" ELSE "assistant"
                BY <2>4, <4>1 DEF Alternates
            <4> QED BY <2>8, <3>1, <4>2
        <3>2. CASE i = 2 * n + 1
            <4>1. i % 2 = 1
                BY <3>2, OddAndEven
            <4>2. ~(i <= 2 * n) /\ i - 2 * n = 1
                BY <3>2
            <4> QED BY <2>1, <2>8, <4>1, <4>2
        <3>3. CASE i = 2 * n + 2
            <4>1. i % 2 = 0
                BY <3>3, OddAndEven
            <4>2. ~(i <= 2 * n) /\ i - 2 * n = 2
                BY <3>3
            <4> QED BY <2>1, <2>8, <4>1, <4>2
        <3> QED BY <3>1, <3>2, <3>3
    <2>10. Alternates(t) /\ Len(t) = 2 * (n + 1) /\ n + 1 \in Nat
        BY <2>8, <2>9 DEF Alternates
    <2> QED BY <2>1, <2>5, <2>7, <2>8, <2>10
<1>3. [i \in DOMAIN Kept(history) |-> TurnMessages(history[i])] \in Seq(Pairs)
    <2>1. \A i \in DOMAIN Kept(history) : TurnMessages(history[i]) \in Pairs
        BY KeptTurns, TurnTells
    <2> HIDE DEF Pairs
    <2>2. [i \in DOMAIN Kept(history) |-> TurnMessages(history[i])]
              \in [1 .. Len(Kept(history)) -> Pairs]
        BY <2>1, KeptTurns
    <2> QED BY <2>2, KeptTurns, SeqDef
<1>4. Even(SaidBefore(history))
    <2>1. \A ss \in Seq(Pairs) : ss \in P
        <3> HIDE DEF P, Pairs
        <3> QED BY <1>1, <1>2, InductionOnSequences
    <2> QED BY <1>3, <2>1 DEF SaidBefore
<1> DEFINE q == Message("user", question)
<1>5. q \in Said /\ q.role = "user"
    BY DEF Message, Said
<1> HIDE DEF q
<1>6. PICK s : s \in Seq(Said) /\ s = SaidBefore(history)
    BY HistoryTells
<1>7. PICK n \in Nat : Len(s) = 2 * n
    BY <1>4, <1>6
<1>8. PICK t : t = s \o <<q>>
    OBVIOUS
<1>9. t = Append(s, q)
    BY <1>5, <1>6, <1>8, AppendIsConcat
<1>10. /\ t \in Seq(Said) /\ Len(t) = 2 * n + 1 /\ t[2 * n + 1] = q
       /\ DOMAIN t = 1 .. 2 * n + 1 /\ DOMAIN s = 1 .. 2 * n
       /\ \A i \in 1 .. 2 * n : t[i] = s[i]
    BY <1>5, <1>6, <1>7, <1>9, AppendProperties, LenProperties
<1>11. \A i \in DOMAIN t : t[i].role = IF i % 2 = 1 THEN "user" ELSE "assistant"
    <2> SUFFICES ASSUME NEW i \in 1 .. 2 * n + 1
                 PROVE  t[i].role = IF i % 2 = 1 THEN "user" ELSE "assistant"
        BY <1>10
    <2>1. CASE i \in 1 .. 2 * n
        BY <1>4, <1>6, <1>10, <2>1 DEF Alternates
    <2>2. CASE i = 2 * n + 1
        <3>1. i % 2 = 1
            BY <2>2
        <3> QED BY <1>5, <1>10, <2>2, <3>1
    <2> QED BY <2>1, <2>2
<1> QED BY <1>6, <1>8, <1>11 DEF Alternates, q

-----------------------------------------------------------------------------
(* All together.                                                           *)

\* What the engine sends tells the system prompt, the history and the question,
\* and ends with the question.
LEMMA MessagesTell ==
    ASSUME NEW history \in Seq(Turns), NEW given \in Texts, NEW question \in Texts
    PROVE  LET rest == SaidBefore(history) \o <<Message("user", question)>>
               ms == SystemMessage(given) \o rest
           IN  /\ rest \in Seq(Said) /\ rest # << >>
               /\ Last(rest).role = "user" /\ Last(rest).text = question
               /\ FlatMap(TextOf, rest) = Dialogue(history, question, TRUE)
               /\ ms \in Seq(Messages) /\ ms # << >>
               /\ Last(ms).role = "user" /\ Last(ms).text = question
               /\ FlatMap(TextOf, ms) = given \o Dialogue(history, question, TRUE)
               /\ FlatMap(QuestionOf, ms) = given \o Dialogue(history, question, FALSE)
               /\ Leads(ms) <=> given # NoText
<1> DEFINE q == Message("user", question)
           rest == SaidBefore(history) \o <<q>>
           ms == SystemMessage(given) \o rest
<1>1. /\ q \in Said /\ q \in Messages /\ q.role = "user" /\ q.text = question
      /\ TextOf[q] = question /\ QuestionOf[q] = question
    BY DEF Message, Said, Messages, TextOf, QuestionOf
<1> HIDE DEF q
<1>2. /\ SaidBefore(history) \in Seq(Said) /\ SaidBefore(history) \in Seq(Messages)
      /\ <<q>> \in Seq(Messages) /\ FlatMap(TextOf, <<q>>) = question
      /\ FlatMap(QuestionOf, <<q>>) = question
    <2>1. SaidBefore(history) \in Seq(Said) /\ SaidBefore(history) \in Seq(Messages)
        BY HistoryTells, SaidIsMessages
    <2>2. FlatMap(TextOf, <<q>>) = TextOf[q] /\ FlatMap(QuestionOf, <<q>>) = QuestionOf[q]
        BY <1>1, Loops, FlatMapOne
    <2> QED BY <1>1, <2>1, <2>2
<1>3. rest \in Seq(Said) /\ rest \in Seq(Messages) /\ rest # << >> /\ Last(rest) = q
    BY <1>1, <1>2, EndOfAppend, SaidIsMessages
<1>4. \A x, y \in Seq(Messages) :
        /\ FlatMap(TextOf, x \o y) = FlatMap(TextOf, x) \o FlatMap(TextOf, y)
        /\ FlatMap(QuestionOf, x \o y) = FlatMap(QuestionOf, x) \o FlatMap(QuestionOf, y)
    BY Loops, FlatMapConcat
<1>5. /\ FlatMap(TextOf, rest) = Spoken(history, TRUE) \o question
      /\ FlatMap(QuestionOf, rest) = Spoken(history, FALSE) \o question
    BY <1>2, <1>4, HistoryTells
<1>6. \A answers : Dialogue(history, question, answers) = Spoken(history, answers) \o question
    BY DEF Dialogue, Spoken
<1> HIDE DEF rest
<1>7. /\ SystemMessage(given) \in Seq(Messages)
      /\ FlatMap(TextOf, SystemMessage(given)) = given
      /\ FlatMap(QuestionOf, SystemMessage(given)) = given
    BY SystemMessageTells
<1>8. /\ FlatMap(TextOf, ms) = given \o FlatMap(TextOf, rest)
      /\ FlatMap(QuestionOf, ms) = given \o FlatMap(QuestionOf, rest)
    BY <1>3, <1>4, <1>7
<1>9. Last(ms) = q /\ ms # << >> /\ ms \in Seq(Messages)
    <2>1. Last(ms) = Last(rest) /\ ms # << >>
        BY <1>3, <1>7, LastOfConcat
    <2>2. ms \in Seq(Messages)
        BY <1>3, <1>7, ConcatProperties
    <2> QED BY <1>3, <2>1, <2>2
<1>10. Leads(ms) <=> given # NoText
    <2>1. \A i \in 1 .. Len(rest) : rest[i].role # "system"
        <3>1. \A i \in 1 .. Len(rest) : rest[i] \in Said
            BY <1>3, ElementOfSeq
        <3> QED BY <3>1 DEF Said
    <2>2. CASE given = NoText
        <3>1. ms = rest
            <4>1. SystemMessage(given) = << >> /\ << >> \o rest = rest
                BY <1>3, <2>2, SystemMessageTells, ConcatEmptySeq
            <4> QED BY <4>1
        <3>2. DOMAIN rest = 1 .. Len(rest)
            BY <1>3, LenProperties
        <3> HIDE DEF ms
        <3> QED BY <2>1, <2>2, <3>1, <3>2 DEF Leads
    <2>3. CASE given # NoText
        <3> DEFINE m == Message("system", given)
        <3>1. m \in Messages /\ m.role = "system" /\ SystemMessage(given) = <<m>>
            BY <2>3, SystemMessageTells DEF Message
        <3> HIDE DEF m
        <3>2. ms = <<m>> \o rest
            BY <3>1
        <3>3. Head(ms) = m
            BY <1>3, <3>1, <3>2, ConsTail
        <3> HIDE DEF ms
        <3>4. Len(ms) \in Nat \ {0} /\ DOMAIN ms = 1 .. Len(ms) /\ ms[1] = m
            BY <1>9, <3>3, LenProperties, EmptySeq
        <3> QED BY <2>3, <3>1, <3>4 DEF Leads
    <2> QED BY <2>2, <2>3
<1> QED BY <1>1, <1>3, <1>5, <1>6, <1>8, <1>9, <1>10 DEF ms, rest, q

\* The prompt tells what was said, as far as its style promises, or is refused
\* for a turn without answer.
Tells(history, style, given, question, prompt) ==
    LET lead == IF given = NoText /\ style \in {"llama2", "llama3"}
                THEN DefaultSystem ELSE given
    IN  IF prompt = Raises
        THEN MayRefuse(history, style)
        ELSE /\ \E answers \in AnswersTold(style) :
                    Told(prompt) = lead \o Dialogue(history, question, answers)
             /\ Last(prompt).as # "assistant"

\* Each style tells what the engine sends.
LEMMA StylesTell ==
    ASSUME NEW history \in Seq(Turns), NEW style \in Styles, NEW given \in Texts,
           NEW question \in Texts \ {NoText}
    PROVE  Tells(history, style, given, question,
                 GetPromptStyle(style, SystemMessage(given)
                     \o (SaidBefore(history) \o <<Message("user", question)>>)))
<1> DEFINE rest == SaidBefore(history) \o <<Message("user", question)>>
           ms == SystemMessage(given) \o rest
           prompt == GetPromptStyle(style, ms)
           lead == IF given = NoText /\ style \in {"llama2", "llama3"}
                   THEN DefaultSystem ELSE given
<1>1. /\ rest \in Seq(Said) /\ rest # << >>
      /\ Last(rest).role = "user" /\ Last(rest).text = question
      /\ FlatMap(TextOf, rest) = Dialogue(history, question, TRUE)
      /\ ms \in Seq(Messages) /\ ms # << >>
      /\ Last(ms).role = "user" /\ Last(ms).text = question
      /\ FlatMap(TextOf, ms) = given \o Dialogue(history, question, TRUE)
      /\ FlatMap(QuestionOf, ms) = given \o Dialogue(history, question, FALSE)
      /\ Leads(ms) <=> given # NoText
    BY MessagesTell
<1>2. question # << >>
    BY DEF NoText
<1> DEFINE tells == /\ Told(prompt) = lead \o Dialogue(history, question, style # "chatml")
                    /\ Last(prompt).as # "assistant"
           open == \E i \in DOMAIN Kept(history) : history[i].shown = Blank
<1> SUFFICES IF prompt = Raises THEN style = "llama2" /\ open ELSE tells
    <2>1. (style # "chatml") \in AnswersTold(style)
        BY DEF AnswersTold
    <2>2. PICK p, l : p = prompt /\ l = lead
        OBVIOUS
    <2>3. (IF p = Raises THEN style = "llama2" /\ open
           ELSE /\ Told(p) = l \o Dialogue(history, question, style # "chatml")
                /\ Last(p).as # "assistant")
          => (IF p = Raises THEN MayRefuse(history, style)
              ELSE /\ \E answers \in AnswersTold(style) :
                        Told(p) = l \o Dialogue(history, question, answers)
                   /\ Last(p).as # "assistant")
        BY <2>1 DEF MayRefuse
    <2> QED BY <2>2, <2>3 DEF Tells
<1>3. CASE style # "llama2"
    <2> SUFFICES tells /\ Last(prompt).as # "error"
        BY <1>3, NotRaised
    <2> HIDE DEF ms, rest
    <2>1. CASE style = "default"
        <3>1. prompt = AsTheyAre(ms) /\ lead = given
            BY <2>1 DEF GetPromptStyle
        <3> HIDE DEF prompt, lead
        <3> QED BY <1>1, <2>1, <3>1, AsTheyAreTells
    <2>2. CASE style = "tag"
        <3>1. prompt = Tag(ms) /\ lead = given
            BY <2>2 DEF GetPromptStyle
        <3> HIDE DEF prompt, lead
        <3> QED BY <1>1, <2>2, <3>1, TagTells
    <2>3. CASE style = "mistral"
        <3>1. prompt = Mistral(ms) /\ lead = given
            BY <2>3 DEF GetPromptStyle
        <3> HIDE DEF prompt, lead
        <3> QED BY <1>1, <1>2, <2>3, <3>1, MistralTells
    <2>4. CASE style = "chatml"
        <3>1. prompt = ChatML(ms) /\ lead = given
            BY <2>4 DEF GetPromptStyle
        <3> HIDE DEF prompt, lead
        <3> QED BY <1>1, <2>4, <3>1, ChatMLTells
    <2>5. CASE style = "llama3"
        <3>1. prompt = Llama3(ms)
            BY <2>5 DEF GetPromptStyle
        <3>2. PICK dialogue : dialogue = Dialogue(history, question, TRUE)
            OBVIOUS
        <3>3. dialogue \in Texts
            <4>1. rest \in Seq(Messages)
                BY <1>1, SaidIsMessages
            <4>2. FlatMap(TextOf, rest) \in Seq(Words)
                BY <4>1, Loops, FlatMapIsFlat
            <4> QED BY <1>1, <3>2, <4>2 DEF Texts
        <3>4. given = NoText => given \o dialogue = dialogue
            BY <3>3, ConcatEmptySeq DEF NoText, Texts
        <3>5. lead = IF given = NoText THEN DefaultSystem ELSE given
            BY <2>5
        <3> HIDE DEF prompt, lead
        <3>6. /\ Told(prompt) = IF given # NoText THEN given \o dialogue
                                ELSE DefaultSystem \o (given \o dialogue)
              /\ Last(prompt).as = "cue"
            BY <1>1, <3>1, <3>2, Llama3Tells
        <3> QED BY <2>5, <3>2, <3>4, <3>5, <3>6
    <2> QED BY <1>3, <2>1, <2>2, <2>3, <2>4, <2>5 DEF Styles
<1>4. CASE style = "llama2"
    <2>1. prompt = Llama2(ms) /\ lead = IF given = NoText THEN DefaultSystem ELSE given
        BY <1>4 DEF GetPromptStyle
    <2> HIDE DEF prompt, lead
    <2>2. lead \in Texts
        BY <2>1, DefaultIsText
    <2>3. prompt = Llama2Of(lead, rest)
        <3>1. CASE given = NoText
            <4>1. SystemMessage(given) = << >>
                BY <3>1, SystemMessageTells
            <4> HIDE DEF rest
            <4>2. << >> \o rest = rest
                BY <1>1, ConcatEmptySeq
            <4>3. ms = rest
                BY <4>1, <4>2
            <4> QED BY <1>1, <2>1, <3>1, <4>3, Llama2IsOf
        <3>2. CASE given # NoText
            <4> DEFINE m == Message("system", given)
            <4>1. m \in Messages /\ m.role = "system" /\ m.text = given
                  /\ SystemMessage(given) = <<m>>
                BY <3>2, SystemMessageTells DEF Message
            <4> HIDE DEF m, rest
            <4>2. ms = <<m>> \o rest
                BY <4>1
            <4>3. Llama2(<<m>> \o rest) = Llama2Of(m.text, rest)
                BY <1>1, <4>1, Llama2IsOf
            <4> QED BY <2>1, <3>2, <4>1, <4>2, <4>3
        <3> QED BY <3>1, <3>2
    <2>4. rest \in Seq(Messages)
        BY <1>1, SaidIsMessages
    <2>5. CASE Alternates(rest)
        <3> HIDE DEF rest, ms
        <3>1. Told(prompt) = lead \o FlatMap(TextOf, rest) /\ Last(prompt).as = "user"
            BY <1>1, <2>2, <2>3, <2>4, <2>5, Llama2Tells
        <3>2. prompt # Raises
            BY <3>1, NotRaised
        <3> QED BY <1>1, <1>4, <3>1, <3>2
    <2>6. CASE ~ Alternates(rest)
        <3>1. open
            BY <2>6, HistoryAlternates
        <3> HIDE DEF rest, open
        <3>2. prompt = Raises
            BY <2>3, <2>6 DEF Llama2Of, Alternates
        <3> QED BY <1>4, <3>1, <3>2
    <2> QED BY <2>5, <2>6
<1> QED BY <1>3, <1>4

\* _chat, ChatService.chat, the chat engines, prompt_helper.py: whatever was
\* said before, whatever the system prompt and the context, the model is told all
\* of it in order, and then asked.  Of ChatML this says nothing about the answers
\* of the assistant, and Llama 2 may refuse a history with an unanswered question.
THEOREM EveryHistoryAsks ==
    ASSUME NEW history \in Seq(Turns), NEW style \in Styles,
           NEW system \in Texts, NEW context \in {Blank} \cup Texts
    PROVE  Asks(history, style, system, context)
<1> DEFINE given == Instructions(system, context)
           q == <<"question">>
           rest == SaidBefore(history) \o <<Message("user", q)>>
           ms == EngineMessages(UiMessages(history, q, system), context)
           prompt == GetPromptStyle(style, ms)
<1>1. q \in Texts \ {NoText}
    BY PromptsAssumption DEF Texts, NoText
<1>2. UiMessages(history, q, system)
          = SystemMessage(system) \o SaidBefore(history) \o <<Message("user", q)>>
    BY DEF UiMessages, SaidBefore
<1> HIDE DEF q
<1>3. given \in Texts /\ ms = SystemMessage(given) \o rest
    <2>1. SaidBefore(history) \in Seq(Said)
        BY <1>1, HistoryTells
    <2>2. PICK said : said = SaidBefore(history)
        OBVIOUS
    <2>3. /\ given \in Texts
          /\ EngineMessages(SystemMessage(system) \o said \o <<Message("user", q)>>, context)
                 = SystemMessage(given) \o (said \o <<Message("user", q)>>)
        BY <1>1, <2>1, <2>2, EngineKeeps
    <2> QED BY <1>2, <2>2, <2>3
<1> HIDE DEF given
<1>4. Tells(history, style, given, q, GetPromptStyle(style, SystemMessage(given) \o rest))
    BY <1>1, <1>3, StylesTell
<1>5. Tells(history, style, given, q, prompt)
    BY <1>3, <1>4
<1> HIDE DEF prompt
<1> QED BY <1>5 DEF Asks, Tells, Lead, Instructions, given, prompt, q

\* The same of the conversations, texts and contexts of Answers.
LEMMA EveryStyleTells == \A context \in BOOLEAN : StylesThatAsk[context] = Styles
<1>1. ASSUME NEW context \in BOOLEAN, NEW style \in Styles, NEW history \in Conversations,
             NEW system \in {NoText, <<"system">>}
      PROVE  Asks(history, style, system, IF context THEN <<"context">> ELSE Blank)
    <2>1. {<<"system">>, <<"context">>} \subseteq Texts
        BY PromptsAssumption DEF Texts
    <2> QED BY <2>1, NoTextIsText, PromptsAssumption, EveryHistoryAsks
<1> QED BY <1>1 DEF StylesThatAsk

=============================================================================
