--------------------------- MODULE AnswersProofs ---------------------------
(***************************************************************************)
(* Theorems about Answers, for every set of documents and files, every     *)
(* configuration of the model and every history.                           *)
(*                                                                         *)
(* First come lemmas about the parts that Answers is composed of.  The     *)
(* normalisation of scores keeps their order, and the hybrid search leaves *)
(* no node out for one that is worse in both searches: for every set of    *)
(* nodes and of scores, every weight and every top_k.  The line reader     *)
(* yields what the lines carry, for every response and wherever its pieces *)
(* are cut.                                                                *)
(***************************************************************************)
EXTENDS Answers, PromptsProofs, FiniteSetTheorems

-----------------------------------------------------------------------------
(* Numbers.                                                                *)

\* Natural numbers have a least one.
LEMMA MinIsIn ==
    ASSUME NEW S \in SUBSET Nat, S # {}
    PROVE  Min(S) \in S /\ \A y \in S : Min(S) <= y
BY LeastNumber DEF Min

\* Natural numbers that are bounded have a greatest one.
LEMMA MaxIsIn ==
    ASSUME NEW S \in SUBSET Nat, S # {}, NEW b \in Nat, \A x \in S : x <= b
    PROVE  Max(S) \in S /\ \A y \in S : y <= Max(S)
<1> DEFINE D == {b - x : x \in S}
<1>1. D \in SUBSET Nat /\ D # {}
    <2>1. \A x \in S : b - x \in Nat
        OBVIOUS
    <2> QED BY <2>1
<1>2. Min(D) \in D /\ \A d \in D : Min(D) <= d
    BY <1>1, MinIsIn
<1>3. PICK x \in S : Min(D) = b - x
    BY <1>2
<1>4. \A y \in S : x >= y
    <2> SUFFICES ASSUME NEW y \in S PROVE x >= y
        OBVIOUS
    <2>1. b - y \in D
        OBVIOUS
    <2>2. b - x <= b - y
        BY <1>2, <1>3, <2>1
    <2> QED BY <2>2
<1>5. Max(S) \in S /\ \A y \in S : Max(S) >= y
    BY <1>4 DEF Max
<1> QED BY <1>5

\* Quotient and remainder.
LEMMA QuotientRemainder ==
    ASSUME NEW a \in Int, NEW d \in Nat \ {0}
    PROVE  /\ a \div d \in Int /\ a % d \in 0 .. d - 1
           /\ a = d * (a \div d) + (a % d)
OBVIOUS

\* A product is divided by its factor.
LEMMA ExactQuotient ==
    ASSUME NEW d \in Nat \ {0}, NEW q \in Nat
    PROVE  (d * q) \div d = q
<1>1. PICK p \in Int, r \in 0 .. d - 1 : d * q = d * p + r /\ p = (d * q) \div d
    <2>1. PICK a \in Int : a = d * q
        OBVIOUS
    <2> QED BY <2>1, QuotientRemainder
<1>2. d * (q - p) = r
    BY <1>1
<1>3. ~(q - p >= 1)
    <2> SUFFICES ASSUME q - p >= 1 PROVE FALSE
        OBVIOUS
    <2>1. d * (q - p) >= d
        BY <1>1
    <2> QED BY <1>1, <1>2, <2>1
<1>4. ~(q - p <= -1)
    <2> SUFFICES ASSUME q - p <= -1 PROVE FALSE
        OBVIOUS
    <2>1. d * (q - p) < 0
        BY <1>1
    <2> QED BY <1>1, <1>2, <2>1
<1>5. p = q
    BY <1>1, <1>3, <1>4
<1> QED BY <1>1, <1>5

-----------------------------------------------------------------------------
(* Normalised scores.                                                      *)

\* A range of scores divides the scale, and is no greater.
LEMMA RangeDivides ==
    ASSUME NEW s \in Scores, NEW t \in Scores, s > t
    PROVE  /\ s - t \in Nat \ {0} /\ s - t <= Scale
           /\ \E c \in Nat \ {0} : Scale = (s - t) * c
<1>1. s \in Nat /\ t \in Nat /\ Scale \in Nat \ {0} /\ Scale % (s - t) = 0
    BY RetrievalAssumption
<1>2. PICK d \in Nat \ {0} : d = s - t
    BY <1>1
<1>3. PICK c \in Int : Scale = d * c
    <2>1. Scale \div d \in Int /\ Scale = d * (Scale \div d) + (Scale % d)
        BY <1>1, QuotientRemainder
    <2>2. Scale % d = 0
        BY <1>1, <1>2
    <2>3. Scale = d * (Scale \div d)
        BY <1>1, <2>1, <2>2
    <2> QED BY <2>1, <2>3
<1>4. c \in Nat \ {0}
    <2> SUFFICES ASSUME c <= 0 PROVE FALSE
        BY <1>3
    <2>1. d * c <= 0
        BY <1>3
    <2> QED BY <1>1, <1>3, <2>1
<1>5. d * c >= d
    BY <1>4
<1> QED BY <1>1, <1>2, <1>3, <1>4, <1>5

\* normalize_nodes: scores become numbers from 0 on, in the same order.
LEMMA NormalizeKeepsOrder ==
    ASSUME NEW D, NEW score \in [D -> Scores]
    PROVE  /\ DOMAIN Normalize(score) = D
           /\ \A x \in D : Normalize(score)[x] \in Nat
           /\ \A x, y \in D : score[x] > score[y] => Normalize(score)[x] > Normalize(score)[y]
<1> DEFINE scores == {score[x] : x \in D}
           range == IF Max(scores) > Min(scores) THEN Max(scores) - Min(scores) ELSE 1
<1>1. Normalize(score) = [x \in D |-> (Scale * (score[x] - Min(scores))) \div range]
    BY DEF Normalize
<1>2. CASE D = {}
    BY <1>1, <1>2
<1>3. CASE D # {}
    <2>1. scores \in SUBSET Nat /\ scores \subseteq Scores /\ scores # {}
        BY <1>3, RetrievalAssumption
    <2>2. Scale \in Nat \ {0}
        BY RetrievalAssumption
    <2> HIDE DEF scores
    <2>3. PICK low \in scores : low = Min(scores) /\ \A s \in scores : low <= s
        BY <2>1, MinIsIn
    <2>4. \A s \in scores : s <= low + Scale
        BY <2>1, <2>3, RangeDivides, RetrievalAssumption
    <2>5. PICK high \in scores : high = Max(scores) /\ \A s \in scores : s <= high
        <3>1. low + Scale \in Nat
            BY <2>1, <2>2, <2>3
        <3> QED BY <2>1, <2>4, <3>1, MaxIsIn
    <2>6. PICK d \in Nat \ {0} : d = range /\ d = IF high > low THEN high - low ELSE 1
        BY <2>1, <2>3, <2>5
    <2>7. PICK c \in Nat \ {0} : Scale = d * c
        <3>1. CASE high > low
            BY <2>1, <2>3, <2>5, <2>6, <3>1, RangeDivides
        <3>2. CASE ~(high > low)
            BY <2>2, <2>6, <3>2
        <3> QED BY <3>1, <3>2
    <2>8. /\ low \in Nat
          /\ \A x \in D : score[x] \in Nat /\ low <= score[x]
        <3>1. \A x \in D : score[x] \in scores
            BY DEF scores
        <3> QED BY <2>1, <2>3, <3>1
    <2>9. ASSUME NEW x \in D
          PROVE  /\ score[x] - low \in Nat
                 /\ Normalize(score)[x] = c * (score[x] - low)
        <3>1. PICK a \in Nat : a = score[x] - low
            BY <2>8
        <3>2. Normalize(score)[x] = (Scale * a) \div d
            BY <1>1, <2>3, <2>6, <3>1
        <3>3. Scale * a = d * (c * a) /\ c * a \in Nat
            BY <2>7, <3>1
        <3> QED BY <3>1, <3>2, <3>3, ExactQuotient
    <2>10. ASSUME NEW a \in Nat, NEW b \in Nat, a > b
           PROVE  c * a > c * b
        BY <2>10
    <2>11. ASSUME NEW x \in D, NEW y \in D, score[x] > score[y]
          PROVE  Normalize(score)[x] > Normalize(score)[y]
        <3>1. score[x] - low > score[y] - low
            BY <2>8, <2>11
        <3> QED BY <2>9, <2>10, <3>1
    <2>12. \A a \in Nat : c * a \in Nat
        OBVIOUS
    <2> QED BY <1>1, <2>9, <2>11, <2>12
<1> QED BY <1>2, <1>3

-----------------------------------------------------------------------------
(* The hybrid search.                                                      *)

\* Whoever is among the best has everyone better beside him.
LEMMA BetterIsIn ==
    ASSUME NEW score, NEW k, NEW T \in TopOf(score, k), NEW n \in T,
           NEW m \in DOMAIN score, score[m] \in Nat, score[n] \in Nat, score[m] > score[n]
    PROVE  m \in T
BY DEF TopOf

\* What a list adds to the combined score of a node.
Added(norm, n) == IF n \in DOMAIN norm THEN norm[n] ELSE 0

\* A node that is better adds more, or as little as nothing if it is not read.
LEMMA BetterAddsMore ==
    ASSUME NEW D, NEW score \in [D -> Scores], NEW m, NEW n,
           n \in D => m \in D /\ score[m] > score[n]
    PROVE  /\ Added(Normalize(score), m) \in Nat /\ Added(Normalize(score), n) \in Nat
           /\ Added(Normalize(score), m) >= Added(Normalize(score), n)
           /\ n \in D => Added(Normalize(score), m) > Added(Normalize(score), n)
<1>1. DOMAIN Normalize(score) = D /\ \A x \in D : Normalize(score)[x] \in Nat
    BY NormalizeKeepsOrder
<1>2. CASE n \in D
    BY <1>1, <1>2, NormalizeKeepsOrder DEF Added
<1>3. CASE n \notin D
    BY <1>1, <1>3 DEF Added
<1> QED BY <1>2, <1>3

\* HybridRetriever._retrieve: the lists are cut, normalised each on its own and
\* ordered anew, and still a node that is better in both is not left out.
THEOREM NothingIsLeftOut == LeftOut = {}
<1> SUFFICES ASSUME NEW m \in Nodes, NEW n \in Nodes,
                    NEW vector \in [Nodes -> Scores], NEW bm25 \in [Nodes -> Scores],
                    NEW R \in HybridRetrieve(vector, bm25, TopK), m \notin R, n \in R,
                    vector[m] > vector[n], bm25[m] > bm25[n]
             PROVE  FALSE
    <2>1. ASSUME NEW vector \in [Nodes -> Scores], NEW bm25 \in [Nodes -> Scores],
                 NEW R \in HybridRetrieve(vector, bm25, TopK)
          PROVE  R \subseteq Nodes
        <3>1. PICK V \in VectorRetrieve(vector, 2 * TopK), B \in Bm25Retrieve(bm25, 2 * TopK) :
                  R \in TopOf(CombinedScores(Normalize(Restrict(vector, V)),
                                             Normalize(Restrict(bm25, B))), TopK)
            BY DEF HybridRetrieve
        <3>2. V \subseteq Nodes /\ B \subseteq Nodes
            BY <3>1 DEF VectorRetrieve, Bm25Retrieve, TopOf
        <3>3. DOMAIN Normalize(Restrict(vector, V)) = V /\ DOMAIN Normalize(Restrict(bm25, B)) = B
            BY DEF Normalize, Restrict
        <3> QED BY <3>1, <3>2, <3>3 DEF TopOf, CombinedScores
    <2> QED BY <2>1 DEF LeftOut
<1>1. /\ vector[m] \in Nat /\ vector[n] \in Nat /\ bm25[m] \in Nat /\ bm25[n] \in Nat
      /\ VectorWeight \in Nat \ {0} /\ Bm25Weight \in Nat \ {0}
    BY RetrievalAssumption
<1>2. PICK V \in VectorRetrieve(vector, 2 * TopK), B \in Bm25Retrieve(bm25, 2 * TopK) :
          R \in TopOf(CombinedScores(Normalize(Restrict(vector, V)),
                                     Normalize(Restrict(bm25, B))), TopK)
    BY DEF HybridRetrieve
<1>3. V \subseteq Nodes /\ (n \in V => m \in V)
    BY <1>1, <1>2, BetterIsIn DEF VectorRetrieve, TopOf
<1>4. B \subseteq Nodes /\ (n \in B => m \in B)
    <2>1. PICK T \in TopOf(bm25, 2 * TopK) : B = {x \in T : bm25[x] > 0}
        BY <1>2 DEF Bm25Retrieve
    <2>2. T \subseteq Nodes
        BY <2>1 DEF TopOf
    <2>3. n \in T => m \in T
        BY <1>1, <2>1, BetterIsIn
    <2> QED BY <1>1, <2>1, <2>2, <2>3
<1> DEFINE nv == Normalize(Restrict(vector, V))
           nb == Normalize(Restrict(bm25, B))
           combined == CombinedScores(nv, nb)
<1>5. /\ DOMAIN nv = V /\ DOMAIN nb = B
      /\ Added(nv, m) \in Nat /\ Added(nv, n) \in Nat /\ Added(nv, m) >= Added(nv, n)
      /\ n \in V => Added(nv, m) > Added(nv, n)
      /\ Added(nb, m) \in Nat /\ Added(nb, n) \in Nat /\ Added(nb, m) >= Added(nb, n)
      /\ n \in B => Added(nb, m) > Added(nb, n)
    <2>1. Restrict(vector, V) \in [V -> Scores] /\ Restrict(bm25, B) \in [B -> Scores]
        BY <1>3, <1>4 DEF Restrict
    <2>2. /\ n \in V => m \in V /\ Restrict(vector, V)[m] > Restrict(vector, V)[n]
          /\ n \in B => m \in B /\ Restrict(bm25, B)[m] > Restrict(bm25, B)[n]
        BY <1>3, <1>4 DEF Restrict
    <2> QED BY <2>1, <2>2, BetterAddsMore, NormalizeKeepsOrder
<1>6. /\ DOMAIN combined = V \cup B
      /\ \A x \in V \cup B : combined[x] = VectorWeight * Added(nv, x) + Bm25Weight * Added(nb, x)
    BY <1>5 DEF CombinedScores, Added
<1>7. n \in V \cup B /\ m \in V \cup B
    BY <1>2, <1>3, <1>4, <1>6 DEF TopOf
<1>8. combined[m] > combined[n] /\ combined[m] \in Nat /\ combined[n] \in Nat
    <2> HIDE DEF nv, nb, combined
    <2>1. ASSUME NEW w \in Nat \ {0}, NEW a \in Nat, NEW b \in Nat
          PROVE  /\ w * a \in Nat
                 /\ a >= b => w * a >= w * b
                 /\ a > b => w * a > w * b
        OBVIOUS
    <2>2. PICK vm \in Nat, vn \in Nat, bm \in Nat, bn \in Nat :
              /\ vm = VectorWeight * Added(nv, m) /\ vn = VectorWeight * Added(nv, n)
              /\ bm = Bm25Weight * Added(nb, m) /\ bn = Bm25Weight * Added(nb, n)
              /\ vm >= vn /\ bm >= bn /\ (vm > vn \/ bm > bn)
        BY <1>1, <1>5, <1>7, <2>1
    <2>3. combined[m] = vm + bm /\ combined[n] = vn + bn
        BY <1>6, <1>7, <2>2
    <2> QED BY <2>2, <2>3
<1> QED BY <1>2, <1>6, <1>7, <1>8, BetterIsIn

-----------------------------------------------------------------------------
(* The line reader.                                                        *)

Units == [of : Nat, newline : BOOLEAN]

\* The units read are those of the events up to n, the last newline of event n
\* perhaps not among them, and nothing else has been yielded.
ReadUpTo(n) ==
    /\ read_pos = 3 * n \/ (n > 0 /\ read_pos = 3 * n - 1)
    /\ read_pos <= received
    /\ YieldedUpTo(n)
    /\ reader = "ended" => n = Len(response.tokens)

\* The inductive invariant: the buffer is what has arrived, and is read up to
\* the end of a line.
LineInv ==
    /\ response \in Responses \cup {NoResponse}
    /\ received \in 0 .. Len(Bytes(response))
    /\ buffer \in Seq(Units) /\ Len(buffer) = received
    /\ \A k \in 1 .. received : buffer[k] = Unit(k)
    /\ deltas \in Seq(Nat)
    /\ \E n \in 0 .. Len(response.tokens) : ReadUpTo(n)
    /\ reader = "failed" => received < Len(Bytes(response))

\* Two units of an event end a line.
LEMMA UnitFields ==
    ASSUME NEW n \in Nat
    PROVE  /\ Unit(3 * n).of = 0 /\ Unit(3 * n).newline
           /\ Unit(3 * n + 1).of = n + 1 /\ ~Unit(3 * n + 1).newline
           /\ Unit(3 * n + 2).newline
<1>1. (3 * n) % 3 = 0 /\ (3 * n + 1) % 3 = 1 /\ (3 * n + 2) % 3 = 2
    OBVIOUS
<1>2. ((3 * n + 1) + 2) \div 3 = n + 1
    <2>1. (3 * n + 1) + 2 = 3 * (n + 1)
        OBVIOUS
    <2> QED BY <2>1, ExactQuotient
<1>3. Unit(3 * n).of = 0 /\ Unit(3 * n).newline
    <2>1. PICK k \in Nat : k = 3 * n
        OBVIOUS
    <2>2. k % 3 = 0 /\ k % 3 # 1
        BY <1>1, <2>1
    <2>3. Unit(k).of = 0 /\ Unit(k).newline
        BY <2>2, Zenon DEF Unit
    <2> QED BY <2>1, <2>3
<1>4. Unit(3 * n + 1).of = n + 1 /\ ~Unit(3 * n + 1).newline
    <2>1. PICK k \in Nat : k = 3 * n + 1
        OBVIOUS
    <2>2. k % 3 = 1 /\ (k + 2) \div 3 = n + 1
        BY <1>1, <1>2, <2>1
    <2>3. Unit(k).of = n + 1 /\ ~Unit(k).newline
        <3>1. k % 3 # 0
            BY <2>2
        <3> QED BY <2>2, <3>1, Zenon DEF Unit
    <2> QED BY <2>1, <2>3
<1>5. Unit(3 * n + 2).newline
    <2>1. PICK k \in Nat : k = 3 * n + 2
        OBVIOUS
    <2>2. k % 3 # 1
        BY <1>1, <2>1
    <2>3. Unit(k).newline
        BY <2>2, Zenon DEF Unit
    <2> QED BY <2>1, <2>3
<1> QED BY <1>3, <1>4, <1>5

\* Units are well typed.
LEMMA UnitType == ASSUME NEW k \in Nat PROVE Unit(k) \in Units
<1>1. (k + 2) \div 3 \in Nat
    OBVIOUS
<1> QED BY <1>1 DEF Unit, Units

\* What the endpoint sends.
LEMMA BytesType ==
    ASSUME NEW r \in Responses \cup {NoResponse}
    PROVE  /\ r.tokens \in Seq({"text", "special", "stop"}) /\ Len(r.tokens) \in Nat
           /\ Bytes(r) \in Seq(Units) /\ Len(Bytes(r)) \in Nat
           /\ \A k \in 1 .. Len(Bytes(r)) : Bytes(r)[k] = Unit(k)
           /\ \A n \in 0 .. Len(r.tokens) :
                 (Len(Bytes(r)) = 3 * n \/ Len(Bytes(r)) = 3 * n - 1) => n = Len(r.tokens)
           /\ Len(Bytes(r)) <= 3 * Len(r.tokens)
           /\ r.whole => Len(Bytes(r)) = 3 * Len(r.tokens)
<1>1. r.tokens \in Seq({"text", "special", "stop"})
    <2>1. CASE r = NoResponse
        <3>1. r.tokens = << >>
            BY <2>1 DEF NoResponse
        <3> QED BY <3>1
    <2> QED BY <2>1, LineAssumption
<1>2. PICK N \in Nat : N = Len(r.tokens)
    BY <1>1
<1>3. PICK L \in Nat : /\ L = (IF r.whole THEN 3 * N ELSE IF N = 0 THEN 0 ELSE 3 * N - 2)
                       /\ 1 .. 3 * N - (IF r.whole THEN 0 ELSE 2) = 1 .. L
    <2>1. CASE r.whole
        BY <2>1
    <2>2. CASE ~r.whole /\ N = 0
        <3>1. 1 .. 3 * N - 2 = 1 .. 0
            BY <2>2
        <3> QED BY <2>2, <3>1
    <2>3. CASE ~r.whole /\ N > 0
        BY <2>3
    <2> QED BY <2>1, <2>2, <2>3
<1>4. Bytes(r) = [k \in 1 .. L |-> Unit(k)]
    BY <1>2, <1>3 DEF Bytes
<1>5. Bytes(r) \in Seq(Units) /\ Len(Bytes(r)) = L
    BY <1>4, UnitType
<1> QED BY <1>1, <1>2, <1>3, <1>4, <1>5

\* LineIterator.__next__: the line behind the last event read is the data of
\* the next event, and behind data it is the empty line.
LEMMA NextLineIs ==
    ASSUME LineInv, HasLine, NEW n \in 0 .. Len(response.tokens), ReadUpTo(n)
    PROVE  LET line == ReadLine(read_pos)
           IN  \/ /\ read_pos = 3 * n /\ n < Len(response.tokens)
                  /\ Len(line) = 2 /\ Head(line).of = n + 1 /\ read_pos + 2 <= received
               \/ /\ read_pos = 3 * n - 1
                  /\ Len(line) = 1 /\ Head(line).of = 0 /\ read_pos + 1 <= received
<1> DEFINE NL == {j \in read_pos + 1 .. Len(buffer) : buffer[j].newline}
           e == LineEnds(read_pos)
           line == ReadLine(read_pos)
<1>1. /\ n \in Nat /\ read_pos \in Nat /\ received \in Nat
      /\ Len(buffer) = received /\ buffer \in Seq(Units)
      /\ \A k \in 1 .. received : buffer[k] = Unit(k)
    BY BytesType DEF LineInv, ReadUpTo
<1>2. NL \in SUBSET Nat /\ e = IF NL = {} THEN received ELSE Min(NL)
    BY <1>1 DEF LineEnds
<1>3. e \in Nat /\ e <= received /\ (NL # {} => e \in NL /\ \A j \in NL : e <= j)
    <2>1. ASSUME NL # {} PROVE e \in NL /\ \A j \in NL : e <= j
        BY <1>2, <2>1, MinIsIn
    <2>2. \A j \in NL : j \in Nat /\ j <= received
        BY <1>1
    <2> QED BY <1>1, <1>2, <2>1, <2>2
<1>4. line = SubSeq(buffer, read_pos + 1, e) /\ line # << >> /\ line[Len(line)].newline
    BY DEF HasLine, Last, ReadLine
<1>5. /\ read_pos < e /\ Len(line) = e - read_pos
      /\ \A k \in 1 .. e - read_pos : line[k] = buffer[read_pos + k]
    BY <1>1, <1>3, <1>4
<1>6. e \in NL
    <2>1. line[Len(line)] = buffer[e]
        BY <1>1, <1>3, <1>5
    <2> QED BY <1>1, <1>3, <1>4, <1>5, <2>1
<1>7. e \in read_pos + 1 .. received /\ Unit(e).newline
      /\ \A j \in read_pos + 1 .. received : Unit(j).newline => e <= j
    BY <1>1, <1>3, <1>6
<1>8. Head(line) = Unit(read_pos + 1)
    BY <1>1, <1>5, <1>7
<1>9. CASE read_pos = 3 * n
    <2>1. e # 3 * n + 1
        BY <1>1, <1>7, UnitFields
    <2>2. 3 * n + 2 \in read_pos + 1 .. received
        BY <1>1, <1>7, <1>9, <2>1
    <2>3. e = 3 * n + 2
        <3>1. e <= 3 * n + 2
            BY <1>1, <1>7, <2>2, UnitFields
        <3> QED BY <1>1, <1>7, <1>9, <2>1, <3>1
    <2>4. Head(line).of = n + 1
        BY <1>1, <1>8, <1>9, UnitFields
    <2>5. n < Len(response.tokens)
        BY <1>1, <2>2, BytesType DEF LineInv
    <2> QED BY <1>1, <1>5, <1>7, <1>9, <2>3, <2>4, <2>5
<1>10. CASE n > 0 /\ read_pos = 3 * n - 1
    <2>1. read_pos + 1 = 3 * n /\ 3 * n \in read_pos + 1 .. received
        BY <1>1, <1>7, <1>10
    <2>2. e = 3 * n
        <3>1. e <= 3 * n
            BY <1>1, <1>7, <2>1, UnitFields
        <3> QED BY <1>1, <1>7, <2>1, <3>1
    <2>3. Head(line).of = 0
        BY <1>1, <1>8, <2>1, UnitFields
    <2> QED BY <1>1, <1>5, <1>7, <1>10, <2>1, <2>2, <2>3
<1> QED BY <1>9, <1>10 DEF ReadUpTo

\* The token of the next event is yielded if it is visible.
LEMMA YieldNext ==
    ASSUME deltas \in Seq(Nat), NEW n \in Nat, YieldedUpTo(n), response' = response,
           deltas' = IF response.tokens[n + 1] = "text" THEN deltas \o <<n + 1>> ELSE deltas
    PROVE  YieldedUpTo(n + 1)' /\ deltas' \in Seq(Nat)
<1>1. CASE response.tokens[n + 1] = "text"
    <2>1. PICK l \in Nat : l = Len(deltas) /\ DOMAIN deltas = 1 .. l
        OBVIOUS
    <2>2. /\ deltas' \in Seq(Nat) /\ DOMAIN deltas' = 1 .. l + 1
          /\ deltas'[l + 1] = n + 1
          /\ \A j \in 1 .. l : deltas'[j] = deltas[j]
        BY <1>1, <2>1
    <2>3. \A j \in 1 .. l : deltas[j] \in 1 .. n
        BY <2>1 DEF YieldedUpTo
    <2>4. \A i, j \in 1 .. l + 1 : i < j => deltas'[i] < deltas'[j]
        <3> SUFFICES ASSUME NEW i \in 1 .. l + 1, NEW j \in 1 .. l + 1, i < j
                     PROVE  deltas'[i] < deltas'[j]
            OBVIOUS
        <3>1. i \in 1 .. l /\ deltas'[i] = deltas[i] /\ deltas[i] \in 1 .. n
            BY <2>1, <2>2, <2>3
        <3>2. CASE j = l + 1
            BY <2>2, <3>1, <3>2
        <3>3. CASE j # l + 1
            <4>1. j \in 1 .. l
                BY <2>1, <3>3
            <4> QED BY <2>1, <2>2, <3>1, <4>1 DEF YieldedUpTo
        <3> QED BY <3>2, <3>3
    <2>5. {deltas'[j] : j \in 1 .. l + 1} = {deltas[j] : j \in 1 .. l} \cup {n + 1}
        BY <2>1, <2>2
    <2>6. {i \in 1 .. n + 1 : response.tokens[i] = "text"}
              = {i \in 1 .. n : response.tokens[i] = "text"} \cup {n + 1}
        BY <1>1
    <2> QED BY <2>1, <2>2, <2>4, <2>5, <2>6 DEF YieldedUpTo
<1>2. CASE response.tokens[n + 1] # "text"
    <2>1. {i \in 1 .. n + 1 : response.tokens[i] = "text"}
              = {i \in 1 .. n : response.tokens[i] = "text"}
        BY <1>2
    <2> QED BY <1>2, <2>1 DEF YieldedUpTo
<1> QED BY <1>1, <1>2

\* Reading a line keeps the invariant.
LEMMA NextLineStep ==
    ASSUME LineInv, NextLine
    PROVE  LineInv'
<1>1. PICK n \in 0 .. Len(response.tokens) : ReadUpTo(n)
    BY DEF LineInv
<1>2. PICK line : /\ line = ReadLine(read_pos) /\ read_pos' = read_pos + Len(line)
                  /\ IF Head(line).of = 0 \/ IsJson(line)
                     THEN deltas' = deltas \o Parsed(line) /\ UNCHANGED reader
                     ELSE reader' = "failed" /\ UNCHANGED deltas
    BY DEF NextLine
<1>3. /\ HasLine /\ reader = "reading" /\ UNCHANGED <<response, received, buffer>>
      /\ Len(response.tokens) \in Nat /\ n \in Nat /\ deltas \in Seq(Nat)
      /\ received \in Nat
    BY BytesType DEF LineInv, NextLine
<1>4. CASE /\ read_pos = 3 * n /\ n < Len(response.tokens)
           /\ Len(line) = 2 /\ Head(line).of = n + 1 /\ read_pos + 2 <= received
    <2>1. /\ UNCHANGED reader
          /\ deltas' = IF response.tokens[n + 1] = "text" THEN deltas \o <<n + 1>> ELSE deltas
        <3>1. Parsed(line) = IF response.tokens[n + 1] = "text" THEN <<n + 1>> ELSE << >>
            BY <1>3, <1>4 DEF Parsed
        <3>2. deltas \o << >> = deltas
            BY <1>3
        <3>3. deltas' = deltas \o Parsed(line) /\ UNCHANGED reader
            BY <1>2, <1>4 DEF IsJson
        <3> QED BY <3>1, <3>2, <3>3
    <2>2. YieldedUpTo(n + 1)' /\ deltas' \in Seq(Nat)
        BY <1>1, <1>3, <2>1, YieldNext DEF ReadUpTo
    <2>3. ReadUpTo(n + 1)'
        <3>1. read_pos' = 3 * (n + 1) - 1 /\ read_pos' <= received'
            <4>1. read_pos' = read_pos + 2
                BY <1>2, <1>4
            <4>2. received' = received
                BY <1>3
            <4> QED BY <1>3, <1>4, <4>1, <4>2
        <3>2. n + 1 > 0 /\ reader' = "reading"
            BY <1>3, <2>1
        <3> QED BY <2>2, <3>1, <3>2 DEF ReadUpTo
    <2>4. n + 1 \in 0 .. Len(response.tokens)
        BY <1>3, <1>4
    <2> QED BY <1>3, <2>1, <2>2, <2>3, <2>4 DEF LineInv
<1>5. CASE /\ read_pos = 3 * n - 1
           /\ Len(line) = 1 /\ Head(line).of = 0 /\ read_pos + 1 <= received
    <2>1. UNCHANGED <<reader, deltas>>
        <3>1. Parsed(line) = << >>
            BY <1>5 DEF Parsed
        <3>2. deltas \o << >> = deltas
            BY <1>3
        <3> QED BY <1>2, <1>5, <3>1, <3>2
    <2>2. YieldedUpTo(n)'
        BY <1>1, <1>3, <2>1 DEF ReadUpTo, YieldedUpTo
    <2>3. ReadUpTo(n)'
        <3>1. read_pos' = 3 * n /\ read_pos' <= received'
            <4>1. read_pos' = read_pos + 1
                BY <1>2, <1>5
            <4>2. received' = received
                BY <1>3
            <4> QED BY <1>3, <1>5, <4>1, <4>2
        <3>2. reader' = "reading"
            BY <1>3, <2>1
        <3> QED BY <2>2, <3>1, <3>2 DEF ReadUpTo
    <2> QED BY <1>3, <2>1, <2>3 DEF LineInv
<1> QED BY <1>1, <1>2, <1>3, <1>4, <1>5, NextLineIs

\* So does the arrival of a piece, wherever it is cut.
LEMMA ReceivePieceStep ==
    ASSUME LineInv, ReceivePiece
    PROVE  LineInv'
<1>1. PICK m \in received + 1 .. Len(Bytes(response)) :
          /\ received' = m
          /\ buffer' = buffer \o SubSeq(Bytes(response), received + 1, m)
    BY DEF ReceivePiece
<1>2. /\ UNCHANGED <<response, read_pos, deltas, reader>> /\ reader = "reading"
      /\ received \in Nat /\ buffer \in Seq(Units) /\ Len(buffer) = received
      /\ Bytes(response) \in Seq(Units) /\ Len(Bytes(response)) \in Nat
      /\ \A k \in 1 .. Len(Bytes(response)) : Bytes(response)[k] = Unit(k)
      /\ \A k \in 1 .. received : buffer[k] = Unit(k)
    BY BytesType DEF LineInv, ReceivePiece
<1>3. PICK piece \in Seq(Units) :
          /\ piece = SubSeq(Bytes(response), received + 1, m)
          /\ Len(piece) = m - received
          /\ \A k \in 1 .. m - received : piece[k] = Unit(received + k)
    <2>1. PICK b \in Seq(Units) : b = Bytes(response)
        BY <1>2
    <2>2. PICK p : p = SubSeq(b, received + 1, m)
        OBVIOUS
    <2>3. m \in Nat /\ m <= Len(b) /\ received + 1 <= m
        BY <1>1, <1>2, <2>1
    <2>4. p \in Seq(Units) /\ Len(p) = m - received
        BY <1>2, <2>2, <2>3
    <2>5. \A k \in 1 .. m - received : p[k] = b[received + k]
        BY <1>2, <2>2, <2>3
    <2>6. \A k \in 1 .. m - received : received + k \in 1 .. Len(b)
        BY <1>2, <2>3
    <2> QED BY <1>2, <2>1, <2>2, <2>4, <2>5, <2>6
<1>4. buffer' \in Seq(Units) /\ Len(buffer') = received'
    <2>1. buffer' = buffer \o piece
        BY <1>1, <1>3
    <2>2. buffer' \in Seq(Units) /\ Len(buffer') = Len(buffer) + Len(piece)
        BY <1>2, <2>1, ConcatProperties
    <2>3. m \in Nat /\ received + (m - received) = m
        BY <1>2
    <2> QED BY <1>1, <1>2, <1>3, <2>2, <2>3
<1>5. ASSUME NEW k \in 1 .. received' PROVE buffer'[k] = Unit(k)
    <2>1. CASE k <= received
        BY <1>1, <1>2, <1>3, <2>1
    <2>2. CASE k > received
        <3>1. buffer'[k] = piece[k - received]
            BY <1>1, <1>2, <1>3, <2>2
        <3> QED BY <1>1, <1>2, <1>3, <2>2, <3>1
    <2> QED BY <1>1, <1>2, <2>1, <2>2
<1>6. \E n \in 0 .. Len(response.tokens) : ReadUpTo(n)'
    <2>1. PICK n \in 0 .. Len(response.tokens) : ReadUpTo(n)
        BY DEF LineInv
    <2>2. YieldedUpTo(n)'
        BY <1>2, <2>1 DEF ReadUpTo, YieldedUpTo
    <2>3. n \in Nat /\ read_pos \in Nat /\ read_pos <= received'
        BY <1>1, <1>2, <2>1, BytesType DEF LineInv, ReadUpTo
    <2> QED BY <1>2, <2>1, <2>2, <2>3 DEF ReadUpTo
<1> QED BY <1>1, <1>2, <1>4, <1>5, <1>6 DEF LineInv

\* The reader is off, or begins.
LEMMA LineBegins ==
    ASSUME response' \in Responses \cup {NoResponse}, received' = 0, buffer' = << >>,
           read_pos' = 0, deltas' = << >>, reader' \in {"off", "reading"}
    PROVE  LineInv'
<1>1. Len(response'.tokens) \in Nat /\ Len(Bytes(response')) \in Nat
    BY BytesType
<1>2. YieldedUpTo(0)'
    BY DEF YieldedUpTo
<1>3. ReadUpTo(0)'
    BY <1>2 DEF ReadUpTo
<1> QED BY <1>1, <1>3 DEF LineInv

\* All that the line reader does.
LineStep ==
    \/ Reading \/ StreamFails \/ StreamOff \/ UNCHANGED lineVars
    \/ \E r \in Responses : StreamComplete(r)

\* Every step of the reader keeps it.
LEMMA LineInvStep ==
    ASSUME LineInv, LineStep
    PROVE  LineInv'
<1>1. CASE EndOfStream
    <2>1. PICK n \in 0 .. Len(response.tokens) : ReadUpTo(n)
        BY DEF LineInv
    <2>2. n = Len(response.tokens)
        BY <1>1, <2>1, BytesType DEF EndOfStream, ReadUpTo, LineInv
    <2>3. ReadUpTo(n)'
        BY <1>1, <2>1, <2>2 DEF EndOfStream, ReadUpTo, YieldedUpTo
    <2> QED BY <1>1, <2>3 DEF EndOfStream, LineInv
<1>2. CASE StreamFails
    <2>1. \E n \in 0 .. Len(response.tokens) : ReadUpTo(n)'
        BY <1>2 DEF StreamFails, LineInv, ReadUpTo, YieldedUpTo
    <2> QED BY <1>2, <2>1 DEF StreamFails, LineInv
<1>3. CASE UNCHANGED lineVars
    BY <1>3 DEF lineVars, LineInv, ReadUpTo, YieldedUpTo
<1>4. CASE StreamOff \/ \E r \in Responses : StreamComplete(r)
    BY <1>4, LineBegins DEF StreamOff, StreamComplete
<1> QED BY <1>1, <1>2, <1>3, <1>4, NextLineStep, ReceivePieceStep DEF LineStep, Reading

\* It holds before the first response.
LEMMA LineInvInit == LineInit => LineInv
<1> SUFFICES ASSUME LineInit PROVE LineInv
    OBVIOUS
<1>1. Len(response.tokens) \in Nat /\ Len(Bytes(response)) \in Nat /\ response = NoResponse
    BY BytesType DEF LineInit
<1>2. ReadUpTo(0)
    BY DEF LineInit, ReadUpTo, YieldedUpTo
<1> QED BY <1>1, <1>2 DEF LineInit, LineInv

\* A whole response ends with a newline: when all of it has arrived and is not
\* all read, there is a line to read.
LEMMA WholeHasLine ==
    ASSUME LineInv, response.whole, received = Len(Bytes(response)), read_pos # Len(buffer)
    PROVE  HasLine
<1> DEFINE NL == {j \in read_pos + 1 .. Len(buffer) : buffer[j].newline}
           e == LineEnds(read_pos)
           line == ReadLine(read_pos)
<1>1. PICK N \in Nat : N = Len(response.tokens) /\ received = 3 * N
    BY BytesType DEF LineInv
<1>2. /\ read_pos \in Nat /\ read_pos < received
      /\ Len(buffer) = received /\ buffer \in Seq(Units)
      /\ \A k \in 1 .. received : buffer[k] = Unit(k)
    BY <1>1 DEF LineInv, ReadUpTo
<1>3. received \in NL
    BY <1>1, <1>2, UnitFields
<1>4. e \in NL
    <2>1. NL \in SUBSET Nat /\ e = Min(NL)
        BY <1>2, <1>3 DEF LineEnds
    <2> QED BY <1>3, <2>1, MinIsIn
<1>5. line = SubSeq(buffer, read_pos + 1, e)
    BY DEF ReadLine
<1>6. Len(line) = e - read_pos /\ line[e - read_pos] = buffer[e] /\ e - read_pos > 0
    BY <1>2, <1>4, <1>5
<1>7. line # << >> /\ line[Len(line)].newline
    BY <1>4, <1>6
<1> QED BY <1>7 DEF HasLine, Last

\* What it says of the deltas and of the loop.
LEMMA DeltasOfLines == LineInv => DeltasAddUp
BY WholeHasLine DEF LineInv, ReadUpTo, DeltasAddUp

-----------------------------------------------------------------------------
(* Requests and the documents they meet.                                   *)

\* ChatOK, as the provers take it: the fields a request has, and the values of
\* each.
ChatRecord ==
    chat = [kind |-> chat.kind, stage |-> chat.stage, context |-> chat.context,
            messages |-> chat.messages, filter |-> chat.filter, todo |-> chat.todo,
            sources |-> chat.sources, gone |-> chat.gone]

ChatFields ==
    /\ chat.kind \in Modes \cup {"none", "stream", "chat", "chunks"}
    /\ chat.stage \in Stages /\ chat.context \in BOOLEAN
    /\ chat.filter = NoFilter \/ chat.filter \subseteq Given
    /\ chat.todo \subseteq Given /\ chat.sources \subseteq Given /\ chat.gone \subseteq Given

\* What was deleted before the request is not indexed again under its id.
GoneForGood == chat.gone \cap present = {}

\* While the filter of the UI is built it is a list of documents, and there is
\* a document to look at.
Filtering == chat.stage = "filter" => chat.todo # {} /\ chat.filter \subseteq Given

\* Sources are within the filter, whoever asks.
SourcesFiltered ==
    Settled /\ chat.filter \notin {NoFilter, {}} => chat.sources \subseteq chat.filter

\* An upload deletes every document of its names, and has ids for its files.
Replacing ==
    upload.stage = "delete" =>
        /\ nextDoc - 1 + Cardinality(upload.files) \in Docs
        /\ \A d \in present : name[d] \in upload.files => d \in upload.todo

ChatInv ==
    /\ ChatRecord /\ ChatFields
    /\ GoneForGood /\ Filtering /\ SourcesFiltered /\ AnswersAreCurrent

JobInv == IndexOK /\ JobsOK /\ Replacing /\ NamesAreReplaced

\* The inductive invariant.
AnswersInv == ChatInv /\ JobInv /\ ReaderOK

\* The two forms of the type of a request.
LEMMA ChatOKEquivalent == ChatOK <=> ChatRecord /\ ChatFields
<1>1. ChatOK => ChatRecord
    BY DEF ChatOK, ChatRecord
<1>2. ChatOK => ChatFields
    BY DEF ChatOK, ChatFields
<1>3. ChatRecord /\ ChatFields => ChatOK
    BY DEF ChatOK, ChatRecord, ChatFields
<1> QED BY <1>1, <1>2, <1>3

\* What a step leaves of the invariant if it leaves the request alone, and only
\* takes documents away.
LEMMA ChatFrame ==
    ASSUME ChatInv, UNCHANGED <<chat, nextDoc>>, present' \subseteq present
    PROVE  ChatInv'
<1> USE DEF ChatInv, Given
<1>1. ChatRecord' /\ ChatFields'
    BY DEF ChatRecord, ChatFields
<1>2. (GoneForGood /\ Filtering)'
    BY DEF GoneForGood, Filtering
<1>3. (SourcesFiltered /\ AnswersAreCurrent)'
    BY DEF SourcesFiltered, AnswersAreCurrent, Settled
<1> QED BY <1>1, <1>2, <1>3

\* What it leaves if it leaves the index and the jobs alone.
LEMMA JobFrame ==
    ASSUME JobInv, UNCHANGED <<indexVars, fixed, upload, deletion>>,
           selected' \in Files \cup {NoFile}
    PROVE  JobInv'
<1> USE DEF JobInv, Given, indexVars, fixed
<1>1. IndexOK'
    BY DEF IndexOK
<1>2. JobsOK'
    BY DEF JobsOK
<1>3. Replacing' /\ NamesAreReplaced'
    BY DEF Replacing, NamesAreReplaced
<1> QED BY <1>1, <1>2, <1>3

\* A request that is over satisfies its part.
LEMMA ChatOver ==
    ASSUME chat' \in {NoChat, Failed, Streaming, [NoChat EXCEPT !.stage = "done"]}
    PROVE  ChatInv'
<1>1. PICK stage \in {"idle", "failed", "stream", "done"} :
        chat' = [kind |-> "none", stage |-> stage, context |-> FALSE,
                 messages |-> << >>, filter |-> NoFilter, todo |-> {},
                 sources |-> {}, gone |-> {}]
    BY DEF NoChat, Failed, Streaming
<1>2. ChatRecord' /\ ChatFields'
    BY <1>1 DEF ChatRecord, ChatFields, Modes, Stages
<1>3. (GoneForGood /\ Filtering)'
    BY <1>1 DEF GoneForGood, Filtering, Modes
<1>4. (SourcesFiltered /\ AnswersAreCurrent)'
    BY <1>1 DEF SourcesFiltered, AnswersAreCurrent, Settled
<1> QED BY <1>2, <1>3, <1>4 DEF ChatInv

\* It holds when the application starts.
LEMMA AnswersInvInit == Init => AnswersInv
<1> SUFFICES ASSUME Init PROVE AnswersInv
    OBVIOUS
<1> USE AnswersAssumption
    DEF Init, NoChat, NoJob, InitializeBm25, LineInit,
        AnswersInv, ChatInv, JobInv, IndexOK, JobsOK, ReaderOK, ChatRecord, ChatFields,
        GoneForGood, Filtering, SourcesFiltered, AnswersAreCurrent,
        Replacing, NamesAreReplaced, Settled, Given, indexVars, fixed, lineVars, Stages, Modes
<1>1. Cardinality(Docs) \in Nat /\ Given = {1} /\ 1 \in Docs
    BY FS_CardinalityType
<1>2. IndexOK
    BY <1>1
<1>3. ChatInv
    BY <1>1
<1>4. JobsOK /\ Replacing /\ NamesAreReplaced /\ ReaderOK
    BY <1>1
<1> QED BY <1>2, <1>3, <1>4

\* A selection changes nothing else.
LEMMA SelectionStep ==
    ASSUME AnswersInv
    PROVE  SelectedAFile \/ DeselectSelectedFile
           => AnswersInv'
<1> SUFFICES ASSUME SelectedAFile \/ DeselectSelectedFile
             PROVE  AnswersInv'
    OBVIOUS
<1>1. UNCHANGED <<indexVars, fixed, chat, upload, deletion, lineVars>>
    BY DEF SelectedAFile, DeselectSelectedFile
<1>2. selected' \in Files \cup {NoFile}
    BY DEF SelectedAFile, DeselectSelectedFile, AnswersInv, JobInv, IndexOK, Given
<1>3. ChatInv'
    BY <1>1, ChatFrame DEF AnswersInv, indexVars
<1>4. JobInv'
    BY <1>1, <1>2, JobFrame DEF AnswersInv
<1>5. ReaderOK'
    BY <1>1 DEF AnswersInv, ReaderOK, fixed, lineVars
<1> QED BY <1>3, <1>4, <1>5 DEF AnswersInv

\* What a request of the UI starts with, whatever it asks.
LEMMA ChatBegins ==
    ASSUME Chat
    PROVE  \E mode \in Modes : \E ms :
        chat' = [NoChat EXCEPT !.kind = mode, !.stage = FirstStage(mode),
                               !.context = (mode = "RAG"), !.messages = ms, !.gone = Gone]
BY DEF Chat

\* A request begins without sources, and knows what is gone.
LEMMA RequestBegins ==
    ASSUME AnswersInv
    PROVE  Chat \/ ChatCompletion \/ Summarize \/ ChunksRetrieval
           => AnswersInv'
<1> USE AnswersAssumption
    DEF AnswersInv, ChatInv, JobInv, IndexOK, JobsOK, ReaderOK, ChatRecord, ChatFields,
        GoneForGood, Filtering, SourcesFiltered, AnswersAreCurrent,
        Replacing, NamesAreReplaced, Settled, Given, indexVars, fixed, lineVars, Stages, Modes
<1>1. ASSUME Chat PROVE AnswersInv'
    <2>1. PICK mode \in Modes : \E ms :
            chat' = [NoChat EXCEPT !.kind = mode, !.stage = FirstStage(mode),
                                   !.context = (mode = "RAG"), !.messages = ms, !.gone = Gone]
        BY <1>1, ChatBegins
    <2>2. PICK ms :
            chat' = [NoChat EXCEPT !.kind = mode, !.stage = FirstStage(mode),
                                   !.context = (mode = "RAG"), !.messages = ms, !.gone = Gone]
        BY <2>1
    <2>3. FirstStage(mode) \in {"select", "retrieve", "prompt"}
        BY <2>1 DEF FirstStage
    <2>4. UNCHANGED <<indexVars, fixed, selected, upload, deletion, lineVars>>
          /\ chat.stage = "idle"
        BY <1>1 DEF Chat
    <2>5. chat' = [kind |-> mode, stage |-> FirstStage(mode), context |-> (mode = "RAG"),
                   messages |-> ms, filter |-> NoFilter, todo |-> {},
                   sources |-> {}, gone |-> Gone]
        BY <2>2 DEF NoChat
    <2>6. ChatRecord' /\ ChatFields'
        BY <2>3, <2>4, <2>5 DEF Gone
    <2>7. (GoneForGood /\ Filtering)'
        BY <2>3, <2>4, <2>5 DEF Gone
    <2>8. (SourcesFiltered /\ AnswersAreCurrent)'
        BY <2>5
    <2>9. JobInv' /\ ReaderOK'
        BY <2>3, <2>4, <2>5
    <2> QED BY <2>6, <2>7, <2>8, <2>9
<1>2. ASSUME ChatCompletion PROVE AnswersInv'
    <2>1. ChatRecord'
        BY <1>2 DEF ChatCompletion, NoChat, Gone, ContextFilters
    <2>2. ChatFields'
        BY <1>2 DEF ChatCompletion, NoChat, Gone, ContextFilters
    <2>3. (GoneForGood /\ Filtering)'
        BY <1>2 DEF ChatCompletion, NoChat, Gone, ContextFilters
    <2>4. (SourcesFiltered /\ AnswersAreCurrent)'
        BY <1>2 DEF ChatCompletion, NoChat, Gone, ContextFilters
    <2>5. JobInv' /\ ReaderOK'
        BY <1>2 DEF ChatCompletion, NoChat, Gone, ContextFilters
    <2> QED BY <2>1, <2>2, <2>3, <2>4, <2>5
<1>3. ASSUME Summarize PROVE AnswersInv'
    <2>1. ChatRecord'
        BY <1>3 DEF Summarize, NoChat, Gone, ContextFilters
    <2>2. ChatFields'
        BY <1>3 DEF Summarize, NoChat, Gone, ContextFilters
    <2>3. (GoneForGood /\ Filtering)'
        BY <1>3 DEF Summarize, NoChat, Gone, ContextFilters
    <2>4. (SourcesFiltered /\ AnswersAreCurrent)'
        BY <1>3 DEF Summarize, NoChat, Gone, ContextFilters
    <2>5. JobInv' /\ ReaderOK'
        BY <1>3 DEF Summarize, NoChat, Gone, ContextFilters
    <2> QED BY <2>1, <2>2, <2>3, <2>4, <2>5
<1>4. ASSUME ChunksRetrieval PROVE AnswersInv'
    <2>1. ChatRecord'
        BY <1>4 DEF ChunksRetrieval, NoChat, Gone, ContextFilters
    <2>2. ChatFields'
        BY <1>4 DEF ChunksRetrieval, NoChat, Gone, ContextFilters
    <2>3. (GoneForGood /\ Filtering)'
        BY <1>4 DEF ChunksRetrieval, NoChat, Gone, ContextFilters
    <2>4. (SourcesFiltered /\ AnswersAreCurrent)'
        BY <1>4 DEF ChunksRetrieval, NoChat, Gone, ContextFilters
    <2>5. JobInv' /\ ReaderOK'
        BY <1>4 DEF ChunksRetrieval, NoChat, Gone, ContextFilters
    <2> QED BY <2>1, <2>2, <2>3, <2>4, <2>5
<1> QED BY <1>1, <1>2, <1>3, <1>4

\* The document looked at is one of the list, and gets into the filter only if
\* its name is the selection of this moment.
LEMMA FilterDocStep ==
    ASSUME AnswersInv, FilterDoc
    PROVE  AnswersInv'
<1> USE AnswersAssumption
    DEF AnswersInv, ChatInv, JobInv, IndexOK, JobsOK, ReaderOK, ChatRecord, ChatFields,
        GoneForGood, Filtering, SourcesFiltered, AnswersAreCurrent,
        Replacing, NamesAreReplaced, Settled, Given, indexVars, fixed, lineVars, Stages, Modes
<1> DEFINE d == Min(chat.todo)
<1>1. d \in chat.todo
    <2>1. chat.todo \in SUBSET Nat /\ chat.todo # {}
        BY DEF FilterDoc
    <2> QED BY <2>1, MinIsIn
<1>2. chat' = [chat EXCEPT
                !.todo = chat.todo \ {d},
                !.stage = IF chat.todo = {d} THEN Selected ELSE chat.stage,
                !.filter = IF name[d] = selected THEN chat.filter \cup {d} ELSE chat.filter]
    BY DEF FilterDoc
<1>3. UNCHANGED <<indexVars, fixed, selected, upload, deletion, lineVars>> /\ chat.stage = "filter"
    BY DEF FilterDoc
<1>4. Selected \in {"documents", "retrieve"}
    BY DEF Selected
<1> HIDE DEF d
<1>5. chat.filter \subseteq Given /\ d \in Given
    BY <1>1, <1>3
<1>6. ChatRecord' /\ ChatFields'
    BY <1>1, <1>2, <1>3, <1>4, <1>5
<1>7. (GoneForGood /\ Filtering)'
    BY <1>1, <1>2, <1>3, <1>4, <1>5
<1>8. JobInv' /\ ReaderOK' /\ SourcesFiltered' /\ AnswersAreCurrent'
    BY <1>1, <1>2, <1>3, <1>4
<1> QED BY <1>6, <1>7, <1>8

\* What is summarised exists and passes the filter.
LEMMA ListRefDocsStep ==
    ASSUME AnswersInv, ListRefDocs
    PROVE  AnswersInv'
<1> USE AnswersAssumption
    DEF AnswersInv, ChatInv, JobInv, IndexOK, JobsOK, ReaderOK, ChatRecord, ChatFields,
        GoneForGood, Filtering, SourcesFiltered, AnswersAreCurrent,
        Replacing, NamesAreReplaced, Settled, Given, indexVars, fixed, lineVars, Stages, Modes
<1> DEFINE found == FilterRefDocs(present, chat.filter)
<1>1. /\ chat' = Failed \/ chat' = [chat EXCEPT !.sources = found, !.stage = "nodes"]
      /\ UNCHANGED <<indexVars, fixed, selected, upload, deletion, lineVars>>
      /\ chat.stage = "documents"
    BY DEF ListRefDocs
<1>2. found \subseteq present
    BY DEF FilterRefDocs
<1>3. chat.filter \notin {NoFilter, {}} => found \subseteq chat.filter
    BY <1>2 DEF FilterRefDocs
<1> HIDE DEF found
<1>4. ChatRecord' /\ ChatFields'
    BY <1>1, <1>2 DEF Failed, NoChat
<1>5. (GoneForGood /\ Filtering)'
    BY <1>1 DEF Failed, NoChat
<1>6. SourcesFiltered'
    BY <1>1, <1>3 DEF Failed, NoChat
<1>7. AnswersAreCurrent'
    BY <1>1, <1>2 DEF Failed, NoChat
<1>8. JobInv' /\ ReaderOK'
    BY <1>1 DEF Failed, NoChat
<1> QED BY <1>4, <1>5, <1>6, <1>7, <1>8

\* A request that is answered keeps its sources or has none.
LEMMA RequestSettles ==
    ASSUME AnswersInv
    PROVE  SiblingTexts \/ PipelineRun \/ SummaryNodes \/ StreamChat
           => AnswersInv'
<1> USE AnswersAssumption
    DEF AnswersInv, ChatInv, JobInv, IndexOK, JobsOK, ReaderOK, ChatRecord, ChatFields,
        GoneForGood, Filtering, SourcesFiltered, AnswersAreCurrent,
        Replacing, NamesAreReplaced, Settled, Given, indexVars, fixed, lineVars, Stages, Modes
<1> SUFFICES ASSUME SiblingTexts \/ PipelineRun \/ SummaryNodes \/ StreamChat
             PROVE  AnswersInv'
    OBVIOUS
<1> DEFINE Done == [chat EXCEPT !.stage = "done"]
           Empty == [chat EXCEPT !.sources = {}, !.stage = "done"]
<1>1. /\ chat' \in {Failed, Streaming, Empty} \/ (chat.stage # "run" /\ chat' = Done)
      /\ chat.stage \in {"siblings", "run", "nodes", "prompt"}
      /\ UNCHANGED <<indexVars, fixed, selected, upload, deletion>>
    BY DEF SiblingTexts, PipelineRun, ChunksValid, SummaryNodes, StreamChat, Answer
<1>2. ChatRecord' /\ ChatFields'
    BY <1>1 DEF Failed, Streaming, NoChat
<1>3. (GoneForGood /\ Filtering)'
    BY <1>1 DEF Failed, Streaming, NoChat
<1>4. (SourcesFiltered /\ AnswersAreCurrent)'
    BY <1>1 DEF Failed, Streaming, NoChat
<1>5. JobInv'
    BY <1>1
<1>6. ReaderOK'
    BY DEF SiblingTexts, PipelineRun, ChunksValid, SummaryNodes, StreamChat, Answer,
           StreamComplete, Failed, Streaming, NoChat
<1> QED BY <1>2, <1>3, <1>4, <1>5, <1>6

\* The other steps of a request: sources come from what is present.
LEMMA RequestStep ==
    ASSUME AnswersInv
    PROVE  \/ ReadSelection \/ RetrieveNodes \/ ReadStream \/ DeltasEnd
           \/ StreamRaises \/ RequestFails \/ Answered
           => AnswersInv'
<1> USE AnswersAssumption
    DEF AnswersInv, ChatInv, JobInv, IndexOK, JobsOK, ReaderOK, ChatRecord, ChatFields,
        GoneForGood, Filtering, SourcesFiltered, AnswersAreCurrent,
        Replacing, NamesAreReplaced, Settled, Given, indexVars, fixed, lineVars, Stages, Modes
<1>1. ASSUME ReadSelection PROVE AnswersInv'
    <2>1. ChatRecord' /\ ChatFields'
        BY <1>1 DEF ReadSelection, Selected, ListIngested
    <2>2. (GoneForGood /\ Filtering)'
        BY <1>1 DEF ReadSelection, Selected, ListIngested
    <2>3. (SourcesFiltered /\ AnswersAreCurrent)'
        BY <1>1 DEF ReadSelection, Selected
    <2>4. ReaderOK'
        BY <1>1 DEF ReadSelection, Selected
    <2>5. JobInv'
        BY <1>1, JobFrame DEF ReadSelection
    <2> QED BY <2>1, <2>2, <2>3, <2>4, <2>5
<1>2. ASSUME RetrieveNodes PROVE AnswersInv'
    <2>1. ChatRecord'
        BY <1>2 DEF RetrieveNodes, Searched, DocIdMetadataFilter
    <2>2. ChatFields'
        BY <1>2 DEF RetrieveNodes, Searched, DocIdMetadataFilter
    <2>3. (GoneForGood /\ Filtering)'
        BY <1>2 DEF RetrieveNodes, Searched, DocIdMetadataFilter
    <2>4. (SourcesFiltered /\ AnswersAreCurrent)'
        BY <1>2 DEF RetrieveNodes, Searched, DocIdMetadataFilter
    <2>5. JobInv' /\ ReaderOK'
        BY <1>2 DEF RetrieveNodes, Searched, DocIdMetadataFilter
    <2> QED BY <2>1, <2>2, <2>3, <2>4, <2>5
<1>3. ASSUME ReadStream PROVE AnswersInv'
    <2>1. UNCHANGED <<indexVars, fixed, selected, chat, upload, deletion>>
        BY <1>3 DEF ReadStream
    <2>2. ReaderOK'
        BY <1>3 DEF ReadStream, Reading, NextLine, ReceivePiece, EndOfStream
    <2> QED BY <2>1, <2>2, ChatFrame, JobFrame
<1>4. ASSUME DeltasEnd PROVE AnswersInv'
    <2>1. /\ UNCHANGED <<indexVars, fixed, selected, upload, deletion>>
          /\ chat' = [NoChat EXCEPT !.stage = "done"]
        BY <1>4 DEF DeltasEnd
    <2>2. ReaderOK'
        BY <2>1, <1>4 DEF DeltasEnd, NoChat, StreamOff
    <2> QED BY <2>1, <2>2, ChatOver, JobFrame
<1>5. ASSUME StreamRaises PROVE AnswersInv'
    <2>1. UNCHANGED <<indexVars, fixed, selected, upload, deletion>> /\ chat' = Failed
        BY <1>5 DEF StreamRaises
    <2>2. ReaderOK'
        BY <2>1, <1>5 DEF StreamRaises, Failed, NoChat, StreamOff
    <2> QED BY <2>1, <2>2, ChatOver, JobFrame
<1>6. ASSUME RequestFails PROVE AnswersInv'
    <2>1. UNCHANGED <<indexVars, fixed, selected, upload, deletion>>
        BY <1>6 DEF RequestFails
    <2>2. chat' = Failed \/ chat' = chat
        BY <1>6 DEF RequestFails
    <2>3. ChatInv'
        BY <2>1, <2>2, ChatOver, ChatFrame
    <2>4. ReaderOK'
        BY <2>1, <1>6 DEF RequestFails, StreamFails, Failed, NoChat
    <2> QED BY <2>1, <2>3, <2>4, JobFrame
<1>7. ASSUME Answered PROVE AnswersInv'
    <2>1. UNCHANGED <<indexVars, fixed, selected, upload, deletion, lineVars>>
          /\ chat' = NoChat /\ chat.stage \in {"done", "failed"}
        BY <1>7 DEF Answered
    <2>2. ReaderOK'
        BY <2>1 DEF NoChat
    <2> QED BY <2>1, <2>2, ChatOver, JobFrame
<1> QED BY <1>1, <1>2, <1>3, <1>4, <1>5, <1>6, <1>7

\* As many ids as wanted, from the next one on.
LEMMA NewIds ==
    ASSUME NEW a \in Nat, NEW k \in Nat
    PROVE  Cardinality(a .. a - 1 + k) = k
<1>1. a \in Int /\ a - 1 + k \in Int
    OBVIOUS
<1>2. Cardinality(a .. a - 1 + k) = IF a > a - 1 + k THEN 0 ELSE (a - 1 + k) - a + 1
    BY <1>1, FS_Interval
<1> QED BY <1>2

\* The new documents have new ids and names of their own: the deletions before
\* have left none of these names.
LEMMA BulkIngestStep ==
    ASSUME AnswersInv, BulkIngest
    PROVE  AnswersInv'
<1> USE AnswersAssumption
    DEF AnswersInv, ChatInv, JobInv, IndexOK, JobsOK, ReaderOK, ChatRecord, ChatFields,
        GoneForGood, Filtering, SourcesFiltered, AnswersAreCurrent,
        Replacing, NamesAreReplaced, Settled, Given, indexVars, fixed, lineVars, Stages, Modes
<1>1. Cardinality(Docs) \in Nat
    BY FS_CardinalityType
<1>2. IsFiniteSet(upload.files) /\ Cardinality(upload.files) \in Nat
    BY FS_Subset, FS_CardinalityType
<1> DEFINE new == nextDoc .. nextDoc - 1 + Cardinality(upload.files)
<1>3. Cardinality(new) = Cardinality(upload.files)
    <2>1. nextDoc \in Nat
        OBVIOUS
    <2> QED BY <2>1, <1>2, NewIds
<1>4. PICK f \in [new -> upload.files] :
            /\ \A d, e \in new : d # e => f[d] # f[e]
            /\ name' = [d \in Docs |-> IF d \in new THEN f[d] ELSE name[d]]
            /\ present' = present \cup new
            /\ nextDoc' = nextDoc + Cardinality(new)
    BY DEF BulkIngest
<1>5. /\ upload.stage = "delete" /\ upload.todo = {} /\ upload' = NoJob
      /\ UNCHANGED <<fixed, selected, chat, deletion, lineVars>>
    BY DEF BulkIngest
<1>6. /\ nextDoc' = nextDoc + Cardinality(upload.files)
      /\ nextDoc' - 1 \in Docs /\ new \cup Given = Given'
    <2>1. nextDoc' = nextDoc + Cardinality(upload.files)
        BY <1>3, <1>4
    <2>2. nextDoc' - 1 \in Docs
        BY <2>1, <1>2, <1>5
    <2>3. nextDoc \in Nat \ {0}
        OBVIOUS
    <2>4. new \cup Given = Given'
        BY <2>1, <2>3, <1>2
    <2> QED BY <2>1, <2>2, <2>4
<1>7. Given' \subseteq Docs
    BY <1>1, <1>2, <1>6
<1>8. \A d \in Given : name'[d] = name[d] /\ d \notin new
    BY <1>2, <1>4
<1>9. \A d \in new : name'[d] = f[d] /\ f[d] \in upload.files
    BY <1>4, <1>6, <1>7
<1> HIDE DEF new
<1>10. IndexOK'
    <2>1. nextDoc' \in Nat \ {0} /\ present' \subseteq Given'
        BY <1>2, <1>4, <1>6
    <2>2. name' \in [Docs -> Files \cup {NoFile}]
        BY <1>4
    <2>3. ASSUME NEW d \in Docs
          PROVE  name'[d] = NoFile <=> d >= nextDoc'
        <3>1. CASE d \in new
            BY <3>1, <1>2, <1>6, <1>9 DEF new
        <3>2. CASE d \notin new
            BY <3>2, <1>1, <1>2, <1>4, <1>6 DEF new
        <3> QED BY <3>1, <3>2
    <2> QED BY <1>1, <1>5, <1>6, <1>7, <2>1, <2>2, <2>3
<1>11. JobsOK' /\ Replacing' /\ ReaderOK'
    BY <1>5, <1>6 DEF NoJob
<1>12. NamesAreReplaced'
    <2>1. \A d \in present : name[d] \notin upload.files
        BY <1>5
    <2> QED BY <2>1, <1>4, <1>5, <1>8, <1>9
<1>13. ChatRecord' /\ ChatFields'
    BY <1>5, <1>6
<1>14. (GoneForGood /\ Filtering)'
    BY <1>4, <1>5, <1>6, <1>8
<1>15. (SourcesFiltered /\ AnswersAreCurrent)'
    BY <1>5
<1> QED BY <1>10, <1>11, <1>12, <1>13, <1>14, <1>15

\* Deletions only take documents away.
LEMMA JobStep ==
    ASSUME AnswersInv
    PROVE  \/ UploadFile \/ UploadDeletes \/ UploadFails \/ DeleteAllFiles
           \/ DeleteSelectedFile \/ DeleteNext \/ DeletionEnds \/ DeletionFails
           => AnswersInv'
<1> USE AnswersAssumption
    DEF AnswersInv, ChatInv, JobInv, IndexOK, JobsOK, ReaderOK, ChatRecord, ChatFields,
        GoneForGood, Filtering, SourcesFiltered, AnswersAreCurrent,
        Replacing, NamesAreReplaced, Settled, Given, indexVars, fixed, lineVars, Stages, Modes
<1>1. ASSUME UploadFile PROVE AnswersInv'
    <2>1. ChatInv'
        BY <1>1, ChatFrame DEF UploadFile
    <2>2. IndexOK' /\ NamesAreReplaced'
        BY <1>1 DEF UploadFile, ListIngested
    <2>3. JobsOK' /\ Replacing'
        BY <1>1 DEF UploadFile, ListIngested
    <2>4. ReaderOK'
        BY <1>1 DEF UploadFile
    <2> QED BY <2>1, <2>2, <2>3, <2>4
<1>2. ASSUME UploadDeletes PROVE AnswersInv'
    <2>1. ChatInv'
        BY <1>2, ChatFrame DEF UploadDeletes, Delete
    <2>2. IndexOK' /\ NamesAreReplaced'
        BY <1>2 DEF UploadDeletes, Delete
    <2>3. JobsOK' /\ Replacing'
        BY <1>2 DEF UploadDeletes, Delete
    <2>4. ReaderOK'
        BY <1>2 DEF UploadDeletes
    <2> QED BY <2>1, <2>2, <2>3, <2>4
<1>3. ASSUME UploadFails PROVE AnswersInv'
    <2>1. ChatInv'
        BY <1>3, ChatFrame DEF UploadFails
    <2>2. IndexOK' /\ NamesAreReplaced'
        BY <1>3 DEF UploadFails, NoJob
    <2>3. JobsOK' /\ Replacing'
        BY <1>3 DEF UploadFails, NoJob
    <2>4. ReaderOK'
        BY <1>3 DEF UploadFails
    <2> QED BY <2>1, <2>2, <2>3, <2>4
<1>4. ASSUME DeleteAllFiles PROVE AnswersInv'
    <2>1. ChatInv'
        BY <1>4, ChatFrame DEF DeleteAllFiles
    <2>2. IndexOK' /\ NamesAreReplaced'
        BY <1>4 DEF DeleteAllFiles, NoJob, ListIngested
    <2>3. JobsOK' /\ Replacing'
        BY <1>4 DEF DeleteAllFiles, NoJob, ListIngested
    <2>4. ReaderOK'
        BY <1>4 DEF DeleteAllFiles
    <2> QED BY <2>1, <2>2, <2>3, <2>4
<1>5. ASSUME DeleteSelectedFile PROVE AnswersInv'
    <2>1. ChatInv'
        BY <1>5, ChatFrame DEF DeleteSelectedFile
    <2>2. IndexOK' /\ NamesAreReplaced'
        BY <1>5 DEF DeleteSelectedFile, NoJob, ListIngested
    <2>3. JobsOK' /\ Replacing'
        BY <1>5 DEF DeleteSelectedFile, NoJob, ListIngested
    <2>4. ReaderOK'
        BY <1>5 DEF DeleteSelectedFile
    <2> QED BY <2>1, <2>2, <2>3, <2>4
<1>6. ASSUME DeleteNext PROVE AnswersInv'
    <2>1. ChatInv'
        BY <1>6, ChatFrame DEF DeleteNext, Delete
    <2>2. IndexOK' /\ NamesAreReplaced'
        BY <1>6 DEF DeleteNext, Delete
    <2>3. JobsOK' /\ Replacing'
        BY <1>6 DEF DeleteNext, Delete
    <2>4. ReaderOK'
        BY <1>6 DEF DeleteNext
    <2> QED BY <2>1, <2>2, <2>3, <2>4
<1>7. ASSUME DeletionEnds PROVE AnswersInv'
    <2>1. ChatInv'
        BY <1>7, ChatFrame DEF DeletionEnds
    <2>2. IndexOK' /\ NamesAreReplaced'
        BY <1>7 DEF DeletionEnds, NoJob
    <2>3. JobsOK' /\ Replacing'
        BY <1>7 DEF DeletionEnds, NoJob
    <2>4. ReaderOK'
        BY <1>7 DEF DeletionEnds
    <2> QED BY <2>1, <2>2, <2>3, <2>4
<1>8. ASSUME DeletionFails PROVE AnswersInv'
    <2>1. ChatInv'
        BY <1>8, ChatFrame DEF DeletionFails
    <2>2. IndexOK' /\ NamesAreReplaced'
        BY <1>8 DEF DeletionFails, NoJob
    <2>3. JobsOK' /\ Replacing'
        BY <1>8 DEF DeletionFails, NoJob
    <2>4. ReaderOK'
        BY <1>8 DEF DeletionFails
    <2> QED BY <2>1, <2>2, <2>3, <2>4
<1> QED BY <1>1, <1>2, <1>3, <1>4, <1>5, <1>6, <1>7, <1>8

\* The invariant holds in every reachable state.
LEMMA AnswersInvariant == Spec => []AnswersInv
<1>1. ASSUME AnswersInv, Next
      PROVE  AnswersInv'
    BY <1>1, SelectionStep, RequestBegins, FilterDocStep, ListRefDocsStep, RequestSettles,
       RequestStep, BulkIngestStep, JobStep
    DEF Next, ChatStep, UploadStep, DeletionStep
<1>2. ASSUME AnswersInv, UNCHANGED vars
      PROVE  AnswersInv'
    <2>1. ChatInv'
        BY <1>2, ChatFrame DEF AnswersInv, vars
    <2>2. JobInv'
        BY <1>2, JobFrame DEF AnswersInv, JobInv, IndexOK, vars, indexVars, fixed
    <2>3. ReaderOK'
        BY <1>2 DEF AnswersInv, ReaderOK, vars, lineVars
    <2> QED BY <2>1, <2>2, <2>3 DEF AnswersInv
<1>3. AnswersInv /\ [Next]_vars => AnswersInv'
    BY <1>1, <1>2
<1> QED BY <1>3, AnswersInvInit, PTL DEF Spec

\* The chat, the index and the jobs are well typed: a stream is read exactly
\* while a request to SageMaker streams, and ids are never given twice.
THEOREM AnswersTypeCorrect == Spec => []TypeOK
<1>1. AnswersInv => TypeOK
    BY ChatOKEquivalent DEF AnswersInv, ChatInv, JobInv, TypeOK
<1> QED BY <1>1, AnswersInvariant, PTL

\* _doc_id_metadata_filter, get_retriever, _filter_ref_docs: what is searched or
\* summarised under a list of documents comes from documents of that list.  The
\* empty list, which restricts nothing, and chat with context and without stream,
\* which drops its filter, are out by the statement of FiltersHold.
THEOREM FiltersAreKept == Spec => []FiltersHold
<1>1. AnswersInv => FiltersHold
    BY DEF AnswersInv, ChatInv, SourcesFiltered, FiltersHold
<1> QED BY <1>1, AnswersInvariant, PTL

\* _initialize_bm25, ChatService.chat: no answer rests on a document that was
\* deleted before the question was asked.
THEOREM DeletedIsNotCited == Spec => []AnswersAreCurrent
BY AnswersInvariant, PTL DEF AnswersInv, ChatInv

\* _upload_file: a file name has one document at the most.
THEOREM UploadsReplace == Spec => []NamesAreReplaced
BY AnswersInvariant, PTL DEF AnswersInv, JobInv

\* HybridRetriever._retrieve: whatever the scores, the weights and the number of
\* nodes, no node is left out for one that is worse in both searches.
THEOREM RanksAlwaysRespected == Spec => []MergeRespectsRanks
<1>1. MergeRespectsRanks
    BY NothingIsLeftOut DEF MergeRespectsRanks
<1> QED BY <1>1, PTL

\* Every step leaves the line reader alone, or is one of its steps.
LEMMA StepsOfLines == [Next]_vars => LineStep
BY DEF Next, vars, LineStep, SelectedAFile, DeselectSelectedFile, Chat, ChatCompletion,
       Summarize, ChunksRetrieval, ChatStep, ReadSelection, FilterDoc, RetrieveNodes,
       SiblingTexts, PipelineRun, ListRefDocs, SummaryNodes, StreamChat, Answer, ReadStream,
       DeltasEnd, StreamRaises, Answered, RequestFails, UploadFile, UploadStep, UploadDeletes,
       BulkIngest, UploadFails, DeleteAllFiles, DeleteSelectedFile, DeletionStep, DeleteNext,
       DeletionEnds, DeletionFails

\* LineIterator.__next__ and get_stream: for every response, and wherever its
\* pieces are cut, the deltas are the visible tokens, each once and in order, and
\* all of them when the stream ends; the iterator loops without end only on a
\* response that stops within a line.
THEOREM DeltasAlwaysAddUp == Spec => []DeltasAddUp
<1>1. Init => LineInv
    BY LineInvInit DEF Init
<1>2. LineInv /\ [Next]_vars => LineInv'
    BY StepsOfLines, LineInvStep
<1>3. LineInv => DeltasAddUp
    BY DeltasOfLines
<1> QED BY <1>1, <1>2, <1>3, PTL DEF Spec

\* _chat, ChatService.chat, prompt_helper.py: whatever the history and the style
\* of the model a request is for, the model is told the conversation and asked,
\* but for what Asks leaves out: the answers under ChatML, and histories with an
\* unanswered question that Llama 2 refuses.
THEOREM EveryStyleAlwaysAsks == Spec => []EveryStyleAsks
<1>1. AnswersInv => EveryStyleAsks
    BY EveryStyleTells DEF AnswersInv, ChatInv, ChatFields, EveryStyleAsks
<1> QED BY <1>1, AnswersInvariant, PTL
=============================================================================
