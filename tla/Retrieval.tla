----------------------------- MODULE Retrieval -----------------------------
(***************************************************************************)
(* Which chunks a request rests on: the filter by document ids             *)
(* (vector_store_component.py), the retrievers and the reranker of the RAG *)
(* pipeline (rag/retrievers, rag/reranker), the walk to the siblings of a  *)
(* chunk (chunks_service.py) and the documents of a summary                *)
(* (summarize_service.py).                                                 *)
(*                                                                         *)
(* A score table maps the nodes a search looks at to integers.  Where      *)
(* scores tie the order is not determined, so a retriever is the set of    *)
(* the sets of nodes it may return.  Normalised scores are multiples of    *)
(* 1 / Scale; Scale is divisible by every range of scores.                 *)
(***************************************************************************)
EXTENDS Integers, FiniteSets, Sequences, SequencesExt

CONSTANTS
    Scale,          \* what a normalised score of 1.0 is
    VectorWeight,   \* rag.vector_weight
    Bm25Weight,     \* rag.bm25_weight
    TopK,           \* rag.top_k
    RerankTopN,     \* rag.reranker_top_n
    NoFilter,       \* context_filter is None
    Nodes,          \* nodes and
    Scores          \* scores for which the merge is checked

ASSUME RetrievalAssumption ==
    /\ {Scale, VectorWeight, Bm25Weight, TopK, RerankTopN} \subseteq Nat \ {0}
    /\ Scores \subseteq Nat
    /\ \A s, t \in Scores : s > t => Scale % (s - t) = 0

(***************************************************************************)
(* Filters.  An empty list of ids adds no condition to the query, and      *)
(* qdrant, which is given the ids themselves, ignores an empty list too.   *)
(***************************************************************************)
DocIdMetadataFilter(filter) == IF filter = NoFilter THEN {} ELSE filter

\* Mutant: the query is built without the filter.
SearchedUnread(filter, docs) == docs

Searched(filter, docs) ==
    IF DocIdMetadataFilter(filter) = {}
    THEN docs
    ELSE docs \cap DocIdMetadataFilter(filter)

FilterRefDocs(docs, filter) ==
    IF filter = NoFilter \/ filter = {} THEN docs ELSE {d \in docs : d \in filter}

(***************************************************************************)
(* Retrievers.                                                             *)
(***************************************************************************)
TopOf(score, k) ==
    {T \in SUBSET DOMAIN score :
        /\ Cardinality(T) = Min({k, Cardinality(DOMAIN score)})
        /\ \A n \in T, m \in DOMAIN score \ T : score[n] >= score[m]}

VectorRetrieve(score, k) == TopOf(score, k)

\* The corpus: the documents there are when the service is built.
InitializeBm25(docs) == docs

\* Nodes that share no word with the query score 0 and are dropped.
Bm25Retrieve(score, k) == {{n \in T : score[n] > 0} : T \in TopOf(score, k)}

\* Mutant: the best score becomes 0, as for distances.
NormalizeDistances(score) ==
    LET scores == {score[n] : n \in DOMAIN score}
        range == IF Max(scores) > Min(scores) THEN Max(scores) - Min(scores) ELSE 1
    IN  [n \in DOMAIN score |-> (Scale * (Max(scores) - score[n])) \div range]

\* normalize_nodes: equal scores all become 0.
Normalize(score) ==
    LET scores == {score[n] : n \in DOMAIN score}
        range == IF Max(scores) > Min(scores) THEN Max(scores) - Min(scores) ELSE 1
    IN  [n \in DOMAIN score |-> (Scale * (score[n] - Min(scores))) \div range]

CombinedScores(vector, bm25) ==
    LET at(norm, n) == IF n \in DOMAIN norm THEN norm[n] ELSE 0
    IN  [n \in DOMAIN vector \cup DOMAIN bm25 |->
            VectorWeight * at(vector, n) + Bm25Weight * at(bm25, n)]

HybridRetrieve(vector, bm25, k) ==
    UNION {TopOf(CombinedScores(Normalize(Restrict(vector, V)),
                                Normalize(Restrict(bm25, B))), k) :
              V \in VectorRetrieve(vector, 2 * k), B \in Bm25Retrieve(bm25, 2 * k)}

\* The order of the cross encoder is its own: any nodes may be the best.
Rerank(nodes) ==
    {R \in SUBSET nodes : Cardinality(R) = Min({RerankTopN, Cardinality(nodes)})}

\* The reranker may be disabled (rag.reranker_enabled).  No caller of
\* RagPipeline.run passes filters.  AutoMergingRetriever, which stands around
\* the hybrid retriever, is left out: it exchanges chunks for the larger chunk of
\* the same document that holds them, so the documents stay what they are, and
\* where it does not find that chunk it raises, which run makes an answer
\* without sources.
GetNodes(vector, bm25) ==
    UNION {Rerank(nodes) \cup {nodes} : nodes \in HybridRetrieve(vector, bm25, TopK)}

(***************************************************************************)
(* Siblings of the chunk at place i of a document of n chunks.             *)
(***************************************************************************)
SiblingNodes(i, n, related_number, forward) ==
    LET walk(acc, round) ==
            LET next == IF forward THEN acc.current + 1 ELSE acc.current - 1
            IN  IF next \in 1..n
                THEN [current |-> next, explored |-> Append(acc.explored, next)]
                ELSE acc
    IN  FoldLeft(walk, [current |-> i, explored |-> << >>],
                 [j \in 1..related_number |-> j]).explored

\* Nodes that some merge leaves out for one that is worse in both searches.
LeftOut ==
    {m \in Nodes :
        \E vector, bm25 \in [Nodes -> Scores] :
            \E R \in HybridRetrieve(vector, bm25, TopK) :
                m \notin R /\ \E n \in R : vector[m] > vector[n] /\ bm25[m] > bm25[n]}

=============================================================================
