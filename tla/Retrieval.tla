----------------------------- MODULE Retrieval -----------------------------
(***************************************************************************)
(* ingest/retrieval.py: a dense and a sparse ranking of a document's       *)
(* chunks, fused by reciprocal rank, and the best of them ranked again by  *)
(* the cross-encoder.  A ranking is a sequence of chunk ids without        *)
(* repetition, as the two SQL queries return it.                           *)
(***************************************************************************)
EXTENDS Sorting, SequencesExt, FiniteSetsExt

CONSTANTS
    RrfK,       \* RRF_K
    RrfTopN,    \* rrf_top_n
    RerankTopK  \* rerank_top_k

ASSUME RetrievalAssumption == RrfK \in Nat /\ RrfTopN \in Nat /\ RerankTopK \in Nat

\* The place of a chunk in a ranking; one that is missing comes after all others.
Place(ranking, chunk) ==
    IF chunk \in ToSet(ranking)
    THEN CHOOSE r \in DOMAIN ranking : ranking[r] = chunk ELSE Len(ranking) + 1

\* Scores are fractions <<n, d>>, the share of a ranking being 1 / (k + rank).
ShareIn(ranking, chunk) ==
    IF chunk \in ToSet(ranking) THEN <<1, RrfK + Place(ranking, chunk)>> ELSE <<0, 1>>

Plus(a, b) == <<a[1] * b[2] + b[1] * a[2], a[2] * b[2]>>
AtLeast(a, b) == a[1] * b[2] >= b[1] * a[2]

ScoreOverwritten(dense, sparse, chunk) ==
    IF chunk \in ToSet(sparse) THEN ShareIn(sparse, chunk) ELSE ShareIn(dense, chunk)
Score(dense, sparse, chunk) == Plus(ShareIn(dense, chunk), ShareIn(sparse, chunk))

\* The scores' dict has the dense chunks first, then the sparse ones.
FirstSeen(dense, sparse, chunk) ==
    IF chunk \in ToSet(dense) THEN Place(dense, chunk) ELSE Len(dense) + Place(sparse, chunk)

\* sorted() by falling score keeps the order of equals.
SortedBy(chunks, atLeast, place) ==
    Sorted(chunks, {p \in chunks \X chunks :
        <<p[1], p[2]>> \in atLeast
        /\ (<<p[2], p[1]>> \in atLeast => place[p[1]] < place[p[2]])})

\* rrf_fuse.
RrfFuse(dense, sparse) ==
    LET chunks == ToSet(dense) \cup ToSet(sparse)
    IN  SortedBy(chunks,
                 {p \in chunks \X chunks : AtLeast(Score(dense, sparse, p[1]), Score(dense, sparse, p[2]))},
                 [c \in chunks |-> FirstSeen(dense, sparse, c)])

Top(seq, n) == SubSeq(seq, 1, Min({n, Len(seq)}))

\* hybrid_retrieve: what the model is shown, by the cross-encoder's score of each
\* chunk.  Its first two scores are the top1 and top2 of check_l1_margin.
Candidates(dense, sparse) == Top(RrfFuse(dense, sparse), RrfTopN)

Reranked(candidates, cross) ==
    LET chunks == ToSet(candidates)
    IN  SortedBy(chunks, {p \in chunks \X chunks : cross[p[1]] >= cross[p[2]]},
                 [c \in chunks |-> Place(candidates, c)])

HybridRetrieveCutFirst(dense, sparse, cross) ==
    Reranked(Top(Candidates(dense, sparse), RerankTopK), cross)

HybridRetrieve(dense, sparse, cross) ==
    Top(Reranked(Candidates(dense, sparse), cross), RerankTopK)

-----------------------------------------------------------------------------
\* The fused ranking holds every chunk of the two once, and follows the rankers
\* where they agree: a chunk behind another in neither and ahead of it in one is
\* ahead of it.
RespectsRankers(dense, sparse, fused) ==
    /\ IsInjective(fused) /\ ToSet(fused) = ToSet(dense) \cup ToSet(sparse)
    /\ \A a, b \in ToSet(fused) :
        /\ Place(dense, a) <= Place(dense, b) /\ Place(sparse, a) <= Place(sparse, b)
        /\ a # b
        => Place(fused, a) < Place(fused, b)

\* What is served is in falling order of the cross-encoder, as many chunks as there
\* may be, and no candidate left out scores higher than one served.
ServesBest(dense, sparse, cross, served) ==
    LET candidates == ToSet(Candidates(dense, sparse)) IN
    /\ IsInjective(served) /\ ToSet(served) \subseteq candidates
    /\ Len(served) = Min({RerankTopK, Len(Candidates(dense, sparse))})
    /\ \A i, j \in DOMAIN served : i < j => cross[served[i]] >= cross[served[j]]
    /\ \A a \in ToSet(served), b \in candidates \ ToSet(served) : cross[a] >= cross[b]
=============================================================================
