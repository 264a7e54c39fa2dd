------------------------------ MODULE Ranking -------------------------------
(***************************************************************************)
(* How VectorStore.search ranks what its two indexes have found            *)
(* (storage/vector/vector_store.py): the reciprocal rank fusion, the       *)
(* limits for the candidates of the reranker and the limit per document.   *)
(* A result is a sequence of chunks without repetition, the best first.    *)
(***************************************************************************)
EXTENDS Sorting, Functions

CONSTANTS Chunks,            \* the collection
          Doc, Section,      \* of each chunk
          Parent,            \* of each chunk, NoParent for none
          NoParent,
          RrfK,              \* VECTOR_SEARCH_RRF_K
          Multiplier,        \* VECTOR_SEARCH_CANDIDATE_MULTIPLIER
          MaxPerDoc,         \* VECTOR_SEARCH_PRERERANK_MAX_PER_DOC
          MinCoverage,       \* VECTOR_SEARCH_PRERERANK_MIN_SECTION_COVERAGE, in percent
          MaxChunksPerDoc,   \* VECTOR_SEARCH_MAX_CHUNKS_PER_DOC
          MaxList            \* bound: length of a list either index returns

ASSUME RankingAssumption ==
    /\ DOMAIN Doc = Chunks /\ DOMAIN Section = Chunks /\ DOMAIN Parent = Chunks
    /\ {RrfK, Multiplier, MaxPerDoc, MaxChunksPerDoc, MaxList} \subseteq Nat \ {0}
    /\ MinCoverage \in 0..100

\* What either index may return of a set of chunks.
Lists(S) == UNION {{l \in [1..n -> S] : IsInjective(l)} : n \in 0..MaxList}

\* 1 / (k + rank + 1), times what makes it a whole number for every rank.
Whole == LET product[n \in 0..MaxList] == IF n = 0 THEN 1 ELSE product[n - 1] * (RrfK + n)
         IN  product[MaxList]
Weight(r) == Whole \div (RrfK + r)
Rank(l, c) == CHOOSE i \in DOMAIN l : l[i] = c
WeightIn(l, c) == IF c \in Range(l) THEN Weight(Rank(l, c)) ELSE 0

\* append_unique_chunks, and the keys of a dict: a chunk that is there already is not added.
Joined(acc, c) == IF c \in Range(acc) THEN acc ELSE Append(acc, c)
AppendUnique(s, new) ==
    LET all[n \in 0..Len(new)] == IF n = 0 THEN s ELSE Joined(all[n - 1], new[n])
    IN  all[Len(new)]

\* _rrf_fusion: by the sum of the weights, equals in the order they were met.
Fuse(v, b) ==
    LET met == AppendUnique(v, b)
        order == Descending([i \in DOMAIN met |-> WeightIn(v, met[i]) + WeightIn(b, met[i])])
    IN  [i \in DOMAIN met |-> met[order[i]]]

CanTake_Wrong(taken, c, preferNew, cover) ==
    LET same == {x \in Range(taken) : Doc[x] = Doc[c]}
        isNew == Section[c] \notin {Section[x] : x \in same}
    IN  /\ Cardinality(same) <= MaxPerDoc
        /\ preferNew /\ same # {} => isNew

\* can_take: the statistics of a document are those of what was taken of it.
CanTake(taken, c, preferNew, cover) ==
    LET same == {x \in Range(taken) : Doc[x] = Doc[c]}
        sections == {Section[x] : x \in same}
        isNew == Section[c] \notin sections
    IN  /\ Cardinality(same) < MaxPerDoc
        /\ Parent[c] = NoParent \/ Parent[c] \notin {Parent[x] : x \in same}
        /\ preferNew /\ same # {} => isNew
        /\ cover /\ ~isNew => 100 * Cardinality(sections) >= MinCoverage * (Cardinality(same) + 1)

Target(cands, top) ==
    LET wanted == top * Multiplier IN IF Len(cands) < wanted THEN Len(cands) ELSE wanted

\* One of the three passes over the candidates.
Taken(acc, c, target, preferNew, cover) ==
    IF Len(acc) < target /\ c \notin Range(acc) /\ CanTake(acc, c, preferNew, cover)
    THEN Append(acc, c) ELSE acc
Pass(taken, cands, top, preferNew, cover) ==
    LET acc[n \in 0..Len(cands)] ==
            IF n = 0 THEN taken ELSE Taken(acc[n - 1], cands[n], Target(cands, top), preferNew, cover)
    IN  acc[Len(cands)]

\* _apply_pre_rerank_constraints: new sections first, then by coverage, then what is left.
Constrain(cands, top) ==
    Pass(Pass(Pass(<<>>, cands, top, TRUE, TRUE), cands, top, FALSE, TRUE), cands, top, FALSE, FALSE)

Candidates(v, b, top) ==
    LET fused == Fuse(v, b)
    IN  SubSeq(fused, 1, IF Len(fused) < top * Multiplier THEN Len(fused) ELSE top * Multiplier)

\* The loop that ends search: at most so many of a document, at most top_k in all.
Listed(acc, c, top) ==
    IF Len(acc) < top /\ Cardinality({x \in Range(acc) : Doc[x] = Doc[c]}) < MaxChunksPerDoc
    THEN Append(acc, c) ELSE acc
Cap(ranked, top) ==
    LET acc[n \in 0..Len(ranked)] == IF n = 0 THEN <<>> ELSE Listed(acc[n - 1], ranked[n], top)
    IN  acc[Len(ranked)]

\* What a reranker may make of its candidates: any order of them.
Orders(s) == {t \in [DOMAIN s -> Range(s)] : IsInjective(t)}

\* The results search may return for what the two indexes found.
Results(v, b, top) == {Cap(t, top) : t \in Orders(Constrain(Candidates(v, b, top), top))}
=============================================================================
