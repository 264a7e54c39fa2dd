----------------------------- MODULE Retrieval ------------------------------
(***************************************************************************)
(* RagRetrievalPipeline (capabilities/rag/retrieval/), in its two forms:   *)
(* run searches in threads and skips a query that fails, run_async gathers *)
(* and is failed by it.  The model may find a filter in the question and   *)
(* two queries for it; the fast path takes one search if it is good        *)
(* enough; else the queries are searched and merged, without the filter    *)
(* when that finds nothing, and a poor result is replaced by that of a     *)
(* rewritten query if it is better.                                        *)
(* Similarities and the words of the question are choices; a score is      *)
(* counted in 1200ths, so that all its fractions are whole numbers.        *)
(***************************************************************************)
EXTENDS Ranking

CONSTANTS Matching,       \* the chunks the filter selects
          TopK,           \* VECTOR_SEARCH_TOP_K
          ExpansionTopK,  \* RAG_EXPANSION_TOP_K
          Threshold,      \* RAG_QUALITY_THRESHOLD
          Margin,         \* RETRIEVAL_FAST_PATH_QUALITY_MARGIN
          MinImprovement, \* RAG_EXPANSION_MIN_IMPROVEMENT
          MinHits         \* RAG_QUALITY_MIN_HITS

ASSUME RetrievalAssumption ==
    /\ Matching \subseteq Chunks /\ {TopK, ExpansionTopK} \subseteq Nat \ {0}
    /\ Threshold \in 0..1200 /\ Margin \in Int /\ MinImprovement \in Nat /\ MinHits \in Nat

VARIABLES pc,       \* where the pipeline is
          async,    \* run_async, or run
          filter,   \* metadata_filter is set
          hits,     \* the result of a search that is not looked at yet, as <<result>>
          left,     \* queries still to search
          dropped,  \* this phase searches without the filter
          inside,   \* history: this phase has found something within the filter
          chunks,   \* the chunks so far
          quality,  \* what was measured of them
          first,    \* chunks, their quality and phase before the expansion
          expanded, fast

vars == <<pc, async, filter, hits, left, dropped, inside, chunks, quality, first, expanded, fast>>

NoHits == <<>>
NoQuality == [score |-> 0, hits |-> 0, docs |-> 0, sim |-> 0]
NoFirst == [chunks |-> <<>>, quality |-> NoQuality, dropped |-> FALSE, inside |-> FALSE]

Init ==
    /\ pc = "idle" /\ async \in BOOLEAN /\ filter = FALSE /\ hits = NoHits /\ left = 0
    /\ dropped = FALSE /\ inside = FALSE /\ chunks = <<>> /\ quality = NoQuality /\ first = NoFirst
    /\ expanded = FALSE /\ fast = FALSE

\* The score of h chunks of d documents with an average similarity of sim halves.
Score(h, d, sim, top) ==
    IF h = 0 THEN 0
    ELSE (540 * (IF h < top THEN h ELSE top)) \div top + 240 * sim + (180 * d) \div h

Measure(s, sim, top) ==
    LET d == Cardinality({Doc[c] : c \in Range(s)})
    IN  [score |-> Score(Len(s), d, sim, top), hits |-> Len(s), docs |-> d, sim |-> IF s = <<>> THEN 0 ELSE sim]

\* avg_similarity below 0.45 or source_diversity below 0.5.
Weak(q) == q.hits < MinHits \/ q.sim < 1 \/ 2 * q.docs < q.hits
IsLow(q) == q.score < Threshold \/ Weak(q)

FastTarget ==
    LET raised == IF Threshold + Margin > 1200 THEN 1200 ELSE Threshold + Margin
    IN  IF raised > Threshold THEN raised ELSE Threshold
GoodEnough(q) == q.score >= FastTarget /\ ~Weak(q)

\* apply_question_filters: those with the question's words, if there are any.
Kept(acc, c, words) == IF c \in words THEN Append(acc, c) ELSE acc
Filtered(s, words) ==
    LET some[n \in 0..Len(s)] == IF n = 0 THEN <<>> ELSE Kept(some[n - 1], s[n], words)
    IN  IF some[Len(s)] = <<>> THEN s ELSE some[Len(s)]

\* The question is asked; the model finds a filter in it or not, and it is complex or not.
Begin(f, complex) ==
    /\ pc = "idle"
    /\ filter' = f /\ pc' = IF complex THEN "queries" ELSE "fast"
    /\ UNCHANGED <<async, hits, left, dropped, inside, chunks, quality, first, expanded, fast>>

\* All that VectorStore.search may return, of the chunks the filter selects or of all.
Found == [within \in BOOLEAN |-> [top \in {TopK, ExpansionTopK} |->
            LET lists == Lists(IF within THEN Matching ELSE Chunks)
            IN  UNION {Results(v, b, top) : v \in lists, b \in lists}]]

Search ==
    /\ pc \in {"fast", "sub", "expand"} /\ hits = NoHits
    /\ \E out \in Found[filter /\ ~dropped][IF pc = "expand" THEN ExpansionTopK ELSE TopK] :
          hits' = <<out>> /\ inside' = (inside \/ (filter /\ ~dropped /\ out # <<>>))
    /\ UNCHANGED <<pc, async, filter, left, dropped, chunks, quality, first, expanded, fast>>

Raise == pc' = "raised" /\ hits' = NoHits /\ chunks' = <<>> /\ left' = 0

\* A search that raises: only run, and only for one of the queries, goes on without it.
SearchFails ==
    /\ hits = NoHits
    /\ \/ pc \in {"fast", "expand"} /\ Raise
       \/ pc = "sub" /\ async /\ Raise
       \/ pc = "sub" /\ ~async /\ left' = left - 1 /\ pc' = (IF left = 1 THEN "merged" ELSE "sub")
          /\ UNCHANGED <<hits, chunks>>
    /\ UNCHANGED <<async, filter, dropped, inside, quality, first, expanded, fast>>

\* An empty result within the filter is searched for once more without it.
Retry == filter /\ ~dropped /\ dropped' = TRUE /\ hits' = NoHits /\ UNCHANGED inside

TryFast(words, sim) ==
    /\ pc = "fast" /\ hits # NoHits
    /\ IF hits[1] = <<>> /\ filter /\ ~dropped
       THEN Retry /\ UNCHANGED <<pc, chunks, quality, fast>>
       ELSE LET found == Filtered(hits[1], words)
                q == Measure(found, sim, TopK)
            IN  /\ hits' = NoHits
                /\ IF GoodEnough(q)
                   THEN /\ pc' = "end" /\ chunks' = found /\ quality' = q /\ fast' = TRUE
                        /\ UNCHANGED <<dropped, inside>>
                   ELSE /\ pc' = "queries" /\ dropped' = FALSE /\ inside' = FALSE
                        /\ UNCHANGED <<chunks, quality, fast>>
    /\ UNCHANGED <<async, filter, left, first, expanded>>

\* build_dual_queries: one query or two, with the filter again.
Queries(n) ==
    /\ pc = "queries" /\ pc' = "sub" /\ left' = n
    /\ UNCHANGED <<async, filter, hits, dropped, inside, chunks, quality, first, expanded, fast>>

Merge ==
    /\ pc = "sub" /\ hits # NoHits
    /\ chunks' = AppendUnique(chunks, hits[1]) /\ hits' = NoHits /\ left' = left - 1
    /\ pc' = IF left = 1 THEN "merged" ELSE "sub"
    /\ UNCHANGED <<async, filter, dropped, inside, quality, first, expanded, fast>>

Fallback_Wrong(n) ==
    /\ pc = "merged" /\ Len(chunks) < 2 /\ filter /\ ~dropped
    /\ dropped' = TRUE /\ left' = n /\ pc' = "sub"
    /\ UNCHANGED <<async, filter, hits, inside, chunks, quality, first, expanded, fast>>

\* Nothing found by any query: all of them again without the filter.
Fallback(n) ==
    /\ pc = "merged" /\ chunks = <<>> /\ filter /\ ~dropped
    /\ dropped' = TRUE /\ left' = n /\ pc' = "sub"
    /\ UNCHANGED <<async, filter, hits, inside, chunks, quality, first, expanded, fast>>

CutTo(s, n) == SubSeq(s, 1, IF Len(s) < n THEN Len(s) ELSE n)

\* The merged chunks reranked and cut to twice top_k, or only cut when that fails.
Evaluate(order, words, sim) ==
    /\ pc = "merged" /\ ~(chunks = <<>> /\ filter /\ ~dropped)
    /\ LET kept == Filtered(CutTo(order, 2 * TopK), words)
           q == Measure(kept, sim, TopK)
       IN  /\ chunks' = kept /\ quality' = q
           /\ IF IsLow(q) THEN pc' = "rewrite" /\ first' = [chunks |-> kept, quality |-> q, dropped |-> dropped, inside |-> inside]
                          ELSE pc' = "end" /\ UNCHANGED first
    /\ UNCHANGED <<async, filter, hits, left, dropped, inside, expanded, fast>>

\* The query is rewritten; a model that fails here fails the whole retrieval.
Rewrite ==
    /\ pc = "rewrite" /\ expanded' = TRUE
    /\ \/ pc' = "expand" /\ UNCHANGED <<hits, chunks, left>>
       \/ Raise
    /\ dropped' = FALSE /\ inside' = FALSE
    /\ UNCHANGED <<async, filter, quality, first, fast>>

Expand_Wrong(order, words, sim) ==
    /\ pc = "expand" /\ hits # NoHits /\ ~(hits[1] = <<>> /\ filter /\ ~dropped)
    /\ LET kept == CutTo(Filtered(order, words), ExpansionTopK)
           q == Measure(kept, sim, TopK)
       IN  IF ~Weak(q) \/ q.score >= Threshold
           THEN chunks' = kept /\ quality' = q /\ UNCHANGED <<dropped, inside>>
           ELSE dropped' = first.dropped /\ inside' = first.inside /\ UNCHANGED <<chunks, quality>>
    /\ pc' = "end" /\ hits' = NoHits
    /\ UNCHANGED <<async, filter, left, first, expanded, fast>>

\* The result of the rewritten query, reranked, replaces the first only if it is better by
\* far; its hits are measured against the number that was asked for here.
Expand(order, words, sim) ==
    /\ pc = "expand" /\ hits # NoHits /\ ~(hits[1] = <<>> /\ filter /\ ~dropped)
    /\ LET kept == CutTo(Filtered(order, words), ExpansionTopK)
           q == Measure(kept, sim, ExpansionTopK)
       IN  IF q.score >= quality.score + MinImprovement
           THEN chunks' = kept /\ quality' = q /\ UNCHANGED <<dropped, inside>>
           ELSE dropped' = first.dropped /\ inside' = first.inside /\ UNCHANGED <<chunks, quality>>
    /\ pc' = "end" /\ hits' = NoHits
    /\ UNCHANGED <<async, filter, left, first, expanded, fast>>

ExpandAgain ==
    /\ pc = "expand" /\ hits = <<<<>>>> /\ Retry
    /\ UNCHANGED <<pc, async, filter, left, chunks, quality, first, expanded, fast>>

Return ==
    /\ pc \in {"end", "raised"} /\ pc' = "idle"
    /\ async' \in BOOLEAN /\ filter' = FALSE /\ hits' = NoHits /\ left' = 0 /\ dropped' = FALSE /\ inside' = FALSE
    /\ chunks' = <<>> /\ quality' = NoQuality /\ first' = NoFirst /\ expanded' = FALSE /\ fast' = FALSE

Next ==
    \/ \E f, complex \in BOOLEAN : Begin(f, complex)
    \/ Search \/ SearchFails \/ Merge \/ Rewrite \/ ExpandAgain \/ Return
    \/ \E n \in 1..2 : Queries(n) \/ Fallback(n)
    \/ \E words \in SUBSET Chunks, sim \in 0..2 :
          \/ TryFast(words, sim)
          \/ \E order \in Orders(chunks) : Evaluate(order, words, sim)
          \/ hits # NoHits /\ \E order \in Orders(hits[1]) : Expand(order, words, sim)

Spec == Init /\ [][Next]_vars

-----------------------------------------------------------------------------
\* For whatever the two indexes return: the fusion has the chunks of both and never puts a
\* chunk behind one that it precedes in each list that has them; the candidates respect
\* the limit per document, show no parent twice, keep the best, and are as many as may be.
SearchIsFair ==
    pc = "idle" => \A v, b \in Lists(Chunks) :
        LET fused == Fuse(v, b)
            cands == Candidates(v, b, TopK)
            taken == Constrain(cands, TopK)
            Ahead(l, x, y) == x \in Range(l) /\ (y \in Range(l) => Rank(l, x) < Rank(l, y))
            NotBehind(l, x, y) == y \in Range(l) => Ahead(l, x, y)
        IN  /\ IsInjective(fused) /\ Range(fused) = Range(v) \cup Range(b)
            /\ \A x, y \in Range(fused) :
                  (Ahead(v, x, y) /\ NotBehind(b, x, y)) \/ (Ahead(b, x, y) /\ NotBehind(v, x, y))
                      => Rank(fused, x) < Rank(fused, y)
            /\ \A d \in Range(Doc) : Cardinality({c \in Range(taken) : Doc[c] = d}) <= MaxPerDoc
            /\ \A x, y \in Range(taken) :
                  x # y /\ Doc[x] = Doc[y] /\ Parent[x] = Parent[y] => Parent[x] = NoParent
            /\ cands # <<>> => taken # <<>> /\ taken[1] = cands[1]
            /\ Len(taken) < Target(cands, TopK) =>
                  \A c \in Range(cands) \ Range(taken) : ~CanTake(taken, c, FALSE, FALSE)

\* A chunk outside of the filter is returned only if all the searches that led to the
\* result, also those of several queries one of which failed, found nothing within it.
FilterHonoured ==
    pc = "end" /\ filter /\ ~(Range(chunks) \subseteq Matching) => dropped /\ ~inside

\* A weak result is not returned before a rewritten query was tried, and one that replaced
\* another is better than that on its own scale too, where the rewritten query is asked for
\* no fewer chunks: both configurations do, but nothing keeps the settings so.
QualityIsPursued ==
    pc = "end" =>
        /\ IsLow(quality) => expanded
        /\ expanded /\ ExpansionTopK >= TopK =>
              LET q == Measure(chunks, quality.sim, TopK)
              IN  chunks = first.chunks \/ q.score >= first.quality.score + MinImprovement
=============================================================================
