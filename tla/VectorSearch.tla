---------------------------- MODULE VectorSearch ----------------------------
(***************************************************************************)
(* The VectorStore in memory (storage/vector/vector_store.py): searches    *)
(* that run in thread pools beside the updates of the collection.  An      *)
(* update changes the collection, rebuilds the keyword index from it, in   *)
(* several assignments and a file, and then makes a new version, by which  *)
(* the results of searches are cached.  Updates are not serialised: the    *)
(* synchronisation runs in a request, while the worker stores a memory.    *)
(*                                                                         *)
(* A chunk is its id, and an id is never used twice.  There is one query,  *)
(* which Matching says the relevant chunks of; a search returns everything *)
(* it finds (top_k is not reached).                                        *)
(***************************************************************************)
EXTENDS Naturals, Sequences, FiniteSets, SequencesExt

CONSTANTS Job,         \* the updater that may rebuild and remove
          Workers,     \* updaters that only add a memory
          Searchers,   \* threads that search
          MaxChunks,   \* bound: chunks ever made
          Matching,    \* those of them the query's words give a score
          MaxUpdates,  \* bound: updates begun
          MaxFailures, \* bound: embeddings, insertions and deletions of the collection that raise
          MaxRestarts  \* bound: stops of the process

Updaters == Workers \cup {Job}
Chunks == 1..MaxChunks

ASSUME SearchAssumption ==
    /\ Job \notin Workers /\ Searchers \cap Updaters = {}
    /\ MaxChunks \in Nat /\ Matching \subseteq Chunks
    /\ MaxUpdates \in Nat /\ MaxFailures \in Nat /\ MaxRestarts \in Nat

VARIABLES coll,     \* the chunks of the collection, in the order they came
          gone,     \* the collection is deleted and not created again
          corpus,   \* self.bm25: the chunks it was built from; empty when None
          ids,      \* self.bm25_ids
          file,     \* bm25_index.pkl
          version,  \* self.kb_version
          cache,    \* self._search_cache: results by version
          up,       \* the updaters
          th,       \* the searching threads
          made, begun, failures, restarts,
          doubt     \* history: why the index or the cache may not be current

store == <<coll, gone, made>>
index == <<corpus, ids, file>>
cached == <<version, cache>>
bounds == <<begun, failures, restarts>>
vars == <<store, index, cached, bounds, up, th, doubt>>

\* A result: the chunks the vector search found and those the words found.
Result == [vec : SUBSET Chunks, words : SUBSET Chunks]
Nothing == [vec |-> {}, words |-> {}]

FileOf(chunks) == [corpus |-> chunks, ids |-> chunks, count |-> Len(chunks), doubt |-> FALSE]
NoFile == FileOf(<<>>)

Resting == [pc |-> "idle", todo |-> <<>>, seen |-> <<>>, changed |-> FALSE, start |-> 0]
Waiting == [pc |-> "idle", key |-> 0, at |-> {}, got |-> Nothing, start |-> 0]

Quiet == \A u \in Updaters : up[u].pc = "idle"
\* Only u has been updating since it began.
Alone(u) == up[u].start = begun

Become(u, r) == up' = [up EXCEPT ![u] = r]
Goto(u, pc) == Become(u, [up[u] EXCEPT !.pc = pc])
Turn(s, r) == th' = [th EXCEPT ![s] = r]

-----------------------------------------------------------------------------
(* Updates.                                                                 *)

\* u begins with the chunks of todo; two updates at once leave the index in doubt.
Begin(u, todo, pc) ==
    /\ up[u].pc = "idle" /\ begun < MaxUpdates
    /\ begun' = begun + 1
    /\ Become(u, [Resting EXCEPT !.pc = pc, !.todo = todo,
                                 !.start = IF Quiet THEN begun + 1 ELSE 0])
    /\ doubt' = [doubt EXCEPT !.index = @ \/ ~Quiet]
    /\ UNCHANGED <<coll, gone, index, cached, th, failures, restarts>>

\* A chunk's id ends in a part of a new uuid.
New_Wrong(n) == [i \in 1..n |-> i]
New(n) == [i \in 1..n |-> made + i]

\* build_full, add_chunks and deactivate_by_docs (each document of one chunk).
BuildFull(n) ==
    /\ made + n <= MaxChunks /\ made' = made + n
    /\ Begin(Job, New(n), "drop")
AddChunks(u, n) ==
    /\ n > 0 /\ made + n <= MaxChunks /\ made' = made + n
    /\ Begin(u, New(n), "add")
DeactivateByDocs(c) ==
    /\ c \in ToSet(coll)
    /\ Begin(Job, <<c>>, "remove")
    /\ UNCHANGED made

DropCollection ==
    /\ up[Job].pc = "drop"
    /\ coll' = <<>> /\ gone' = TRUE
    /\ Become(Job, [up[Job] EXCEPT !.pc = "create", !.changed = TRUE])
    /\ UNCHANGED <<made, index, cached, bounds, th, doubt>>

AfterCreation == IF up[Job].todo = <<>> THEN "version" ELSE "add"

\* A deletion that raises is logged; get_or_create finds the old collection, which is added to.
DropFails ==
    /\ up[Job].pc = "drop" /\ failures < MaxFailures
    /\ failures' = failures + 1
    /\ Goto(Job, AfterCreation)
    /\ UNCHANGED <<store, index, cached, begun, restarts, th, doubt>>

\* Without chunks the keyword index is left as it is.
CreateCollection ==
    /\ up[Job].pc = "create"
    /\ gone' = FALSE
    /\ Goto(Job, AfterCreation)
    /\ UNCHANGED <<coll, made, index, cached, bounds, th, doubt>>

\* A batch of one chunk; after the last the keyword index is rebuilt.
Insert(u) ==
    /\ up[u].pc = "add" /\ ~gone
    /\ coll' = Append(coll, Head(up[u].todo))
    /\ Become(u, [up[u] EXCEPT !.todo = Tail(@), !.changed = TRUE,
                               !.pc = IF Len(up[u].todo) = 1 THEN "count" ELSE "add"])
    /\ UNCHANGED <<gone, made, index, cached, bounds, th, doubt>>

DeleteDoc(u) ==
    /\ up[u].pc = "remove"
    /\ coll' = RemoveFirst(coll, Head(up[u].todo))
    /\ Become(u, [up[u] EXCEPT !.pc = "count", !.changed = TRUE])
    /\ UNCHANGED <<gone, made, index, cached, bounds, th, doubt>>

\* The embedding or an insertion raises: nothing is rebuilt, no version made.
Aborts(u) ==
    /\ Become(u, Resting)
    /\ doubt' = [index |-> doubt.index \/ up[u].changed, cache |-> doubt.cache \/ up[u].changed]
Fails(u) ==
    /\ up[u].pc = "add"
    /\ gone \/ failures < MaxFailures
    /\ failures' = IF gone THEN failures ELSE failures + 1
    /\ Aborts(u)
    /\ UNCHANGED <<store, index, cached, th, begun, restarts>>

-----------------------------------------------------------------------------
(* _build_bm25_index, step by step.                                         *)

\* Nothing to index: only the file goes.  A deleted collection raises, which is logged.
Count(u) ==
    /\ up[u].pc = "count"
    /\ Goto(u, IF gone \/ coll = <<>> THEN "version" ELSE "get")
    /\ file' = IF ~gone /\ coll = <<>> THEN NoFile ELSE file
    /\ UNCHANGED <<store, corpus, ids, cached, bounds, th, doubt>>

Get(u) ==
    /\ up[u].pc = "get"
    /\ Become(u, [up[u] EXCEPT !.seen = coll, !.pc = IF gone THEN "version" ELSE "ids"])
    /\ UNCHANGED <<store, index, cached, bounds, th, doubt>>

\* BM25Okapi divides by the number of documents: none raises, after the ids are set.
SetIds_Wrong(u) ==
    /\ up[u].pc = "ids"
    /\ Goto(u, IF up[u].seen = <<>> THEN "version" ELSE "corpus")
    /\ UNCHANGED <<store, index, cached, bounds, th, doubt>>
SetIds(u) ==
    /\ up[u].pc = "ids"
    /\ ids' = up[u].seen
    /\ Goto(u, IF up[u].seen = <<>> THEN "version" ELSE "corpus")
    /\ UNCHANGED <<store, corpus, file, cached, bounds, th, doubt>>

SetCorpus(u) ==
    /\ up[u].pc = "corpus"
    /\ corpus' = up[u].seen
    /\ Goto(u, "dump")
    /\ doubt' = [doubt EXCEPT !.index = @ /\ ~Alone(u)]
    /\ UNCHANGED <<store, ids, file, cached, bounds, th>>

\* The file takes the fields as they are now, and the count of what was read.
Dump(u) ==
    /\ up[u].pc = "dump"
    /\ file' = [corpus |-> corpus, ids |-> ids, count |-> Len(up[u].seen), doubt |-> doubt.index]
    /\ Goto(u, "version")
    /\ UNCHANGED <<store, corpus, ids, cached, bounds, th, doubt>>

\* _new_kb_version: a version no search has seen, then the cache is emptied.
NewVersion_Wrong(u) ==
    /\ up[u].pc = "version" /\ ~gone
    /\ Goto(u, "clear")
    /\ doubt' = [doubt EXCEPT !.cache = FALSE]
    /\ UNCHANGED <<store, index, cached, bounds, th>>
NewVersion(u) ==
    /\ up[u].pc = "version" /\ ~gone
    /\ version' = version + 1
    /\ Goto(u, "clear")
    /\ doubt' = [doubt EXCEPT !.cache = FALSE]
    /\ UNCHANGED <<store, index, cache, bounds, th>>
NoVersion(u) ==
    /\ up[u].pc = "version" /\ gone
    /\ Aborts(u)
    /\ UNCHANGED <<store, index, cached, bounds, th>>
InvalidateCache(u) ==
    /\ up[u].pc = "clear"
    /\ cache' = <<>>
    /\ Become(u, Resting)
    /\ UNCHANGED <<store, index, version, bounds, th, doubt>>

-----------------------------------------------------------------------------
(* A search.                                                                *)

CacheKey(s) ==
    /\ th[s].pc \in {"idle", "done", "raised"}
    /\ Turn(s, [Waiting EXCEPT !.pc = "lookup", !.key = version,
                               !.start = IF Quiet THEN begun + 1 ELSE 0])
    /\ UNCHANGED <<store, index, cached, bounds, up, doubt>>

\* The search of s is over.
Answered(s, pc, got) == [Waiting EXCEPT !.pc = pc, !.got = got, !.start = th[s].start]

GetCache(s) ==
    /\ th[s].pc = "lookup"
    /\ Turn(s, IF th[s].key \in DOMAIN cache
               THEN Answered(s, "done", cache[th[s].key])
               ELSE [th[s] EXCEPT !.pc = "vector"])
    /\ UNCHANGED <<store, index, cached, bounds, up, doubt>>

\* Any access to a deleted collection raises, and so does the search.
Raises(s) == Turn(s, Answered(s, "raised", Nothing))

SearchVector(s) ==
    /\ th[s].pc = "vector"
    /\ IF gone THEN Raises(s) ELSE Turn(s, [th[s] EXCEPT !.pc = "score", !.got.vec = ToSet(coll)])
    /\ UNCHANGED <<store, index, cached, bounds, up, doubt>>

Score(s) ==
    /\ th[s].pc = "score"
    /\ LET at == {p \in DOMAIN corpus : corpus[p] \in Matching}
       IN  Turn(s, [th[s] EXCEPT !.at = at, !.pc = IF at = {} THEN "store" ELSE "names"])
    /\ UNCHANGED <<store, index, cached, bounds, up, doubt>>

\* The positions that scored are looked up in the ids of this moment.
Names(s) ==
    /\ th[s].pc = "names"
    /\ IF th[s].at \subseteq DOMAIN ids
       THEN Turn(s, [th[s] EXCEPT !.at = {}, !.got.words = {ids[p] : p \in th[s].at}, !.pc = "fetch"])
       ELSE Raises(s)
    /\ UNCHANGED <<store, index, cached, bounds, up, doubt>>

Fetch(s) ==
    /\ th[s].pc = "fetch"
    /\ IF gone THEN Raises(s)
       ELSE Turn(s, [th[s] EXCEPT !.got.words = @ \cap ToSet(coll), !.pc = "store"])
    /\ UNCHANGED <<store, index, cached, bounds, up, doubt>>

\* The result is kept under the version the search began with.
Put(key, result) == cache' = [v \in DOMAIN cache \cup {key} |-> IF v = key THEN result ELSE cache[v]]

SetCache_Wrong(s) ==
    /\ th[s].pc = "store"
    /\ Put(version, th[s].got)
    /\ Turn(s, Answered(s, "done", th[s].got))
    /\ UNCHANGED <<store, index, version, bounds, up, doubt>>
SetCache(s) ==
    /\ th[s].pc = "store"
    /\ Put(th[s].key, th[s].got)
    /\ Turn(s, Answered(s, "done", th[s].got))
    /\ UNCHANGED <<store, index, version, bounds, up, doubt>>

\* An entry is too old or one too many.
Evict(v) ==
    /\ v \in DOMAIN cache
    /\ cache' = [w \in DOMAIN cache \ {v} |-> cache[w]]
    /\ UNCHANGED <<store, index, version, bounds, up, th, doubt>>

-----------------------------------------------------------------------------
(* The process stops and starts again: VectorStore.__init__.                *)

\* The file is taken when its count is that of the collection.
Restart ==
    /\ restarts < MaxRestarts /\ restarts' = restarts + 1
    /\ gone' = FALSE /\ version' = version + 1 /\ cache' = <<>>
    /\ up' = [u \in Updaters |-> Resting] /\ th' = [s \in Searchers |-> Waiting]
    /\ \/ /\ coll # <<>> /\ file.count = Len(coll)
          /\ corpus' = file.corpus /\ ids' = file.ids /\ file' = file
          /\ doubt' = [index |-> file.doubt \/ doubt.index \/ ~Quiet, cache |-> FALSE]
       \/ /\ coll = <<>> \/ file.count # Len(coll)
          /\ corpus' = coll /\ ids' = coll /\ file' = FileOf(coll)
          /\ doubt' = [index |-> FALSE, cache |-> FALSE]
    /\ UNCHANGED <<coll, made, begun, failures>>

\* A store that has started on a collection of some chunks.
Init ==
    /\ made \in 0..MaxChunks /\ coll = [i \in 1..made |-> i] /\ gone = FALSE
    /\ corpus = coll /\ ids = coll /\ file = FileOf(coll)
    /\ version = 0 /\ cache = <<>>
    /\ up = [u \in Updaters |-> Resting] /\ th = [s \in Searchers |-> Waiting]
    /\ begun = 0 /\ failures = 0 /\ restarts = 0
    /\ doubt = [index |-> FALSE, cache |-> FALSE]

Sync ==
    \/ \E n \in 0..MaxChunks : BuildFull(n) \/ AddChunks(Job, n)
    \/ \E c \in Chunks : DeactivateByDocs(c)
    \/ DropCollection \/ DropFails \/ CreateCollection

Update(u) ==
    \/ Insert(u) \/ DeleteDoc(u) \/ Fails(u)
    \/ Count(u) \/ Get(u) \/ SetIds(u) \/ SetCorpus(u) \/ Dump(u)
    \/ NewVersion(u) \/ NoVersion(u) \/ InvalidateCache(u)

Search(s) ==
    \/ CacheKey(s) \/ GetCache(s) \/ SearchVector(s) \/ Score(s) \/ Names(s)
    \/ Fetch(s) \/ SetCache(s)

Next ==
    \/ Sync
    \/ \E w \in Workers : AddChunks(w, 1)
    \/ \E u \in Updaters : Update(u)
    \/ \E s \in Searchers : Search(s)
    \/ \E v \in DOMAIN cache : Evict(v)
    \/ Restart

Spec == Init /\ [][Next]_vars

-----------------------------------------------------------------------------
(* Properties.                                                              *)

\* Every variable has its type, and no chunk is in the collection twice.
TypeOK ==
    /\ coll \in Seq(Chunks) /\ IsInjective(coll) /\ gone \in BOOLEAN /\ made \in 0..MaxChunks
    /\ corpus \in Seq(Chunks) /\ ids \in Seq(Chunks)
    /\ file \in [corpus : Seq(Chunks), ids : Seq(Chunks), count : Nat, doubt : BOOLEAN]
    /\ version \in Nat
    /\ DOMAIN cache \subseteq Nat /\ \A v \in DOMAIN cache : cache[v] \in Result
    /\ up \in [Updaters -> [pc : {"idle", "drop", "create", "add", "remove", "count", "get", "ids",
                                 "corpus", "dump", "version", "clear"},
                            todo : Seq(Chunks), seen : Seq(Chunks), changed : BOOLEAN, start : Nat]]
    /\ th \in [Searchers -> [pc : {"idle", "lookup", "vector", "score", "names", "fetch", "store",
                                  "done", "raised"},
                             key : Nat, at : SUBSET Nat, got : Result, start : Nat]]
    /\ begun \in 0..MaxUpdates /\ failures \in 0..MaxFailures /\ restarts \in 0..MaxRestarts
    /\ doubt \in [index : BOOLEAN, cache : BOOLEAN]

Positions == {p \in DOMAIN corpus : corpus[p] \in Matching}
Hits == {ids[p] : p \in Positions \cap DOMAIN ids} \cap ToSet(coll)
Exact == [vec |-> ToSet(coll), words |-> ToSet(coll) \cap Matching]

\* What the keyword index finds is what matches: no stale id, no score given to
\* another chunk's id, no position without an id.
Describes == Positions \subseteq DOMAIN ids /\ Hits = Exact.words

\* Between updates the keyword index describes the collection, also after it was
\* loaded from its file, unless updates overlapped or one was not finished.
IndexIsCurrent == Quiet /\ ~doubt.index => Describes

\* Between updates a result that is cached for the current version is the one a
\* search would compute now: whatever the updates and searches overlapped with, no
\* result read before a change outlives it, unless an update raised after a change.
CacheIsCoherent ==
    Quiet /\ ~doubt.cache /\ version \in DOMAIN cache
        => cache[version] = [vec |-> ToSet(coll), words |-> Hits]

\* A search that no update overlaps finds every chunk and exactly the matching ones by
\* their words, from the cache or not, and does not raise.
SearchIsExact ==
    \A s \in Searchers :
        th[s].pc \in {"done", "raised"} /\ th[s].start = begun + 1 /\ ~doubt.index /\ ~doubt.cache
            => th[s].pc = "done" /\ th[s].got = Exact

-----------------------------------------------------------------------------
(* What the program says and does not keep.                                 *)

\* "Build BM25 index from existing ChromaDB documents" (vector_store.py:260): between
\* updates, the index describes the collection.
IndexMatchesCollection == Quiet => Describes
=============================================================================
