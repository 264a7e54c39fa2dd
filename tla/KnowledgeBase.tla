--------------------------- MODULE KnowledgeBase ---------------------------
(***************************************************************************)
(* The knowledge base: the documents of data/, the chunks of the vector    *)
(* collection and the fingerprint file that says which version of which    *)
(* document was indexed.  The agent synchronises them when it starts, on   *)
(* /api/kb/sync and on /api/kb/rebuild, one job at a time; users change the *)
(* files meanwhile, the worker stores memories in the same collection,     *)
(* files may be unreadable, the embedding service may fail, and the process *)
(* may stop between any two steps.                                         *)
(***************************************************************************)
EXTENDS Naturals, Sequences, FiniteSets, SequencesExt

CONSTANTS Docs,         \* names of documents
          MaxVersion,   \* bound: how often the content of a document changes
          Parts,        \* chunks of a readable document
          BatchSize,    \* VECTOR_BATCH_SIZE
          MaxMemories,  \* bound: memories in the collection
          MaxCrashes,   \* bound: stops of the process, resets included
          MaxFailures,  \* bound: exceptions while a collection is dropped or chunks are added
          MayMisread,   \* a listed document may be unreadable
          MayReset      \* the user may reset the system

ASSUME KBAssumption ==
    /\ MaxVersion \in Nat \ {0} /\ Parts \in Nat \ {0} /\ BatchSize \in Nat \ {0}
    /\ MaxMemories \in Nat /\ MaxCrashes \in Nat /\ MaxFailures \in Nat
    /\ MayMisread \in BOOLEAN /\ MayReset \in BOOLEAN

VARIABLES disk,      \* the files of data/: is it there, and the version of its content
          fp,        \* fingerprint.json
          index,     \* how often each chunk is in the collection; 2 stands for more
          memories,  \* the episodic memories in the collection
          pc,        \* where the job is, "idle" without one, "off" without a process
          ready,     \* the AgentCore is constructed
          job,       \* what _sync_knowledge_base and RagService hold in local variables
          flag,      \* the file .need_reset exists
          crashes, failures,
          suspect    \* history: documents the fingerprint is known not to describe

vars == <<disk, fp, index, memories, pc, ready, job, flag, crashes, failures, suspect>>

Versions == 1..MaxVersion
Chunks   == Docs \X Versions \X (1..Parts)
Prints   == UNION {[S -> Versions] : S \in SUBSET Docs}

NoPrint   == [d \in {} |-> 1]
NoFile    == [kind |-> "none", docs |-> NoPrint]
Truncated == [kind |-> "corrupt", docs |-> NoPrint]
Saved(p)  == [kind |-> "saved", docs |-> p]

NoJob == [full |-> FALSE, last |-> FALSE, cur |-> NoPrint, pending |-> {},
          todo |-> <<>>, missed |-> {}, removed |-> {}, before |-> {}]

ChunksOf(d) == {c \in Chunks : c[1] = d /\ index[c] > 0}
Empty == memories = 0 /\ \A c \in Chunks : index[c] = 0
Present == {d \in Docs : disk[d].there}

\* generate_fingerprint.
Fingerprint_Wrong == [d \in Docs |-> disk[d].version]
Fingerprint == [d \in Present |-> disk[d].version]

\* diff_fingerprint.
Added(cur, old)   == DOMAIN cur \ DOMAIN old
Removed(cur, old) == DOMAIN old \ DOMAIN cur
Updated(cur, old) == {d \in DOMAIN cur \cap DOMAIN old : cur[d] # old[d]}

-----------------------------------------------------------------------------
(* A job begins.                                                            *)

Begin(at, j) == pc' = at /\ job' = [j EXCEPT !.before = suspect]

\* The job ends: a job that started the agent leaves it constructed.
End(r) == pc' = "idle" /\ job' = NoJob /\ ready' = r

FullRebuild(last, cur) == [NoJob EXCEPT !.full = TRUE, !.last = last, !.cur = cur]

\* incremental_update, up to its first write: what the saved fingerprint has and the
\* files have not, or not any more, is removed first.
Incremental_Wrong(cur) ==
    LET gone == Removed(cur, fp.docs) IN
    IF Added(cur, fp.docs) \cup gone \cup Updated(cur, fp.docs) = {}
    THEN End(TRUE)
    ELSE /\ Begin("remove", [NoJob EXCEPT !.cur = cur, !.pending = gone, !.removed = gone])
         /\ UNCHANGED ready
Incremental(cur) ==
    LET gone == Removed(cur, fp.docs) \cup Updated(cur, fp.docs) IN
    IF Added(cur, fp.docs) \cup gone = {}
    THEN End(TRUE)
    ELSE /\ Begin("remove", [NoJob EXCEPT !.cur = cur, !.pending = gone, !.removed = gone])
         /\ UNCHANGED ready

\* _sync_knowledge_base: an empty collection is rebuilt; a collection without a
\* fingerprint is taken to match the files; otherwise the difference is applied.
Sync ==
    /\ pc = "idle" /\ fp.kind # "corrupt"
    /\ \/ Empty /\ Begin("list", FullRebuild(FALSE, Fingerprint)) /\ UNCHANGED <<ready, suspect>>
       \/ /\ ~Empty /\ fp.docs = NoPrint
          /\ pc' = "add" /\ job' = [NoJob EXCEPT !.cur = Fingerprint, !.before = Docs]
          /\ suspect' = Docs
          /\ UNCHANGED ready
       \/ ~Empty /\ fp.docs # NoPrint /\ Incremental(Fingerprint) /\ UNCHANGED suspect
    /\ UNCHANGED <<disk, fp, index, memories, flag, crashes, failures>>

\* load_fingerprint raises before any fallback: the agent is not constructed.
SyncRaises ==
    /\ pc = "idle" /\ fp.kind = "corrupt"
    /\ pc' = "failed"
    /\ UNCHANGED <<disk, fp, index, memories, ready, job, flag, crashes, failures, suspect>>

\* rebuild_knowledge_base_now.
Rebuild ==
    /\ pc = "idle" /\ ready
    /\ Begin("list", FullRebuild(TRUE, Fingerprint))
    /\ UNCHANGED <<disk, fp, index, memories, ready, flag, crashes, failures, suspect>>

-----------------------------------------------------------------------------
(* Its steps.                                                               *)

\* deactivate_by_docs, one document at a time.
RemoveDoc(d) ==
    /\ pc = "remove" /\ d \in job.pending
    /\ index' = [c \in Chunks |-> IF c[1] = d THEN 0 ELSE index[c]]
    /\ job' = [job EXCEPT !.pending = @ \ {d}]
    /\ UNCHANGED <<disk, fp, memories, pc, ready, flag, crashes, failures, suspect>>

\* The names a job loads: every file, or those of the difference.
ToLoad == IF job.full THEN Present
          ELSE Present \cap (Added(job.cur, fp.docs) \cup Updated(job.cur, fp.docs))

\* load_documents_from_dir lists the directory.
List ==
    /\ pc = "list" \/ (pc = "remove" /\ job.pending = {})
    /\ pc' = "read" /\ job' = [job EXCEPT !.pending = ToLoad]
    /\ UNCHANGED <<disk, fp, index, memories, ready, flag, crashes, failures, suspect>>

\* One file is read and cut into chunks; a file that is gone or cannot be read is
\* skipped with a warning.
ReadDoc(d) ==
    /\ pc = "read" /\ d \in job.pending
    /\ \/ /\ disk[d].there
          /\ job' = [job EXCEPT !.pending = @ \ {d},
                                !.todo = @ \o [p \in 1..Parts |-> <<d, disk[d].version, p>>]]
       \/ /\ MayMisread \/ ~disk[d].there
          /\ job' = [job EXCEPT !.pending = @ \ {d}, !.missed = @ \cup {d}]
    /\ UNCHANGED <<disk, fp, index, memories, pc, ready, flag, crashes, failures, suspect>>

\* build_full drops the collection, with the memories in it.  If that fails it goes on with
\* the old collection, and what it adds comes to what is there.
Replace_Wrong ==
    /\ pc = "read" /\ job.pending = {} /\ job.full
    /\ pc' = "add" /\ suspect' = Docs /\ job' = [job EXCEPT !.removed = Docs]
    /\ UNCHANGED <<disk, fp, index, memories, ready, flag, crashes, failures>>
Replace ==
    /\ pc = "read" /\ job.pending = {} /\ job.full
    /\ \/ /\ index' = [c \in Chunks |-> 0] /\ memories' = 0
          /\ job' = [job EXCEPT !.removed = Docs]
          /\ UNCHANGED failures
       \/ /\ failures < MaxFailures /\ failures' = failures + 1
          /\ job' = [job EXCEPT !.removed = {d \in Docs : ChunksOf(d) = {}}]
          /\ UNCHANGED <<index, memories>>
    /\ pc' = "add" /\ suspect' = Docs
    /\ UNCHANGED <<disk, fp, ready, flag, crashes>>

Adding == pc = "add" \/ (pc = "read" /\ job.pending = {} /\ ~job.full)

\* add_chunks: the ids are new, nothing is replaced.
AddBatch ==
    /\ Adding /\ job.todo # <<>>
    /\ LET n     == IF Len(job.todo) < BatchSize THEN Len(job.todo) ELSE BatchSize
           batch == ToSet(SubSeq(job.todo, 1, n))
       IN  /\ index' = [c \in Chunks |-> IF c \in batch /\ index[c] < 2 THEN index[c] + 1 ELSE index[c]]
           /\ job' = [job EXCEPT !.todo = SubSeq(@, n + 1, Len(@))]
           /\ suspect' = suspect \cup {c[1] : c \in {b \in batch : b[1] \notin DOMAIN fp.docs}}
    /\ pc' = "add"
    /\ UNCHANGED <<disk, fp, memories, ready, flag, crashes, failures>>

\* save_fingerprint opens the file, which empties it, and then writes.
Truncate ==
    /\ Adding /\ job.todo = <<>>
    /\ pc' = "save" /\ fp' = Truncated
    /\ UNCHANGED <<disk, index, memories, ready, job, flag, crashes, failures, suspect>>

\* What the fingerprint is known not to describe when a job ends.
Unsure ==
    IF job.full
    THEN {d \in Docs : IF d \in DOMAIN job.cur THEN d \in job.missed \/ d \notin job.removed
                       ELSE ChunksOf(d) # {}}
    ELSE (job.before \ job.removed) \cup job.missed

Save_Wrong ==
    /\ pc = "save"
    /\ fp' = Saved(Fingerprint)
    /\ suspect' = Unsure
    /\ End(TRUE)
    /\ UNCHANGED <<disk, index, memories, flag, crashes, failures>>
Save ==
    /\ pc = "save"
    /\ fp' = Saved(job.cur)
    /\ suspect' = Unsure
    /\ End(TRUE)
    /\ UNCHANGED <<disk, index, memories, flag, crashes, failures>>

\* The embedding or an insertion raises.  A synchronisation falls back to a full
\* rebuild, once; then the request fails, or the agent does not start.
Fails ==
    /\ Adding /\ job.todo # <<>> /\ failures < MaxFailures
    /\ failures' = failures + 1
    /\ IF job.last THEN End(ready) ELSE Begin("list", FullRebuild(TRUE, job.cur)) /\ UNCHANGED ready
    /\ UNCHANGED <<disk, fp, index, memories, flag, crashes, suspect>>

-----------------------------------------------------------------------------
(* Files, memories, crashes and the system reset.                           *)

\* A document is uploaded or edited, or it is deleted.
Write(d) ==
    /\ disk[d].version < MaxVersion
    /\ disk' = [disk EXCEPT ![d] = [there |-> TRUE, version |-> @.version + 1]]
    /\ UNCHANGED <<fp, index, memories, pc, ready, job, flag, crashes, failures, suspect>>
Delete(d) ==
    /\ disk[d].there
    /\ disk' = [disk EXCEPT ![d].there = FALSE]
    /\ UNCHANGED <<fp, index, memories, pc, ready, job, flag, crashes, failures, suspect>>

\* add_episodic_memory, by the worker.
AddMemory ==
    /\ ready /\ pc # "off" /\ memories < MaxMemories
    /\ memories' = memories + 1
    /\ UNCHANGED <<disk, fp, index, pc, ready, job, flag, crashes, failures, suspect>>

\* The process stops: killed, or by /api/system/shutdown, which waits for nobody.
Crash ==
    /\ pc # "off" /\ crashes < MaxCrashes
    /\ crashes' = crashes + 1
    /\ pc' = "off" /\ ready' = FALSE /\ job' = NoJob
    /\ UNCHANGED <<disk, fp, index, memories, flag, failures, suspect>>

\* /api/system/reset: the flag is left, the process exits.
Reset ==
    /\ MayReset /\ pc = "idle" /\ ready /\ crashes < MaxCrashes
    /\ crashes' = crashes + 1
    /\ flag' = TRUE /\ pc' = "off" /\ ready' = FALSE
    /\ UNCHANGED <<disk, fp, index, memories, job, failures, suspect>>

\* consume_reset_flag_once at the first request of a process: each part may fail, the
\* flag goes when none did.
Boot ==
    /\ pc = "off" /\ pc' = "idle"
    /\ \E vectors \in BOOLEAN, print \in BOOLEAN, all \in BOOLEAN :
          /\ ~flag => ~vectors /\ ~print /\ all
          /\ flag /\ all => vectors /\ print
          /\ index' = IF vectors THEN [c \in Chunks |-> 0] ELSE index
          /\ memories' = IF vectors THEN 0 ELSE memories
          /\ fp' = IF print THEN NoFile ELSE fp
          /\ flag' = (flag /\ ~all)
          /\ suspect' = IF vectors \/ print THEN Docs ELSE suspect
    /\ UNCHANGED <<disk, ready, job, crashes, failures>>

Init ==
    /\ disk \in [Docs -> {[there |-> TRUE, version |-> 1], [there |-> FALSE, version |-> 0]}]
    /\ fp = NoFile
    /\ index = [c \in Chunks |-> 0] /\ memories = 0
    /\ pc = "idle" /\ ready = FALSE /\ job = NoJob /\ flag = FALSE
    /\ crashes = 0 /\ failures = 0
    /\ suspect = {}

Job   == Sync \/ SyncRaises \/ Rebuild
Work  == (\E d \in Docs : RemoveDoc(d) \/ ReadDoc(d)) \/ List \/ Replace \/ AddBatch \/ Truncate
            \/ Save \/ Fails
Users == (\E d \in Docs : Write(d) \/ Delete(d)) \/ AddMemory
Stops == Crash \/ Reset \/ Boot

Next == Job \/ Work \/ Users \/ Stops

Spec == Init /\ [][Next]_vars

-----------------------------------------------------------------------------
(* Properties.                                                              *)

\* Every variable has its type, and no chunk counter is above its cap.
TypeOK ==
    /\ disk \in [Docs -> [there : BOOLEAN, version : 0..MaxVersion]]
    /\ fp \in [kind : {"none", "corrupt", "saved"}, docs : Prints]
    /\ index \in [Chunks -> 0..2] /\ memories \in 0..MaxMemories
    /\ pc \in {"off", "idle", "failed", "remove", "list", "read", "add", "save"}
    /\ ready \in BOOLEAN /\ flag \in BOOLEAN
    /\ crashes \in 0..MaxCrashes /\ failures \in 0..MaxFailures
    /\ job \in [full : BOOLEAN, last : BOOLEAN, cur : Prints,
                pending : SUBSET Docs, todo : Seq(Chunks), missed : SUBSET Docs,
                removed : SUBSET Docs, before : SUBSET Docs]
    /\ suspect \in SUBSET Docs

\* What /api/kb/documents shows as "synced".
Recorded(d) == d \in DOMAIN fp.docs
Synced(d) == Recorded(d) /\ disk[d].there /\ fp.docs[d] = disk[d].version

Exactly(d, v) == \A c \in Chunks : c[1] = d => index[c] = IF c[2] = v THEN 1 ELSE 0
Wholly(d, v)  == \A c \in Chunks : c[1] = d /\ c[2] = v => index[c] > 0
AtMostOnce(d, v) == \A c \in Chunks : c[1] = d => index[c] <= IF c[2] = v THEN 1 ELSE 0

Rest == pc = "idle" /\ fp.kind # "corrupt"

\* Between two jobs, every document shown as synced is in the collection: each of its
\* chunks once, in the version that is on disk, and no chunk of another version.
\* Excepted are the documents of which the history says why not: recorded unread, read
\* unrecorded, or left behind by a process that stopped.
SyncedIsExact == Rest => \A d \in Docs \ suspect : Synced(d) => Exactly(d, disk[d].version)

\* Between two jobs the fingerprint is never ahead of the collection, so that the next
\* job sees every change it has to see: what is indexed of a document is one version, at
\* least as new as the recorded one, and nothing at all of a document not recorded.
RecordNotAhead ==
    Rest => \A d \in Docs \ suspect :
        \/ ChunksOf(d) = {}
        \/ Recorded(d) /\ \E v \in Versions : v >= fp.docs[d] /\ AtMostOnce(d, v)

\* A full rebuild heals: whatever happened before, it ends with each document it recorded
\* and could read indexed, as new as recorded, unless the file went meanwhile.  Where the old
\* chunks of the document could be dropped, each of the new ones is there once and no other.
RebuildHeals ==
    pc = "save" /\ job.full =>
        \A d \in DOMAIN job.cur \ job.missed :
            LET gone == disk[d] # [there |-> TRUE, version |-> job.cur[d]] IN
            /\ gone \/ \E v \in Versions : v >= job.cur[d] /\ Wholly(d, v)
            /\ d \in job.removed =>
                  \/ ChunksOf(d) = {} /\ gone
                  \/ \E v \in Versions : v >= job.cur[d] /\ Exactly(d, v)

-----------------------------------------------------------------------------
(* What the program says and does not keep.                                 *)

\* A document shown as synced (app.js:458) is searchable.
SyncedIsIndexed == Rest /\ ready => \A d \in Docs : Synced(d) => ChunksOf(d) # {}

\* A deleted document is searchable only until a synchronisation removes it: what is
\* neither on disk nor in the fingerprint, by which it would be removed, is not indexed.
RemovedIsGone ==
    Rest /\ ready => \A d \in Docs : ~disk[d].there /\ ~Recorded(d) => ChunksOf(d) = {}

\* The agent does not fail to start because of its own fingerprint file.
StartFallsBack == pc # "failed"
=============================================================================
