------------------------ MODULE KnowledgeBase_proofs ------------------------
(***************************************************************************)
(* What the fingerprint says of the collection, for any number of documents,*)
(* versions, parts, crashes and failures: the types, the invariant of a     *)
(* synchronisation and the three safety properties it carries.              *)
(***************************************************************************)
EXTENDS KnowledgeBase, SequenceTheorems, TLAPS

-----------------------------------------------------------------------------
(* Sequences.                                                               *)

LEMMA ToSetFacts ==
    ASSUME NEW S, NEW s \in Seq(S)
    PROVE  ToSet(s) \subseteq S /\ \A c : c \in ToSet(s) <=> \E i \in 1..Len(s) : s[i] = c
<1>1. s \in [1..Len(s) -> S] /\ DOMAIN s = 1..Len(s)
  BY LenProperties
<1> QED BY <1>1 DEF ToSet

\* The first n elements of a sequence without duplicates and the others.
LEMMA Cut ==
    ASSUME NEW S, NEW s \in Seq(S), IsInjective(s), NEW n \in 1..Len(s)
    PROVE  LET front == SubSeq(s, 1, n)
               rest  == SubSeq(s, n + 1, Len(s))
           IN  /\ front \in Seq(S) /\ rest \in Seq(S) /\ IsInjective(rest)
               /\ ToSet(front) \subseteq ToSet(s)
               /\ \A c \in ToSet(s) : c \in ToSet(rest) <=> c \notin ToSet(front)
               /\ ToSet(rest) \subseteq ToSet(s)
<1> DEFINE front == SubSeq(s, 1, n)
           rest  == SubSeq(s, n + 1, Len(s))
<1>1. Len(s) \in Nat /\ n \in Nat /\ n <= Len(s) /\ \A i \in 1..Len(s) : s[i] \in S
  BY LenProperties, ElementOfSeq
<1>2. /\ front \in Seq(S) /\ Len(front) = n
      /\ \A i \in 1..n : front[i] = s[i]
  BY <1>1, SubSeqProperties
<1>3. /\ rest \in Seq(S) /\ Len(rest) = Len(s) - n
      /\ \A i \in 1..(Len(s) - n) : rest[i] = s[n + i]
  BY <1>1, SubSeqProperties
<1> HIDE DEF front, rest
<1>4. \A i, j \in 1..Len(s) : s[i] = s[j] => i = j
  BY LenProperties DEF IsInjective
<1>5. IsInjective(rest)
  <2>1. DOMAIN rest = 1..(Len(s) - n)
    BY <1>3, LenProperties
  <2> SUFFICES ASSUME NEW i \in 1..(Len(s) - n), NEW j \in 1..(Len(s) - n), rest[i] = rest[j]
               PROVE  i = j
    BY <2>1 DEF IsInjective
  <2>2. n + i \in 1..Len(s) /\ n + j \in 1..Len(s) /\ s[n + i] = s[n + j]
    BY <1>1, <1>3
  <2>3. n + i = n + j
    BY <1>4, <2>2
  <2> QED BY <1>1, <2>3
<1>6. ToSet(front) \subseteq ToSet(s)
  <2> SUFFICES ASSUME NEW c \in ToSet(front) PROVE c \in ToSet(s)
    OBVIOUS
  <2>1. PICK i \in 1..n : front[i] = c
    BY <1>2, ToSetFacts
  <2> QED BY <1>1, <1>2, <2>1, ToSetFacts
<1>7. ASSUME NEW c \in ToSet(rest)
      PROVE  c \in ToSet(s) /\ c \notin ToSet(front)
  <2>1. PICK i \in 1..(Len(s) - n) : rest[i] = c
    BY <1>3, ToSetFacts
  <2>2. n + i \in 1..Len(s) /\ s[n + i] = c
    BY <1>1, <1>3, <2>1
  <2>3. ASSUME NEW j \in 1..n, front[j] = c PROVE FALSE
    <3>1. j \in 1..Len(s) /\ s[j] = c
      BY <1>1, <1>2, <2>3
    <3>2. j = n + i
      BY <1>4, <2>2, <3>1
    <3> QED BY <1>1, <3>2
  <2> QED BY <1>2, <2>2, <2>3, ToSetFacts
<1>8. ASSUME NEW c \in ToSet(s), c \notin ToSet(front)
      PROVE  c \in ToSet(rest)
  <2>1. PICK i \in 1..Len(s) : s[i] = c
    BY ToSetFacts
  <2>2. ~(i <= n)
    BY <1>1, <1>2, <1>8, <2>1, ToSetFacts
  <2>3. i - n \in 1..(Len(s) - n) /\ n + (i - n) = i
    BY <1>1, <2>2
  <2>4. rest[i - n] = c
    BY <1>3, <2>1, <2>3
  <2> QED BY <1>3, <2>3, <2>4, ToSetFacts
<1> QED BY <1>2, <1>3, <1>5, <1>6, <1>7, <1>8 DEF front, rest

\* Two sequences without duplicates and without a common element, one after the other.
LEMMA Join ==
    ASSUME NEW S, NEW s \in Seq(S), NEW t \in Seq(S), IsInjective(s), IsInjective(t),
           \A c \in ToSet(s) : c \notin ToSet(t)
    PROVE  /\ s \o t \in Seq(S) /\ IsInjective(s \o t)
           /\ \A c : c \in ToSet(s \o t) <=> c \in ToSet(s) \/ c \in ToSet(t)
<1> DEFINE u == s \o t
<1>1. Len(s) \in Nat /\ Len(t) \in Nat
  BY LenProperties
<1>2. /\ u \in Seq(S) /\ Len(u) = Len(s) + Len(t)
      /\ \A i \in 1..(Len(s) + Len(t)) : u[i] = IF i <= Len(s) THEN s[i] ELSE t[i - Len(s)]
  BY ConcatProperties
<1> HIDE DEF u
<1>3. /\ \A i, j \in 1..Len(s) : s[i] = s[j] => i = j
      /\ \A i, j \in 1..Len(t) : t[i] = t[j] => i = j
  BY LenProperties DEF IsInjective
<1>4. ASSUME NEW i \in 1..Len(u)
      PROVE  \/ i \in 1..Len(s) /\ u[i] = s[i] /\ u[i] \in ToSet(s)
             \/ i - Len(s) \in 1..Len(t) /\ u[i] = t[i - Len(s)] /\ u[i] \in ToSet(t)
  <2>1. CASE i <= Len(s)
    <3>1. i \in 1..Len(s) /\ u[i] = s[i]
      BY <1>1, <1>2, <2>1
    <3> QED BY <3>1, ToSetFacts
  <2>2. CASE ~(i <= Len(s))
    <3>1. i - Len(s) \in 1..Len(t) /\ u[i] = t[i - Len(s)]
      BY <1>1, <1>2, <2>2
    <3> QED BY <3>1, ToSetFacts
  <2> QED BY <2>1, <2>2
<1>5. IsInjective(u)
  <2>1. DOMAIN u = 1..Len(u)
    BY <1>2, LenProperties
  <2> SUFFICES ASSUME NEW i \in 1..Len(u), NEW j \in 1..Len(u), u[i] = u[j] PROVE i = j
    BY <2>1 DEF IsInjective
  <2>2. CASE i \in 1..Len(s) /\ u[i] = s[i] /\ u[i] \in ToSet(s)
    <3>1. j \in 1..Len(s) /\ u[j] = s[j]
      BY <1>4, <2>2
    <3> QED BY <1>3, <2>2, <3>1
  <2>3. CASE i - Len(s) \in 1..Len(t) /\ u[i] = t[i - Len(s)] /\ u[i] \in ToSet(t)
    <3>1. j - Len(s) \in 1..Len(t) /\ u[j] = t[j - Len(s)]
      BY <1>4, <2>3
    <3>2. i - Len(s) = j - Len(s)
      BY <1>3, <2>3, <3>1
    <3> QED BY <1>1, <1>2, <3>2
  <2> QED BY <1>4, <2>2, <2>3
<1>6. ASSUME NEW c, c \in ToSet(s) \/ c \in ToSet(t) PROVE c \in ToSet(u)
  <2>1. CASE c \in ToSet(s)
    <3>1. PICK i \in 1..Len(s) : s[i] = c
      BY <2>1, ToSetFacts
    <3>2. i \in 1..Len(u) /\ u[i] = c
      BY <1>1, <1>2, <3>1
    <3> QED BY <1>2, <3>2, ToSetFacts
  <2>2. CASE c \in ToSet(t)
    <3>1. PICK i \in 1..Len(t) : t[i] = c
      BY <2>2, ToSetFacts
    <3>2. /\ Len(s) + i \in 1..Len(u) /\ ~(Len(s) + i <= Len(s))
          /\ (Len(s) + i) - Len(s) = i
      BY <1>1, <1>2
    <3>3. u[Len(s) + i] = c
      BY <1>2, <3>1, <3>2
    <3> QED BY <1>2, <3>2, <3>3, ToSetFacts
  <2> QED BY <1>6, <2>1, <2>2
<1>7. ASSUME NEW c \in ToSet(u) PROVE c \in ToSet(s) \/ c \in ToSet(t)
  <2>1. PICK i \in 1..Len(u) : u[i] = c
    BY <1>2, ToSetFacts
  <2> QED BY <1>4, <2>1
<1> QED BY <1>2, <1>5, <1>6, <1>7 DEF u

\* The chunks of one version of a document.
ChunkList(d, v) == [p \in 1..Parts |-> <<d, v, p>>]

LEMMA ChunkListFacts ==
    ASSUME NEW d \in Docs, NEW v \in Versions
    PROVE  /\ ChunkList(d, v) \in Seq(Chunks) /\ IsInjective(ChunkList(d, v))
           /\ \A c \in Chunks : c \in ToSet(ChunkList(d, v)) <=> c[1] = d /\ c[2] = v
<1>1. Parts \in Nat
  BY KBAssumption
<1>2. \A p \in 1..Parts : <<d, v, p>> \in Chunks
  BY DEF Chunks
<1>3. ChunkList(d, v) \in Seq(Chunks) /\ Len(ChunkList(d, v)) = Parts
  <2>1. ChunkList(d, v) \in [1..Parts -> Chunks]
    BY <1>2 DEF ChunkList
  <2>2. ChunkList(d, v) \in Seq(Chunks)
    BY <1>1, <2>1, SeqDef
  <2> QED BY <1>1, <2>1, <2>2, LenProperties
<1>4. IsInjective(ChunkList(d, v))
  BY DEF IsInjective, ChunkList
<1>5. ASSUME NEW c \in Chunks
      PROVE  c \in ToSet(ChunkList(d, v)) <=> c[1] = d /\ c[2] = v
  <2>1. c = <<c[1], c[2], c[3]>> /\ c[3] \in 1..Parts
    BY DEF Chunks
  <2>2. c \in ToSet(ChunkList(d, v)) <=> \E p \in 1..Parts : ChunkList(d, v)[p] = c
    BY <1>3, ToSetFacts
  <2>3. \A p \in 1..Parts : ChunkList(d, v)[p] = <<d, v, p>>
    BY DEF ChunkList
  <2> QED BY <2>1, <2>2, <2>3
<1> QED BY <1>3, <1>4, <1>5

-----------------------------------------------------------------------------
(* Types.                                                                   *)

DiskType == [Docs -> [there : BOOLEAN, version : 0..MaxVersion]]
PrintType == [kind : {"none", "corrupt", "saved"}, docs : Prints]
JobType == [full : BOOLEAN, last : BOOLEAN, cur : Prints, pending : SUBSET Docs, todo : Seq(Chunks),
            missed : SUBSET Docs, removed : SUBSET Docs, before : SUBSET Docs]
Places == {"off", "idle", "failed", "remove", "list", "read", "add", "save"}

\* No record is of a version its document never had.
NotNewer(p) == \A d \in DOMAIN p : p[d] <= disk[d].version

\* A file that is there has a version; neither record is ahead of the files.
Types ==
    /\ TypeOK
    /\ \A d \in Docs : disk[d].there => disk[d].version > 0
    /\ NotNewer(fp.docs) /\ NotNewer(job.cur)

LEMMA TypesGive ==
    ASSUME Types
    PROVE  /\ disk \in DiskType /\ fp \in PrintType /\ job \in JobType /\ suspect \subseteq Docs
           /\ index \in [Chunks -> 0..2] /\ pc \in Places
           /\ memories \in 0..MaxMemories /\ ready \in BOOLEAN /\ flag \in BOOLEAN
           /\ crashes \in 0..MaxCrashes /\ failures \in 0..MaxFailures
BY DEF Types, TypeOK, DiskType, PrintType, JobType, Places

LEMMA PrintFacts ==
    ASSUME NEW p \in Prints
    PROVE  DOMAIN p \subseteq Docs /\ \A d \in DOMAIN p : p[d] \in Versions
BY DEF Prints

LEMMA NoPrintFacts == NoPrint \in Prints /\ DOMAIN NoPrint = {}
<1>1. DOMAIN NoPrint = {} /\ NoPrint \in [{} -> Versions]
  BY DEF NoPrint
<1> QED BY <1>1 DEF Prints

LEMMA FingerprintFacts ==
    ASSUME Types
    PROVE  /\ Fingerprint \in Prints /\ DOMAIN Fingerprint = Present /\ Present \subseteq Docs
           /\ \A d \in Present : Fingerprint[d] = disk[d].version /\ disk[d].version \in Versions
<1>1. Present \subseteq Docs /\ DOMAIN Fingerprint = Present
  BY DEF Present, Fingerprint
<1>2. \A d \in Present : Fingerprint[d] = disk[d].version
  BY DEF Fingerprint
<1>3. ASSUME NEW d \in Present
      PROVE  disk[d].version \in Versions
  <2>1. disk[d].version \in 0..MaxVersion /\ disk[d].version > 0 /\ MaxVersion \in Nat
    BY <1>1, <1>3, TypesGive, KBAssumption DEF DiskType, Present, Types
  <2> QED BY <2>1 DEF Versions
<1>4. Fingerprint \in [Present -> Versions]
  BY <1>2, <1>3 DEF Fingerprint
<1> QED BY <1>1, <1>2, <1>3, <1>4 DEF Prints

LEMMA NoJobTyped == NoJob \in JobType /\ NoJob.cur = NoPrint
<1>1. <<>> \in Seq(Chunks)
  BY EmptySeq
<1> QED BY <1>1, NoPrintFacts DEF NoJob, JobType

\* The record of a new job: a full rebuild or not, of what fingerprint, with the documents to
\* remove first and those in doubt before it.
Starts(full, cur, gone, b) ==
    \E last \in BOOLEAN :
        job' = [full |-> full, last |-> last, cur |-> cur, pending |-> gone, todo |-> <<>>,
                missed |-> {}, removed |-> gone, before |-> b]

LEMMA StartFacts ==
    ASSUME NEW full \in BOOLEAN, NEW cur \in Prints, NEW gone \in SUBSET Docs, NEW b \in SUBSET Docs,
           Starts(full, cur, gone, b)
    PROVE  /\ job' \in JobType /\ job'.full = full /\ job'.cur = cur /\ job'.todo = <<>>
           /\ job'.pending = gone /\ job'.missed = {} /\ job'.removed = gone /\ job'.before = b
<1>1. PICK last \in BOOLEAN :
        job' = [full |-> full, last |-> last, cur |-> cur, pending |-> gone, todo |-> <<>>,
                missed |-> {}, removed |-> gone, before |-> b]
  BY DEF Starts
<1>2. <<>> \in Seq(Chunks) /\ {} \in SUBSET Docs
  BY EmptySeq
<1>3. job' \in JobType
  BY <1>1, <1>2 DEF JobType
<1> QED BY <1>1, <1>3

LEMMA FullStarts ==
    ASSUME NEW last \in BOOLEAN, NEW cur, Begin("list", FullRebuild(last, cur))
    PROVE  pc' = "list" /\ Starts(TRUE, cur, {}, suspect)
<1>1. job' = [full |-> TRUE, last |-> last, cur |-> cur, pending |-> {}, todo |-> <<>>,
              missed |-> {}, removed |-> {}, before |-> suspect]
  BY DEF Begin, FullRebuild, NoJob
<1> QED BY <1>1 DEF Begin, Starts

\* Where nothing of the disk or of the two records changes, their order stays.
LEMMA Ordered ==
    ASSUME Types, TypeOK', disk' = disk,
           fp' = fp \/ NotNewer(fp'.docs), job'.cur = job.cur \/ NotNewer(job'.cur)
    PROVE  Types'
<1>1. NotNewer(fp'.docs) /\ NotNewer(job'.cur)
  BY DEF Types
<1> QED BY <1>1 DEF Types, NotNewer

LEMMA InitTypes == Init => Types
<1> SUFFICES ASSUME Init PROVE Types
  OBVIOUS
<1>1. /\ disk \in [Docs -> {[there |-> TRUE, version |-> 1], [there |-> FALSE, version |-> 0]}]
      /\ MaxVersion \in Nat \ {0} /\ MaxMemories \in Nat /\ MaxCrashes \in Nat /\ MaxFailures \in Nat
  BY KBAssumption DEF Init
<1>2. disk \in DiskType /\ \A d \in Docs : disk[d].there => disk[d].version > 0
  <2>1. \A d \in Docs : /\ disk[d] \in [there : BOOLEAN, version : 0..MaxVersion]
                        /\ disk[d].there => disk[d].version > 0
    <3> TAKE d \in Docs
    <3>1. \/ disk[d] = [there |-> TRUE, version |-> 1]
          \/ disk[d] = [there |-> FALSE, version |-> 0]
      BY <1>1
    <3>2. CASE disk[d] = [there |-> TRUE, version |-> 1]
      BY <1>1, <3>2
    <3>3. CASE disk[d] = [there |-> FALSE, version |-> 0]
      BY <1>1, <3>3
    <3> QED BY <3>1, <3>2, <3>3
  <2>2. disk = [d \in Docs |-> disk[d]]
    BY <1>1
  <2> QED BY <2>1, <2>2 DEF DiskType
<1>3. fp \in PrintType /\ fp.docs = NoPrint
  BY NoPrintFacts DEF Init, NoFile, PrintType
<1>4. job \in JobType /\ job.cur = NoPrint
  BY NoJobTyped DEF Init
<1>5. TypeOK
  <2>1. /\ index \in [Chunks -> 0..2] /\ memories \in 0..MaxMemories /\ crashes \in 0..MaxCrashes
        /\ failures \in 0..MaxFailures
    BY <1>1 DEF Init
  <2>2. pc \in Places /\ ready \in BOOLEAN /\ flag \in BOOLEAN /\ suspect \in SUBSET Docs
    BY DEF Init, Places
  <2> QED BY <1>2, <1>3, <1>4, <2>1, <2>2 DEF TypeOK, DiskType, PrintType, JobType, Places
<1>6. NotNewer(fp.docs) /\ NotNewer(job.cur)
  BY <1>3, <1>4, NoPrintFacts DEF NotNewer
<1> QED BY <1>2, <1>5, <1>6 DEF Types

\* A step that leaves most of it alone.
LEMMA Assemble ==
    ASSUME Types, disk' \in DiskType, fp' \in PrintType, job' \in JobType,
           index' \in [Chunks -> 0..2], pc' \in Places, suspect' \subseteq Docs,
           memories' \in 0..MaxMemories, ready' \in BOOLEAN, flag' \in BOOLEAN,
           crashes' \in 0..MaxCrashes, failures' \in 0..MaxFailures
    PROVE  TypeOK'
BY DEF TypeOK, DiskType, PrintType, JobType, Places

LEMMA EndTypes ==
    ASSUME NEW r \in BOOLEAN, End(r)
    PROVE  pc' = "idle" /\ job' \in JobType /\ job'.cur = NoPrint /\ ready' \in BOOLEAN
BY NoJobTyped DEF End

\* What Sync begins: nothing, a full rebuild, a difference to apply, or a record to write.
LEMMA SyncFacts ==
    ASSUME Types, Sync
    PROVE  /\ UNCHANGED <<disk, fp, index, memories, flag, crashes, failures>>
           /\ ready' \in BOOLEAN /\ pc' \in Places /\ job' \in JobType /\ fp.kind # "corrupt"
           /\ \/ pc' = "idle" /\ suspect' = suspect /\ job'.cur = NoPrint
              \/ /\ pc' = "list" /\ job'.full /\ job'.cur = Fingerprint /\ suspect' = suspect
                 /\ job'.todo = <<>> /\ job'.missed = {} /\ job'.pending = {}
              \/ /\ pc' = "remove" /\ ~job'.full /\ job'.cur = Fingerprint /\ suspect' = suspect
                 /\ job'.pending = Removed(Fingerprint, fp.docs) \cup Updated(Fingerprint, fp.docs)
                 /\ job'.removed = job'.pending /\ job'.before = suspect
                 /\ job'.todo = <<>> /\ job'.missed = {}
              \/ /\ pc' = "add" /\ ~job'.full /\ job'.cur = Fingerprint /\ suspect' = Docs
                 /\ fp.docs = NoPrint /\ job'.before = Docs /\ job'.removed = {}
                 /\ job'.pending = {} /\ job'.todo = <<>> /\ job'.missed = {}
<1>1. /\ UNCHANGED <<disk, fp, index, memories, flag, crashes, failures>> /\ fp.kind # "corrupt"
      /\ ready \in BOOLEAN /\ suspect \in SUBSET Docs /\ Fingerprint \in Prints
      /\ fp.docs \in Prints
  BY TypesGive, FingerprintFacts DEF Sync, PrintType
<1>2. CASE Begin("list", FullRebuild(FALSE, Fingerprint)) /\ UNCHANGED <<ready, suspect>>
  <2>1. /\ pc' = "list" /\ job' \in JobType /\ job'.full = TRUE /\ job'.cur = Fingerprint
        /\ job'.todo = <<>> /\ job'.pending = {} /\ job'.missed = {}
    BY <1>1, <1>2, FullStarts, StartFacts
  <2> QED BY <1>1, <1>2, <2>1 DEF Places
<1>3. CASE /\ fp.docs = NoPrint /\ suspect' = Docs /\ UNCHANGED ready
           /\ pc' = "add" /\ job' = [NoJob EXCEPT !.cur = Fingerprint, !.before = Docs]
  <2>1. /\ job' \in JobType /\ job'.full = FALSE /\ job'.cur = Fingerprint /\ job'.todo = <<>>
        /\ job'.pending = {} /\ job'.missed = {} /\ job'.removed = {} /\ job'.before = Docs
    <3>1. Starts(FALSE, Fingerprint, {}, Docs)
      BY <1>3 DEF Starts, NoJob
    <3> QED BY <1>1, <3>1, StartFacts
  <2> QED BY <1>1, <1>3, <2>1 DEF Places
<1>4. CASE Incremental(Fingerprint) /\ UNCHANGED suspect
  <2> DEFINE gone == Removed(Fingerprint, fp.docs) \cup Updated(Fingerprint, fp.docs)
  <2>1. gone \in SUBSET Docs
    BY <1>1, PrintFacts DEF Removed, Updated
  <2>2. CASE End(TRUE)
    BY <1>1, <1>4, <2>2, EndTypes DEF Places
  <2>3. CASE /\ Begin("remove", [NoJob EXCEPT !.cur = Fingerprint, !.pending = gone, !.removed = gone])
             /\ UNCHANGED ready
    <3>1. pc' = "remove" /\ Starts(FALSE, Fingerprint, gone, suspect)
      BY <2>3 DEF Begin, Starts, NoJob
    <3> HIDE DEF gone
    <3>2. /\ job' \in JobType /\ job'.full = FALSE /\ job'.cur = Fingerprint /\ job'.todo = <<>>
          /\ job'.pending = gone /\ job'.missed = {} /\ job'.removed = gone /\ job'.before = suspect
      BY <1>1, <2>1, <3>1, StartFacts
    <3> QED BY <1>1, <1>4, <2>3, <3>1, <3>2 DEF gone, Places
  <2> QED BY <1>4, <2>2, <2>3 DEF Incremental
<1> QED BY <1>2, <1>3, <1>4 DEF Sync

LEMMA JobTypes ==
    ASSUME Types, Job
    PROVE  Types'
<1>1. CASE Sync
  <2>1. TypeOK'
    BY <1>1, SyncFacts, TypesGive, Assemble
  <2>2. job'.cur \in {NoPrint, Fingerprint}
    BY <1>1, SyncFacts
  <2>3. NotNewer(job'.cur)
    BY <2>2, FingerprintFacts, NoPrintFacts, TypesGive, KBAssumption DEF NotNewer, Versions, DiskType
  <2> QED BY <1>1, <2>1, <2>3, SyncFacts, Ordered
<1>2. CASE SyncRaises
  <2>1. TypeOK'
    BY <1>2, TypesGive, Assemble DEF SyncRaises, Places
  <2> QED BY <1>2, <2>1, Ordered DEF SyncRaises
<1>3. CASE Rebuild
  <2>1. /\ pc' = "list" /\ Starts(TRUE, Fingerprint, {}, suspect)
        /\ UNCHANGED <<disk, fp, index, memories, ready, flag, crashes, failures, suspect>>
    BY <1>3, FullStarts DEF Rebuild
  <2>2. job' \in JobType /\ job'.cur = Fingerprint
    <3>1. suspect \in SUBSET Docs /\ Fingerprint \in Prints
      BY TypesGive, FingerprintFacts
    <3> QED BY <2>1, <3>1, StartFacts
  <2>3. TypeOK'
    BY <2>1, <2>2, TypesGive, Assemble DEF Places
  <2>4. NotNewer(job'.cur)
    BY <2>2, FingerprintFacts, TypesGive, KBAssumption DEF NotNewer, Versions, DiskType
  <2> QED BY <2>1, <2>3, <2>4, Ordered
<1> QED BY <1>1, <1>2, <1>3 DEF Job

\* What a step leaves of its job.
SameJob ==
    /\ job'.full = job.full /\ job'.cur = job.cur /\ job'.removed = job.removed
    /\ job'.before = job.before

LEMMA RemoveFacts ==
    ASSUME Types, NEW d \in Docs, RemoveDoc(d)
    PROVE  /\ pc = "remove" /\ d \in job.pending /\ SameJob /\ job' \in JobType
           /\ job'.pending = job.pending \ {d} /\ job'.todo = job.todo /\ job'.missed = job.missed
           /\ index' = [c \in Chunks |-> IF c[1] = d THEN 0 ELSE index[c]]
           /\ UNCHANGED <<disk, fp, memories, pc, ready, flag, crashes, failures, suspect>>
<1>1. job' = [job EXCEPT !.pending = @ \ {d}] /\ job \in JobType
  BY TypesGive DEF RemoveDoc
<1>2. job' \in JobType
  BY <1>1 DEF JobType
<1> QED BY <1>1, <1>2 DEF RemoveDoc, JobType, SameJob

LEMMA ListFacts ==
    ASSUME Types, List
    PROVE  /\ pc = "list" \/ (pc = "remove" /\ job.pending = {})
           /\ pc' = "read" /\ SameJob /\ job' \in JobType
           /\ job'.pending = ToLoad /\ job'.todo = job.todo /\ job'.missed = job.missed
           /\ UNCHANGED <<disk, fp, index, memories, ready, flag, crashes, failures, suspect>>
<1>1. job' = [job EXCEPT !.pending = ToLoad] /\ job \in JobType
  BY TypesGive DEF List
<1>2. ToLoad \in SUBSET Docs
  BY DEF ToLoad, Present
<1>3. job' \in JobType
  BY <1>1, <1>2 DEF JobType
<1> QED BY <1>1, <1>3 DEF List, JobType, SameJob

\* A file is read: its chunks follow the others.
LEMMA ReadFacts ==
    ASSUME Types, NEW d \in Docs, ReadDoc(d), IsInjective(job.todo),
           \A c \in ToSet(job.todo) : c[1] # d
    PROVE  /\ pc = "read" /\ d \in job.pending /\ SameJob /\ job' \in JobType
           /\ job'.pending = job.pending \ {d} /\ IsInjective(job'.todo)
           /\ UNCHANGED <<disk, fp, index, memories, pc, ready, flag, crashes, failures, suspect>>
           /\ \/ /\ disk[d].there /\ job'.missed = job.missed
                 /\ \A c \in Chunks : c \in ToSet(job'.todo) <=>
                       c \in ToSet(job.todo) \/ (c[1] = d /\ c[2] = disk[d].version)
              \/ job'.missed = job.missed \cup {d} /\ job'.todo = job.todo
<1>1. job \in JobType /\ job.todo \in Seq(Chunks)
  BY TypesGive DEF JobType
<1>2. CASE /\ disk[d].there
           /\ job' = [job EXCEPT !.pending = @ \ {d}, !.todo = @ \o ChunkList(d, disk[d].version)]
  <2> DEFINE new == ChunkList(d, disk[d].version)
  <2>1. disk[d].version \in Versions
    BY <1>2, FingerprintFacts DEF Present
  <2>2. /\ new \in Seq(Chunks) /\ IsInjective(new)
        /\ \A c \in Chunks : c \in ToSet(new) <=> c[1] = d /\ c[2] = disk[d].version
    BY <2>1, ChunkListFacts
  <2> HIDE DEF new
  <2>3. \A c \in ToSet(job.todo) : c \in Chunks /\ c \notin ToSet(new)
    BY <1>1, <2>2, ToSetFacts
  <2>4. /\ job.todo \o new \in Seq(Chunks) /\ IsInjective(job.todo \o new)
        /\ \A c : c \in ToSet(job.todo \o new) <=> c \in ToSet(job.todo) \/ c \in ToSet(new)
    BY <1>1, <2>2, <2>3, Join
  <2>5. job' = [job EXCEPT !.pending = job.pending \ {d}, !.todo = job.todo \o new]
    BY <1>1, <1>2 DEF new, JobType
  <2>6. job' \in JobType
    BY <1>1, <2>4, <2>5 DEF JobType
  <2>7. job'.todo = job.todo \o new /\ job'.pending = job.pending \ {d} /\ SameJob
        /\ job'.missed = job.missed
    BY <1>1, <2>5 DEF JobType, SameJob
  <2>8. IsInjective(job'.todo) /\ \A c \in Chunks : c \in ToSet(job'.todo) <=>
                       c \in ToSet(job.todo) \/ (c[1] = d /\ c[2] = disk[d].version)
    BY <2>2, <2>4, <2>7
  <2> QED BY <1>2, <2>6, <2>7, <2>8 DEF ReadDoc
<1>3. CASE job' = [job EXCEPT !.pending = @ \ {d}, !.missed = @ \cup {d}]
  <2>1. job' \in JobType
    BY <1>1, <1>3 DEF JobType
  <2> QED BY <1>1, <1>3, <2>1 DEF JobType, SameJob, ReadDoc
<1> QED BY <1>2, <1>3 DEF ReadDoc, ChunkList

LEMMA NoChunks ==
    ASSUME Types, NEW d
    PROVE  ChunksOf(d) = {} <=> \A c \in Chunks : c[1] = d => index[c] = 0
<1>1. \A c \in Chunks : index[c] \in 0..2
  BY TypesGive
<1> QED BY <1>1 DEF ChunksOf

\* The collection is dropped or kept; the job notes which documents it left without a chunk.
LEMMA ReplaceFacts ==
    ASSUME Types, Replace
    PROVE  /\ pc = "read" /\ job.pending = {} /\ job.full /\ pc' = "add" /\ suspect' = Docs
           /\ job' \in JobType /\ job'.full = job.full /\ job'.cur = job.cur
           /\ job'.pending = job.pending /\ job'.todo = job.todo /\ job'.missed = job.missed
           /\ \A d \in job'.removed : \A c \in Chunks : c[1] = d => index'[c] = 0
           /\ index' \in [Chunks -> 0..2] /\ memories' \in 0..MaxMemories
           /\ failures' \in 0..MaxFailures
           /\ UNCHANGED <<disk, fp, ready, flag, crashes>>
<1>1. /\ job \in JobType /\ index \in [Chunks -> 0..2] /\ memories \in 0..MaxMemories
      /\ failures \in 0..MaxFailures /\ MaxFailures \in Nat /\ MaxMemories \in Nat
  BY TypesGive, KBAssumption
<1>2. PICK gone \in SUBSET Docs :
        /\ job' = [job EXCEPT !.removed = gone]
        /\ \A d \in gone : \A c \in Chunks : c[1] = d => index'[c] = 0
        /\ index' \in [Chunks -> 0..2] /\ memories' \in 0..MaxMemories
        /\ failures' \in 0..MaxFailures
  <2>1. CASE /\ index' = [c \in Chunks |-> 0] /\ memories' = 0 /\ failures' = failures
             /\ job' = [job EXCEPT !.removed = Docs]
    BY <1>1, <2>1
  <2>2. CASE /\ failures < MaxFailures /\ failures' = failures + 1
             /\ job' = [job EXCEPT !.removed = {d \in Docs : ChunksOf(d) = {}}]
             /\ UNCHANGED <<index, memories>>
    <3> DEFINE gone == {d \in Docs : ChunksOf(d) = {}}
    <3>1. \A d \in gone : \A c \in Chunks : c[1] = d => index[c] = 0
      BY NoChunks
    <3>2. gone \in SUBSET Docs /\ job' = [job EXCEPT !.removed = gone]
      BY <2>2
    <3>3. failures' \in 0..MaxFailures
      BY <1>1, <2>2
    <3> HIDE DEF gone
    <3> QED BY <1>1, <2>2, <3>1, <3>2, <3>3
  <2> QED BY <2>1, <2>2 DEF Replace
<1>3. job' \in JobType /\ job'.removed = gone
  BY <1>1, <1>2 DEF JobType
<1>4. /\ job'.full = job.full /\ job'.cur = job.cur /\ job'.pending = job.pending
      /\ job'.todo = job.todo /\ job'.missed = job.missed
  BY <1>1, <1>2 DEF JobType
<1> QED BY <1>2, <1>3, <1>4 DEF Replace

\* A batch goes to the collection: the chunks of the batch, none of which is queued twice.
LEMMA AddFacts ==
    ASSUME Types, AddBatch, IsInjective(job.todo)
    PROVE  \E batch \in SUBSET ToSet(job.todo) :
           /\ Adding /\ pc' = "add" /\ SameJob /\ job' \in JobType
           /\ job'.pending = job.pending /\ job'.missed = job.missed /\ IsInjective(job'.todo)
           /\ ToSet(job'.todo) \subseteq ToSet(job.todo)
           /\ \A c \in ToSet(job.todo) : c \in ToSet(job'.todo) <=> c \notin batch
           /\ index' \in [Chunks -> 0..2]
           /\ \A c \in Chunks : index'[c] = IF c \in batch /\ index[c] < 2 THEN index[c] + 1 ELSE index[c]
           /\ suspect \subseteq suspect' /\ suspect' \subseteq Docs
           /\ \A d \in suspect' \ suspect : d \notin DOMAIN fp.docs
           /\ \A c \in batch : c[1] \in DOMAIN fp.docs \cup suspect'
           /\ UNCHANGED <<disk, fp, memories, ready, flag, crashes, failures>>
<1> DEFINE n == IF Len(job.todo) < BatchSize THEN Len(job.todo) ELSE BatchSize
           batch == ToSet(SubSeq(job.todo, 1, n))
           rest == SubSeq(job.todo, n + 1, Len(job.todo))
<1>1. job \in JobType /\ job.todo \in Seq(Chunks) /\ job.todo # <<>> /\ Len(job.todo) \in Nat
      /\ index \in [Chunks -> 0..2] /\ suspect \subseteq Docs
  BY TypesGive, LenProperties DEF AddBatch, JobType
<1>2. n \in 1..Len(job.todo)
  <2>1. Len(job.todo) # 0
    BY <1>1, EmptySeq
  <2> QED BY <1>1, <2>1, KBAssumption
<1> HIDE DEF n
<1>3. /\ rest \in Seq(Chunks) /\ IsInjective(rest) /\ batch \subseteq ToSet(job.todo)
      /\ \A c \in ToSet(job.todo) : c \in ToSet(rest) <=> c \notin batch
      /\ ToSet(rest) \subseteq ToSet(job.todo)
  BY <1>1, <1>2, Cut
<1>4. /\ index' = [c \in Chunks |-> IF c \in batch /\ index[c] < 2 THEN index[c] + 1 ELSE index[c]]
      /\ job' = [job EXCEPT !.todo = SubSeq(@, n + 1, Len(@))]
      /\ suspect' = suspect \cup {c[1] : c \in {b \in batch : b[1] \notin DOMAIN fp.docs}}
      /\ pc' = "add" /\ Adding
      /\ UNCHANGED <<disk, fp, memories, ready, flag, crashes, failures>>
  BY DEF AddBatch, n
<1>5. job' = [job EXCEPT !.todo = rest]
  BY <1>1, <1>4 DEF JobType
<1> HIDE DEF batch, rest
<1>6. job' \in JobType
  BY <1>1, <1>3, <1>5 DEF JobType
<1>7. job'.todo = rest /\ job'.pending = job.pending /\ job'.missed = job.missed /\ SameJob
  BY <1>1, <1>5 DEF JobType, SameJob
<1>8. index' \in [Chunks -> 0..2]
      /\ \A c \in Chunks : index'[c] = IF c \in batch /\ index[c] < 2 THEN index[c] + 1 ELSE index[c]
  <2>1. \A c \in Chunks : (IF c \in batch /\ index[c] < 2 THEN index[c] + 1 ELSE index[c]) \in 0..2
    BY <1>1
  <2> QED BY <1>4, <2>1
<1>9. /\ suspect \subseteq suspect' /\ suspect' \subseteq Docs
      /\ \A d \in suspect' \ suspect : d \notin DOMAIN fp.docs
      /\ \A c \in batch : c[1] \in DOMAIN fp.docs \cup suspect'
  <2>1. \A c \in batch : c \in Chunks /\ c[1] \in Docs
    BY <1>1, <1>3, ToSetFacts DEF Chunks
  <2> QED BY <1>1, <1>4, <2>1
<1> QED BY <1>3, <1>4, <1>6, <1>7, <1>8, <1>9

\* Chunks that cannot be added: a first failure leads to a full rebuild of the same files.
LEMMA FailsFacts ==
    ASSUME Types, Fails
    PROVE  /\ Adding /\ pc' \in {"list", "idle"} /\ job' \in JobType /\ ready' \in BOOLEAN
           /\ failures' \in 0..MaxFailures
           /\ job'.cur \in {job.cur, NoPrint}
           /\ pc' = "list" => /\ job'.full /\ job'.cur = job.cur /\ job'.todo = <<>>
                              /\ job'.missed = {} /\ job'.pending = {}
           /\ UNCHANGED <<disk, fp, index, memories, flag, crashes, suspect>>
<1>1. /\ job \in JobType /\ ready \in BOOLEAN /\ failures \in 0..MaxFailures /\ MaxFailures \in Nat
      /\ suspect \in SUBSET Docs
  BY TypesGive, KBAssumption
<1>2. job.cur \in Prints /\ failures' \in 0..MaxFailures
  BY <1>1 DEF JobType, Fails
<1>3. CASE job.last
  <2>1. End(ready)
    BY <1>3 DEF Fails
  <2>2. pc' = "idle" /\ job' \in JobType /\ job'.cur = NoPrint /\ ready' \in BOOLEAN
    BY <1>1, <2>1, EndTypes
  <2> QED BY <1>2, <2>2 DEF Fails
<1>4. CASE ~job.last
  <2>1. Begin("list", FullRebuild(TRUE, job.cur)) /\ UNCHANGED ready
    BY <1>4 DEF Fails
  <2>2. pc' = "list" /\ Starts(TRUE, job.cur, {}, suspect)
    BY <2>1, FullStarts
  <2>3. /\ job' \in JobType /\ job'.full = TRUE /\ job'.cur = job.cur /\ job'.todo = <<>>
        /\ job'.pending = {} /\ job'.missed = {}
    <3>1. PICK cur \in Prints : cur = job.cur
      BY <1>2
    <3>2. Starts(TRUE, cur, {}, suspect)
      BY <2>2, <3>1
    <3>3. /\ job' \in JobType /\ job'.full = TRUE /\ job'.cur = cur /\ job'.todo = <<>>
          /\ job'.pending = {} /\ job'.missed = {}
      BY <1>1, <3>2, StartFacts
    <3> QED BY <3>1, <3>3
  <2> QED BY <1>1, <1>2, <2>1, <2>2, <2>3 DEF Fails
<1> QED BY <1>3, <1>4

LEMMA SaveFacts ==
    ASSUME Types, Save
    PROVE  /\ pc = "save" /\ pc' = "idle" /\ job' \in JobType /\ job'.cur = NoPrint
           /\ ready' \in BOOLEAN /\ fp' \in PrintType /\ fp'.docs = job.cur
           /\ suspect' = Unsure /\ Unsure \subseteq Docs
           /\ UNCHANGED <<disk, index, memories, flag, crashes, failures>>
<1>1. job \in JobType /\ job.cur \in Prints
  BY TypesGive DEF JobType
<1>2. pc' = "idle" /\ job' \in JobType /\ job'.cur = NoPrint /\ ready' \in BOOLEAN
  BY EndTypes DEF Save
<1>3. fp' \in PrintType /\ fp'.docs = job.cur
  BY <1>1 DEF Save, Saved, PrintType
<1>4. Unsure \subseteq Docs
  BY <1>1 DEF Unsure, JobType
<1> QED BY <1>2, <1>3, <1>4 DEF Save

\* A document is written or deleted: its version only grows, and a version that is no longer
\* there does not come back.
LEMMA FilesFacts ==
    ASSUME Types, NEW d \in Docs, Write(d) \/ Delete(d)
    PROVE  /\ disk' \in DiskType
           /\ \A e \in Docs : disk'[e].there => disk'[e].version > 0
           /\ \A e \in Docs : disk[e].version <= disk'[e].version
           /\ \A e \in Docs : \A p \in Nat :
                 p <= disk[e].version /\ ~(disk[e].there /\ disk[e].version = p)
                    => ~(disk'[e].there /\ disk'[e].version = p)
           /\ \A e \in Docs : disk'[e].there /\ disk'[e].version = disk[e].version => disk[e].there
           /\ UNCHANGED <<fp, index, memories, pc, ready, job, flag, crashes, failures, suspect>>
<1>1. disk \in DiskType /\ MaxVersion \in Nat
  BY TypesGive, KBAssumption
<1>2. disk[d] \in [there : BOOLEAN, version : 0..MaxVersion]
      /\ \A e \in Docs : disk[e].version \in 0..MaxVersion /\ (disk[e].there => disk[e].version > 0)
  BY <1>1 DEF DiskType, Types
<1>3. CASE Write(d)
  <2>1. disk[d].version < MaxVersion
        /\ disk' = [disk EXCEPT ![d] = [there |-> TRUE, version |-> disk[d].version + 1]]
    BY <1>1, <1>3 DEF Write, DiskType
  <2>2. disk'[d].there = TRUE /\ disk'[d].version = disk[d].version + 1
        /\ \A e \in Docs \ {d} : disk'[e] = disk[e]
    BY <1>1, <2>1 DEF DiskType
  <2>3. disk' \in DiskType
    BY <1>1, <1>2, <2>1 DEF DiskType
  <2>4. \A e \in Docs : e = d \/ disk'[e] = disk[e]
    BY <2>2
  <2>5. \A p \in Nat : p <= disk[d].version => disk[d].version + 1 # p
    BY <1>2
  <2> QED BY <1>2, <1>3, <2>2, <2>3, <2>4, <2>5 DEF Write
<1>4. CASE Delete(d)
  <2> DEFINE new == [disk[d] EXCEPT !.there = FALSE]
  <2>1. disk' = [disk EXCEPT ![d] = new]
    BY <1>4 DEF Delete
  <2>5. new \in [there : BOOLEAN, version : 0..MaxVersion] /\ new.version = disk[d].version
    BY <1>2
  <2>6. new.there = FALSE
    BY <1>2
  <2> HIDE DEF new
  <2>2. disk'[d].there = FALSE /\ disk'[d].version = disk[d].version
        /\ \A e \in Docs \ {d} : disk'[e] = disk[e]
    BY <1>1, <2>1, <2>5, <2>6 DEF DiskType
  <2>3. disk' \in DiskType
    BY <1>1, <2>1, <2>5 DEF DiskType
  <2>4. \A e \in Docs : e = d \/ disk'[e] = disk[e]
    BY <2>2
  <2> QED BY <1>2, <1>4, <2>2, <2>3, <2>4 DEF Delete
<1> QED BY <1>3, <1>4

LEMMA FilesTypes ==
    ASSUME Types, NEW d \in Docs, Write(d) \/ Delete(d)
    PROVE  Types'
<1>1. /\ disk' \in DiskType /\ \A e \in Docs : disk'[e].there => disk'[e].version > 0
      /\ \A e \in Docs : disk[e].version <= disk'[e].version
      /\ UNCHANGED <<fp, index, memories, pc, ready, job, flag, crashes, failures, suspect>>
  BY FilesFacts
<1>2. TypeOK'
  BY <1>1, TypesGive, Assemble
<1>3. ASSUME NEW p \in Prints, NotNewer(p)
      PROVE  \A e \in DOMAIN p : p[e] <= disk'[e].version
  <2> TAKE e \in DOMAIN p
  <2>1. e \in Docs /\ p[e] \in Nat /\ p[e] <= disk[e].version
    BY <1>3, PrintFacts DEF NotNewer, Versions
  <2>2. disk[e].version \in Nat /\ disk'[e].version \in Nat
    BY <1>1, <2>1, TypesGive DEF DiskType
  <2> QED BY <1>1, <2>1, <2>2
<1>4. fp.docs \in Prints /\ job.cur \in Prints
  BY TypesGive DEF PrintType, JobType
<1>5. NotNewer(fp.docs)' /\ NotNewer(job.cur)'
  BY <1>1, <1>3, <1>4 DEF NotNewer, Types
<1> QED BY <1>1, <1>2, <1>5 DEF Types

\* A stop of the process, and its start with what a reset deletes.
LEMMA StopsFacts ==
    ASSUME Types, Crash \/ Reset
    PROVE  /\ pc' = "off" /\ ready' \in BOOLEAN /\ job' \in JobType /\ job'.cur \in {job.cur, NoPrint}
           /\ flag' \in BOOLEAN /\ crashes' \in 0..MaxCrashes
           /\ UNCHANGED <<disk, fp, index, memories, failures, suspect>>
<1>1. job \in JobType /\ flag \in BOOLEAN /\ crashes \in 0..MaxCrashes /\ MaxCrashes \in Nat
  BY TypesGive, KBAssumption
<1>2. crashes' \in 0..MaxCrashes
  <2>1. crashes < MaxCrashes /\ crashes' = crashes + 1
    BY DEF Crash, Reset
  <2> QED BY <1>1, <2>1
<1>4. flag' \in {TRUE, flag} /\ ready' = FALSE
  BY DEF Crash, Reset
<1>3. job' \in JobType /\ job'.cur \in {job.cur, NoPrint}
  BY <1>1, NoJobTyped DEF Crash, Reset
<1> QED BY <1>1, <1>2, <1>3, <1>4 DEF Crash, Reset

LEMMA BootFacts ==
    ASSUME Types, Boot
    PROVE  /\ pc' = "idle" /\ index' \in [Chunks -> 0..2] /\ memories' \in 0..MaxMemories
           /\ fp' \in PrintType /\ flag' \in BOOLEAN /\ suspect' \subseteq Docs
           /\ (fp' = fp /\ index' = index /\ suspect' = suspect) \/ suspect' = Docs
           /\ fp' = fp \/ fp'.docs = NoPrint
           /\ UNCHANGED <<disk, ready, job, crashes, failures>>
<1>1. /\ index \in [Chunks -> 0..2] /\ memories \in 0..MaxMemories /\ fp \in PrintType
      /\ flag \in BOOLEAN /\ suspect \subseteq Docs /\ MaxMemories \in Nat
  BY TypesGive, KBAssumption
<1>2. NoFile \in PrintType /\ NoFile.docs = NoPrint
  BY NoPrintFacts DEF NoFile, PrintType
<1>3. PICK vectors \in BOOLEAN, print \in BOOLEAN, all \in BOOLEAN :
          /\ index' = IF vectors THEN [c \in Chunks |-> 0] ELSE index
          /\ memories' = IF vectors THEN 0 ELSE memories
          /\ fp' = IF print THEN NoFile ELSE fp
          /\ flag' = (flag /\ ~all)
          /\ suspect' = IF vectors \/ print THEN Docs ELSE suspect
  BY DEF Boot
<1>4. index' \in [Chunks -> 0..2] /\ memories' \in 0..MaxMemories
  BY <1>1, <1>3
<1>5. fp' \in PrintType /\ (fp' = fp \/ fp'.docs = NoPrint) /\ suspect' \subseteq Docs
  BY <1>1, <1>2, <1>3
<1>6. (fp' = fp /\ index' = index /\ suspect' = suspect) \/ suspect' = Docs
  BY <1>3
<1>7. flag' \in BOOLEAN
  BY <1>3
<1> QED BY <1>4, <1>5, <1>6, <1>7 DEF Boot

LEMMA InJob ==
    ASSUME Types, job'.cur \in {job.cur, NoPrint}
    PROVE  NotNewer(job'.cur)
BY NoPrintFacts DEF NotNewer, Types

\* Of the steps of a job, only the reading of a file needs to know that none is read twice.
LEMMA WorkTypes ==
    ASSUME Types, Work, IsInjective(job.todo),
           pc = "read" => \A d \in job.pending : \A c \in ToSet(job.todo) : c[1] # d
    PROVE  Types'
<1>1. ASSUME NEW d \in Docs, RemoveDoc(d) PROVE Types'
  <2>1. /\ job' \in JobType /\ job'.cur = job.cur
        /\ index' = [c \in Chunks |-> IF c[1] = d THEN 0 ELSE index[c]]
        /\ UNCHANGED <<disk, fp, memories, pc, ready, flag, crashes, failures, suspect>>
    BY <1>1, RemoveFacts DEF SameJob
  <2>2. index' \in [Chunks -> 0..2]
    BY <2>1, TypesGive
  <2>3. TypeOK'
    BY <2>1, <2>2, TypesGive, Assemble
  <2> QED BY <2>1, <2>3, Ordered
<1>2. ASSUME NEW d \in Docs, ReadDoc(d) PROVE Types'
  <2>1. \A c \in ToSet(job.todo) : c[1] # d
    BY <1>2 DEF ReadDoc
  <2>2. /\ job' \in JobType /\ job'.cur = job.cur
        /\ UNCHANGED <<disk, fp, index, memories, pc, ready, flag, crashes, failures, suspect>>
    BY <1>2, <2>1, ReadFacts DEF SameJob
  <2>3. TypeOK'
    BY <2>2, TypesGive, Assemble
  <2> QED BY <2>2, <2>3, Ordered
<1>3. CASE List
  <2>1. /\ job' \in JobType /\ job'.cur = job.cur /\ pc' \in Places
        /\ UNCHANGED <<disk, fp, index, memories, ready, flag, crashes, failures, suspect>>
    BY <1>3, ListFacts DEF SameJob, Places
  <2>2. TypeOK'
    BY <2>1, TypesGive, Assemble
  <2> QED BY <2>1, <2>2, Ordered
<1>4. CASE Replace
  <2>1. index' \in [Chunks -> 0..2] /\ memories' \in 0..MaxMemories /\ pc' \in Places
        /\ suspect' \subseteq Docs /\ failures' \in 0..MaxFailures /\ job' \in JobType
        /\ job'.cur = job.cur /\ UNCHANGED <<disk, fp, ready, flag, crashes>>
    BY <1>4, ReplaceFacts DEF Places
  <2>2. TypeOK'
    BY <2>1, TypesGive, Assemble
  <2> QED BY <2>1, <2>2, Ordered
<1>5. CASE AddBatch
  <2>1. /\ job' \in JobType /\ job'.cur = job.cur /\ index' \in [Chunks -> 0..2] /\ pc' \in Places
        /\ suspect' \subseteq Docs /\ UNCHANGED <<disk, fp, memories, ready, flag, crashes, failures>>
    BY <1>5, AddFacts DEF SameJob, Places
  <2>2. TypeOK'
    BY <2>1, TypesGive, Assemble
  <2> QED BY <2>1, <2>2, Ordered
<1>6. CASE Truncate
  <2>1. fp' \in PrintType /\ fp'.docs = NoPrint /\ pc' \in Places
        /\ UNCHANGED <<disk, index, memories, ready, job, flag, crashes, failures, suspect>>
    BY <1>6, NoPrintFacts DEF Truncate, Truncated, PrintType, Places
  <2>2. TypeOK'
    BY <2>1, TypesGive, Assemble
  <2>3. NotNewer(fp'.docs)
    BY <2>1, NoPrintFacts DEF NotNewer
  <2> QED BY <2>1, <2>2, <2>3, Ordered
<1>7. CASE Save
  <2>1. /\ job' \in JobType /\ job'.cur = NoPrint /\ ready' \in BOOLEAN /\ fp' \in PrintType
        /\ fp'.docs = job.cur /\ suspect' \subseteq Docs /\ pc' \in Places
        /\ UNCHANGED <<disk, index, memories, flag, crashes, failures>>
    BY <1>7, SaveFacts DEF Places
  <2>2. TypeOK'
    BY <2>1, TypesGive, Assemble
  <2>3. NotNewer(fp'.docs) /\ NotNewer(job'.cur)
    BY <2>1, InJob DEF Types
  <2> QED BY <2>1, <2>2, <2>3, Ordered
<1>8. CASE Fails
  <2>1. /\ job' \in JobType /\ job'.cur \in {job.cur, NoPrint} /\ ready' \in BOOLEAN /\ pc' \in Places
        /\ failures' \in 0..MaxFailures
        /\ UNCHANGED <<disk, fp, index, memories, flag, crashes, suspect>>
    BY <1>8, FailsFacts DEF Places
  <2>2. TypeOK'
    BY <2>1, TypesGive, Assemble
  <2> QED BY <2>1, <2>2, InJob, Ordered
<1> QED BY <1>1, <1>2, <1>3, <1>4, <1>5, <1>6, <1>7, <1>8 DEF Work

LEMMA OtherTypes ==
    ASSUME Types, Users \/ Stops \/ UNCHANGED vars
    PROVE  Types'
<1>1. CASE AddMemory
  <2>1. memories' \in 0..MaxMemories
        /\ UNCHANGED <<disk, fp, index, pc, ready, job, flag, crashes, failures, suspect>>
    BY <1>1, TypesGive, KBAssumption DEF AddMemory
  <2>2. TypeOK'
    BY <2>1, TypesGive, Assemble
  <2> QED BY <2>1, <2>2, Ordered
<1>2. CASE Crash \/ Reset
  <2>1. /\ pc' \in Places /\ ready' \in BOOLEAN /\ job' \in JobType /\ job'.cur \in {job.cur, NoPrint}
        /\ flag' \in BOOLEAN /\ crashes' \in 0..MaxCrashes
        /\ UNCHANGED <<disk, fp, index, memories, failures, suspect>>
    BY <1>2, StopsFacts DEF Places
  <2>2. TypeOK'
    BY <2>1, TypesGive, Assemble
  <2> QED BY <2>1, <2>2, InJob, Ordered
<1>3. CASE Boot
  <2>1. /\ pc' \in Places /\ index' \in [Chunks -> 0..2] /\ memories' \in 0..MaxMemories
        /\ fp' \in PrintType /\ flag' \in BOOLEAN /\ suspect' \subseteq Docs
        /\ fp' = fp \/ fp'.docs = NoPrint
        /\ UNCHANGED <<disk, ready, job, crashes, failures>>
    BY <1>3, BootFacts DEF Places
  <2>2. TypeOK'
    BY <2>1, TypesGive, Assemble
  <2>3. fp' = fp \/ NotNewer(fp'.docs)
    BY <2>1, NoPrintFacts DEF NotNewer
  <2> QED BY <2>1, <2>2, <2>3, Ordered
<1>4. CASE UNCHANGED vars
  BY <1>4 DEF vars, Types, TypeOK, NotNewer
<1> QED BY <1>1, <1>2, <1>3, <1>4, FilesTypes DEF Users, Stops

-----------------------------------------------------------------------------
(* The invariant of a synchronisation.                                      *)

\* Version p of d is not on disk, and cannot come back.
Outdated(d, p) == ~(disk[d].there /\ disk[d].version = p)

\* The collection holds at most one version of d, none older than the recorded p, and all of
\* it when the record is up to date.
Covers(d, p) ==
    \E v \in p..disk[d].version : AtMostOnce(d, v) /\ (Outdated(d, p) \/ Exactly(d, v))

\* The collection has of d what the record says, and nothing of what it does not name.
Matches(d, record) == IF d \in DOMAIN record THEN Covers(d, record[d]) ELSE ChunksOf(d) = {}

\* Between and during the jobs: the fingerprint describes every document not in doubt.
Described == fp.kind # "corrupt" => \A d \in Docs \ suspect : Matches(d, fp.docs)

\* What the collection will hold of chunk c when the job adds its own: a full rebuild empties
\* it first, if it can.
Held(c) == IF job.full /\ pc = "read" THEN 0 ELSE index[c]

Queued == ToSet(job.todo)

\* Nothing of d is there or will be; or one version, of which each chunk is there or queued.
Clean(d) == \A c \in Chunks : c[1] = d => Held(c) = 0 /\ c \notin Queued
Split(d, v) ==
    \A c \in Chunks : c[1] = d =>
        IF c[2] = v THEN IF c \in Queued THEN Held(c) = 0 ELSE Held(c) = 1
        ELSE Held(c) = 0 /\ c \notin Queued

Differs == Added(job.cur, fp.docs) \cup Updated(job.cur, fp.docs)
Wanted == IF job.full THEN DOMAIN job.cur ELSE Differs

\* d is not read yet, not readable, not wanted or gone; or it is read, in a version at least
\* as new as the record.
Loaded(d) ==
    \/ Clean(d) /\ (d \in job.pending \cup job.missed \/ d \notin Wanted \/ Outdated(d, job.cur[d]))
    \/ /\ d \in Wanted \ (job.pending \cup job.missed)
       /\ \E v \in job.cur[d]..disk[d].version : Split(d, v)

\* d is not read or not readable, or the file went meanwhile; or all of a version as new as the
\* record is queued or there.
Arrives(d) ==
    \/ d \in job.pending \cup job.missed \/ Outdated(d, job.cur[d])
    \/ \E v \in job.cur[d]..disk[d].version :
          \A c \in Chunks : c[1] = d /\ c[2] = v => c \in Queued \/ Held(c) > 0

\* The order of a job's steps.
Shape ==
    /\ pc = "list" => job.full
    /\ pc = "remove" => ~job.full
    /\ pc \in {"remove", "list", "save"} => job.todo = <<>>
    /\ pc \in {"remove", "list"} => job.missed = {}
    /\ pc \in {"add", "save"} => job.pending = {}
    /\ pc = "save" => fp.kind = "corrupt"
    /\ IsInjective(job.todo)
    /\ pc = "read" => /\ \A c \in Queued : c[1] \notin job.pending
                      /\ job.pending \cap job.missed = {}

\* A full rebuild: exact where it drops the old chunks, and complete in any case.
FullJob ==
    job.full =>
        /\ pc = "add" => suspect = Docs
        /\ pc \in {"read", "add", "save"} =>
              \A d \in DOMAIN job.cur : Arrives(d) /\ (pc = "read" \/ d \in job.removed => Loaded(d))

\* The documents an incremental job leaves known: removed first, or not in doubt before it.
Sure(d) == d \in job.removed \/ d \notin job.before
Same(d) == d \in DOMAIN job.cur /\ d \in DOMAIN fp.docs /\ job.cur[d] = fp.docs[d]

\* An incremental job, until it opens the fingerprint file.
Incremental0 ==
    /\ fp.kind # "corrupt"
    /\ job.removed = Removed(job.cur, fp.docs) \cup Updated(job.cur, fp.docs)
    /\ \A d \in job.removed : Outdated(d, fp.docs[d])
    /\ \A d \in Updated(job.cur, fp.docs) : fp.docs[d] < job.cur[d]
    /\ suspect \subseteq job.before \cup (Docs \ DOMAIN fp.docs)
    /\ pc = "remove" => job.pending \subseteq job.removed
    /\ pc = "read" => job.pending \subseteq Differs
    /\ \A c \in Queued : c[1] \in Differs
    /\ \A d \in Docs : Sure(d) /\ ~Same(d) =>
          IF pc = "remove" THEN d \in job.pending \/ ChunksOf(d) = {} ELSE Loaded(d)
IncrementalJob == ~job.full /\ pc \in {"remove", "read", "add"} => Incremental0

\* An incremental job that has opened it.
IncrementalSave ==
    ~job.full /\ pc = "save" =>
        \A d \in Docs \ job.missed : Sure(d) => Matches(d, job.cur)

Syncing == Described /\ Shape /\ FullJob /\ IncrementalJob /\ IncrementalSave

\* Without a job the last three say nothing.
NoJobRuns == pc \in {"off", "idle", "failed"}

LEMMA Idle ==
    ASSUME NoJobRuns', Described', IsInjective(job'.todo)
    PROVE  Syncing'
BY DEF NoJobRuns, Syncing, Shape, FullJob, IncrementalJob, IncrementalSave

LEMMA EmptyIsInjective == IsInjective(<<>>) /\ ToSet(<<>>) = {}
BY DEF IsInjective, ToSet

LEMMA VersionFacts ==
    ASSUME Types, NEW d \in Docs
    PROVE  /\ disk[d].version \in Nat
           /\ d \in DOMAIN fp.docs => fp.docs[d] \in Nat /\ fp.docs[d] <= disk[d].version
           /\ d \in DOMAIN job.cur => job.cur[d] \in Nat /\ job.cur[d] <= disk[d].version
<1>1. disk[d].version \in Nat
  BY TypesGive DEF DiskType
<1>2. fp.docs \in Prints /\ job.cur \in Prints
  BY TypesGive DEF PrintType, JobType
<1>3. \A p \in Prints : d \in DOMAIN p => p[d] \in Nat
  BY PrintFacts DEF Versions
<1> QED BY <1>1, <1>2, <1>3 DEF Types, NotNewer

\* An empty collection of d covers a record that is not up to date.
LEMMA EmptyCovers ==
    ASSUME Types, NEW d \in Docs, NEW p \in Nat, p <= disk[d].version, Outdated(d, p),
           ChunksOf(d) = {}
    PROVE  Covers(d, p)
<1>1. disk[d].version \in p..disk[d].version
  BY VersionFacts
<1>2. \A c \in Chunks : c[1] = d => index[c] = 0
  <2>1. \A c \in Chunks : index[c] \in 0..2
    BY TypesGive
  <2> QED BY <2>1 DEF ChunksOf
<1>3. AtMostOnce(d, disk[d].version)
  BY <1>2 DEF AtMostOnce
<1> QED BY <1>1, <1>3 DEF Covers

\* What a job that has added all its chunks holds of a document.
LEMMA LoadedMatches ==
    ASSUME Types, NEW d \in Docs, Loaded(d), job.todo = <<>>, job.pending = {}, d \notin job.missed,
           ~(job.full /\ pc = "read"), d \in DOMAIN job.cur => d \in Wanted
    PROVE  /\ Matches(d, job.cur)
           /\ d \in DOMAIN job.cur =>
                 \/ ChunksOf(d) = {} /\ Outdated(d, job.cur[d])
                 \/ \E v \in job.cur[d]..disk[d].version : Exactly(d, v)
<1>1. Queued = {} /\ \A c \in Chunks : Held(c) = index[c]
  BY EmptyIsInjective DEF Queued, Held
<1>2. CASE Clean(d) /\ (d \notin Wanted \/ Outdated(d, job.cur[d]))
  <2>1. ChunksOf(d) = {}
    BY <1>1, <1>2, NoChunks DEF Clean
  <2>2. CASE d \in DOMAIN job.cur
    <3>1. Covers(d, job.cur[d]) /\ Outdated(d, job.cur[d])
      BY <1>2, <2>1, <2>2, EmptyCovers, VersionFacts
    <3> QED BY <2>1, <2>2, <3>1 DEF Matches
  <2> QED BY <2>1, <2>2 DEF Matches
<1>3. CASE d \in Wanted /\ \E v \in job.cur[d]..disk[d].version : Split(d, v)
  <2>1. PICK v \in job.cur[d]..disk[d].version : Split(d, v)
    BY <1>3
  <2>2. \A c \in Chunks : c[1] = d => index[c] = IF c[2] = v THEN 1 ELSE 0
    BY <1>1, <2>1 DEF Split
  <2>3. Exactly(d, v) /\ AtMostOnce(d, v)
    BY <2>2 DEF Exactly, AtMostOnce
  <2>4. CASE d \in DOMAIN job.cur
    BY <2>1, <2>3, <2>4 DEF Matches, Covers
  <2>5. CASE d \notin DOMAIN job.cur
    BY <1>3, <2>5 DEF Wanted, Differs, Added, Updated
  <2> QED BY <2>4, <2>5
<1> QED BY <1>2, <1>3 DEF Loaded

LEMMA LoadedArrives ==
    ASSUME Types, NEW d \in Docs, d \in Wanted, Loaded(d)
    PROVE  Arrives(d)
<1>1. CASE \E v \in job.cur[d]..disk[d].version : Split(d, v)
  <2>1. PICK v \in job.cur[d]..disk[d].version : Split(d, v)
    BY <1>1
  <2>2. \A c \in Chunks : c[1] = d /\ c[2] = v => c \in Queued \/ Held(c) > 0
    BY <2>1 DEF Split
  <2> QED BY <2>1, <2>2 DEF Arrives
<1>2. CASE d \in job.pending \cup job.missed \/ Outdated(d, job.cur[d])
  BY <1>2 DEF Arrives
<1> QED BY <1>1, <1>2 DEF Loaded

LEMMA InitSyncing == Init => Syncing
<1> SUFFICES ASSUME Init PROVE Syncing
  OBVIOUS
<1>1. job.todo = <<>> /\ ~job.full /\ pc = "idle" /\ fp.docs = NoPrint
  BY DEF Init, NoJob, NoFile
<1>2. \A d \in Docs : Matches(d, fp.docs)
  <2>1. \A d \in Docs : ChunksOf(d) = {}
    BY DEF Init, ChunksOf
  <2> QED BY <1>1, <2>1, NoPrintFacts DEF Matches
<1> QED BY <1>1, <1>2, EmptyIsInjective
       DEF Syncing, Described, Shape, FullJob, IncrementalJob, IncrementalSave

\* The description stays while none of its parts changes.
LEMMA DescribedUnchanged ==
    ASSUME Described, UNCHANGED <<disk, fp, index>>, suspect \subseteq suspect'
    PROVE  Described'
BY DEF Described, Matches, Covers, ChunksOf, AtMostOnce, Exactly, Outdated

\* A full rebuild that is about to list the files.
LEMMA ListBegins ==
    ASSUME pc' = "list", job'.full, job'.todo = <<>>, job'.missed = {}, Described'
    PROVE  Syncing'
BY EmptyIsInjective DEF Syncing, Shape, FullJob, IncrementalJob, IncrementalSave

\* A difference is about to be applied: what it removes is outdated, and of what it adds, as
\* far as it is not in doubt, nothing is there.
LEMMA DifferenceBegins ==
    ASSUME Types, Described, fp.kind # "corrupt", pc' = "remove", ~job'.full,
           job'.cur = Fingerprint, UNCHANGED <<disk, fp, index, suspect>>,
           job'.pending = Removed(Fingerprint, fp.docs) \cup Updated(Fingerprint, fp.docs),
           job'.removed = job'.pending, job'.before = suspect, job'.todo = <<>>, job'.missed = {}
    PROVE  Syncing'
<1>1. Described'
  BY DescribedUnchanged
<1>2. /\ DOMAIN Fingerprint = Present /\ \A d \in Present : Fingerprint[d] = disk[d].version
      /\ DOMAIN fp.docs \subseteq Docs
  BY FingerprintFacts, PrintFacts, TypesGive DEF PrintType
<1>3. \A d \in job'.removed : Outdated(d, fp.docs[d])
  <2> TAKE d \in job'.removed
  <2>1. CASE d \in Removed(Fingerprint, fp.docs)
    BY <1>2, <2>1 DEF Removed, Present, Outdated
  <2>2. CASE d \in Updated(Fingerprint, fp.docs)
    BY <1>2, <2>2 DEF Updated, Present, Outdated
  <2> QED BY <2>1, <2>2
<1>4. \A d \in Updated(Fingerprint, fp.docs) : fp.docs[d] < Fingerprint[d]
  <2> TAKE d \in Updated(Fingerprint, fp.docs)
  <2>1. d \in Docs /\ d \in DOMAIN fp.docs /\ Fingerprint[d] = disk[d].version /\ Fingerprint[d] # fp.docs[d]
    BY <1>2 DEF Updated
  <2> QED BY <2>1, VersionFacts
<1>5. ASSUME NEW d \in Docs, d \in job'.removed \/ d \notin suspect,
             ~(d \in DOMAIN Fingerprint /\ d \in DOMAIN fp.docs /\ Fingerprint[d] = fp.docs[d])
      PROVE  d \in job'.pending \/ ChunksOf(d) = {}
  <2>1. CASE d \in DOMAIN fp.docs
    BY <1>5, <2>1 DEF Removed, Updated
  <2>2. CASE d \notin DOMAIN fp.docs /\ d \notin suspect
    BY <2>2 DEF Described, Matches
  <2>3. CASE d \in job'.removed
    BY <2>3
  <2> QED BY <1>5, <2>1, <2>2, <2>3
<1>6. \A d : ChunksOf(d)' = ChunksOf(d)
  BY DEF ChunksOf
<1>7. Queued' = {}
  BY EmptyIsInjective DEF Queued
<1>8. Incremental0'
  BY <1>3, <1>4, <1>5, <1>6, <1>7 DEF Incremental0, Sure, Same, Outdated
<1> QED BY <1>1, <1>7, <1>8, EmptyIsInjective
       DEF Syncing, Shape, FullJob, IncrementalJob, IncrementalSave

\* A record to write of a collection nothing is known of.
LEMMA RecordBegins ==
    ASSUME Types, fp.kind # "corrupt", pc' = "add", ~job'.full, job'.cur = Fingerprint,
           UNCHANGED <<disk, fp, index>>, fp.docs = NoPrint, suspect' = Docs,
           job'.pending = {}, job'.removed = {}, job'.before = Docs, job'.todo = <<>>, job'.missed = {}
    PROVE  Syncing'
<1>1. Described'
  BY DEF Described
<1>2. Removed(Fingerprint, fp.docs) = {} /\ Updated(Fingerprint, fp.docs) = {}
  BY NoPrintFacts DEF Removed, Updated
<1>3. Queued' = {} /\ \A d \in Docs : ~Sure(d)'
  BY EmptyIsInjective DEF Queued, Sure
<1>4. Incremental0'
  BY <1>2, <1>3 DEF Incremental0
<1> QED BY <1>1, <1>3, <1>4, EmptyIsInjective
       DEF Syncing, Shape, FullJob, IncrementalJob, IncrementalSave

LEMMA JobSyncing ==
    ASSUME Types, Syncing, Job
    PROVE  Syncing'
<1>1. Described /\ IsInjective(job.todo)
  BY DEF Syncing, Shape
<1>2. CASE Sync
  <2>1. fp.kind # "corrupt" /\ UNCHANGED <<disk, fp, index>>
    BY <1>2, SyncFacts
  <2>2. CASE pc' = "idle" /\ suspect' = suspect /\ job'.cur = NoPrint
    <3>1. job' = NoJob
      BY <1>2, <2>2 DEF Sync, Incremental, Begin, End
    <3>2. IsInjective(job'.todo)
      BY <3>1, EmptyIsInjective DEF NoJob
    <3> QED BY <1>1, <2>1, <2>2, <3>2, DescribedUnchanged, Idle DEF NoJobRuns
  <2>3. CASE /\ pc' = "list" /\ job'.full /\ suspect' = suspect
             /\ job'.todo = <<>> /\ job'.missed = {}
    BY <1>1, <2>1, <2>3, DescribedUnchanged, ListBegins
  <2>4. CASE /\ pc' = "remove" /\ ~job'.full /\ job'.cur = Fingerprint /\ suspect' = suspect
             /\ job'.pending = Removed(Fingerprint, fp.docs) \cup Updated(Fingerprint, fp.docs)
             /\ job'.removed = job'.pending /\ job'.before = suspect
             /\ job'.todo = <<>> /\ job'.missed = {}
    BY <1>1, <2>1, <2>4, DifferenceBegins
  <2>5. CASE /\ pc' = "add" /\ ~job'.full /\ job'.cur = Fingerprint /\ suspect' = Docs
             /\ fp.docs = NoPrint /\ job'.before = Docs /\ job'.removed = {}
             /\ job'.pending = {} /\ job'.todo = <<>> /\ job'.missed = {}
    BY <2>1, <2>5, RecordBegins
  <2> QED BY <1>2, <2>2, <2>3, <2>4, <2>5, SyncFacts
<1>3. CASE SyncRaises
  <2>1. UNCHANGED <<disk, fp, index, suspect, job>> /\ pc' = "failed"
    BY <1>3 DEF SyncRaises
  <2> QED BY <1>1, <2>1, DescribedUnchanged, Idle DEF NoJobRuns
<1>4. CASE Rebuild
  <2>1. /\ pc' = "list" /\ Starts(TRUE, Fingerprint, {}, suspect)
        /\ UNCHANGED <<disk, fp, index, suspect>>
    BY <1>4, FullStarts DEF Rebuild
  <2>2. job'.full /\ job'.todo = <<>> /\ job'.missed = {}
    BY <2>1 DEF Starts
  <2> QED BY <1>1, <2>1, <2>2, DescribedUnchanged, ListBegins
<1> QED BY <1>2, <1>3, <1>4 DEF Job

\* What depends on the record of the job stays with it.
LEMMA SameDiffers ==
    ASSUME SameJob, fp' = fp
    PROVE  /\ Differs' = Differs /\ Wanted' = Wanted
           /\ \A d : (Same(d)' <=> Same(d)) /\ (Sure(d)' <=> Sure(d))
BY DEF SameJob, Differs, Wanted, Same, Sure, Added, Updated

\* A document's chunks are removed.
LEMMA RemoveSyncing ==
    ASSUME Types, Syncing, NEW d \in Docs, RemoveDoc(d)
    PROVE  Syncing'
<1>1. /\ pc = "remove" /\ pc' = pc /\ d \in job.pending /\ SameJob /\ job'.todo = job.todo
      /\ job'.pending = job.pending \ {d} /\ job'.missed = job.missed
      /\ index' = [c \in Chunks |-> IF c[1] = d THEN 0 ELSE index[c]]
      /\ UNCHANGED <<disk, fp, suspect>>
  BY RemoveFacts
<1>2. ~job.full /\ Incremental0 /\ job.todo = <<>> /\ job.missed = {} /\ Described
  BY <1>1 DEF Syncing, Shape, IncrementalJob
<1>3. ChunksOf(d)' = {} /\ \A e \in Docs \ {d} : ChunksOf(e)' = ChunksOf(e)
  <2>1. \A c \in Chunks : c[1] = d => index'[c] = 0
    BY <1>1
  <2>2. ChunksOf(d)' = {}
    BY <2>1 DEF ChunksOf
  <2>3. \A c \in Chunks : c[1] # d => index'[c] = index[c]
    BY <1>1
  <2> QED BY <2>2, <2>3 DEF ChunksOf
<1>4. Described'
  <2> SUFFICES ASSUME NEW e \in Docs \ suspect PROVE Matches(e, fp.docs)'
    BY <1>1 DEF Described
  <2>1. Matches(e, fp.docs)
    BY <1>2 DEF Described, Incremental0
  <2>2. CASE e # d
    <3>1. \A c \in Chunks : c[1] = e => index'[c] = index[c]
      BY <1>1, <2>2
    <3> QED BY <1>1, <1>3, <2>1, <2>2, <3>1 DEF Matches, Covers, AtMostOnce, Exactly, Outdated
  <2>3. CASE e = d
    <3>1. CASE d \in DOMAIN fp.docs
      <4>1. Outdated(d, fp.docs[d])
        BY <1>1, <1>2 DEF Incremental0
      <4>2. PICK p \in Nat : p = fp.docs[d] /\ p <= disk[d].version
        BY <3>1, VersionFacts
      <4>3. Covers(d, p)'
        <5>1. PICK v \in Nat : v = disk[d].version
          BY VersionFacts
        <5>2. Outdated(d, p)' /\ v \in p..disk'[d].version
          BY <1>1, <4>1, <4>2, <5>1 DEF Outdated
        <5>3. \A c \in Chunks : c[1] = d => index'[c] = 0
          BY <1>1
        <5>4. AtMostOnce(d, v)'
          BY <5>3 DEF AtMostOnce
        <5> QED BY <5>2, <5>4 DEF Covers
      <4> QED BY <1>1, <2>3, <3>1, <4>2, <4>3 DEF Matches, Covers, Outdated
    <3>2. CASE d \notin DOMAIN fp.docs
      BY <1>1, <1>3, <2>3, <3>2 DEF Matches
    <3> QED BY <3>1, <3>2
  <2> QED BY <2>2, <2>3
<1>5. Incremental0'
  <2>1. Differs' = Differs /\ \A e : (Same(e)' <=> Same(e)) /\ (Sure(e)' <=> Sure(e))
    BY <1>1, SameDiffers
  <2>2. \A e \in Docs : Sure(e)' /\ ~Same(e)' => e \in job'.pending \/ ChunksOf(e)' = {}
    BY <1>1, <1>2, <1>3, <2>1 DEF Incremental0
  <2>3. Queued' = Queued
    BY <1>1 DEF Queued
  <2> QED BY <1>1, <1>2, <2>1, <2>2, <2>3 DEF Incremental0, SameJob, Outdated
<1> QED BY <1>1, <1>2, <1>4, <1>5, EmptyIsInjective
       DEF Syncing, Shape, FullJob, IncrementalJob, IncrementalSave, SameJob

\* The files are listed: nothing is read yet, and what is not listed is not on disk.
LEMMA ListSyncing ==
    ASSUME Types, Syncing, List
    PROVE  Syncing'
<1>1. /\ pc = "list" \/ (pc = "remove" /\ job.pending = {})
      /\ pc' = "read" /\ SameJob
      /\ job'.pending = ToLoad /\ job'.todo = job.todo /\ job'.missed = job.missed
      /\ UNCHANGED <<disk, fp, index, suspect>>
  BY ListFacts
<1>2. job.todo = <<>> /\ job.missed = {} /\ Described
      /\ (pc = "list" => job.full) /\ (pc = "remove" => ~job.full)
  BY <1>1 DEF Syncing, Shape
<1>3. Queued' = {} /\ IsInjective(job'.todo)
  BY <1>1, <1>2, EmptyIsInjective DEF Queued
<1>4. Described'
  BY <1>1, <1>2, DescribedUnchanged
<1>5. Differs' = Differs /\ Wanted' = Wanted
      /\ \A e : (Same(e)' <=> Same(e)) /\ (Sure(e)' <=> Sure(e))
  BY <1>1, SameDiffers
<1>6. ASSUME NEW d \in Docs, job'.full \/ ChunksOf(d) = {} PROVE Loaded(d)'
  <2>1. Clean(d)'
    <3>1. \A c \in Chunks : c[1] = d => Held(c)' = 0
      BY <1>1, <1>6, NoChunks DEF Held
    <3> QED BY <1>3, <3>1 DEF Clean
  <2>2. \/ d \in job'.pending \/ d \notin Wanted' \/ Outdated(d, job.cur[d])'
    <3>1. CASE disk[d].there
      BY <1>1, <1>5, <3>1 DEF ToLoad, Wanted, Differs, Present
    <3>2. CASE ~disk[d].there
      BY <1>1, <3>2 DEF Outdated
    <3> QED BY <3>1, <3>2
  <2>3. job'.cur = job.cur
    BY <1>1 DEF SameJob
  <2> QED BY <2>1, <2>2, <2>3 DEF Loaded, Outdated
<1>7. FullJob'
  <2> SUFFICES ASSUME job.full, NEW d \in DOMAIN job.cur PROVE Arrives(d)' /\ Loaded(d)'
    BY <1>1 DEF FullJob, SameJob
  <2>1. d \in Docs /\ job'.full /\ job'.cur = job.cur
    BY <1>1, TypesGive, PrintFacts DEF JobType, SameJob
  <2>2. Loaded(d)'
    BY <1>6, <2>1
  <2>3. (d \in job.pending \/ Outdated(d, job.cur[d]))'
    BY <1>1, <2>1 DEF ToLoad, Present, Outdated
  <2>4. Arrives(d)'
    BY <2>3 DEF Arrives
  <2> QED BY <2>2, <2>4
<1>8. IncrementalJob'
  <2> SUFFICES ASSUME ~job.full PROVE Incremental0'
    BY <1>1 DEF IncrementalJob, SameJob
  <2>1. pc = "remove" /\ job.pending = {} /\ Incremental0
    BY <1>1, <1>2 DEF Syncing, IncrementalJob
  <2>2. \A d \in Docs : Sure(d)' /\ ~Same(d)' => Loaded(d)'
    BY <1>5, <1>6, <2>1 DEF Incremental0
  <2>3. job'.pending \subseteq Differs'
    BY <1>1, <1>5, <2>1 DEF ToLoad, Differs
  <2> QED BY <1>1, <1>3, <2>1, <2>2, <2>3 DEF Incremental0, SameJob, Outdated
<1> QED BY <1>1, <1>2, <1>3, <1>4, <1>7, <1>8 DEF Syncing, Shape, IncrementalSave

\* The old chunks of a full rebuild go: what it will hold is what is queued.
LEMMA ReplaceSyncing ==
    ASSUME Types, Syncing, Replace
    PROVE  Syncing'
<1>1. /\ pc = "read" /\ job.pending = {} /\ job.full /\ pc' = "add" /\ suspect' = Docs
      /\ job'.full = job.full /\ job'.cur = job.cur /\ job'.pending = job.pending
      /\ job'.todo = job.todo /\ job'.missed = job.missed /\ index' \in [Chunks -> 0..2]
      /\ \A d \in job'.removed : \A c \in Chunks : c[1] = d => index'[c] = 0
      /\ UNCHANGED <<disk, fp>>
  BY ReplaceFacts
<1>2. IsInjective(job.todo) /\ \A d \in DOMAIN job.cur : Arrives(d) /\ Loaded(d)
  BY <1>1 DEF Syncing, Shape, FullJob
<1>3. \A c \in Chunks : Held(c) = 0 /\ Held(c)' = index'[c]
  BY <1>1 DEF Held
<1>4. Queued' = Queued /\ Wanted' = Wanted
  BY <1>1 DEF Queued, Wanted
<1>5. ASSUME NEW d \in DOMAIN job.cur, d \in job'.removed PROVE Loaded(d)'
  <2>1. \A c \in Chunks : c[1] = d => Held(c) = 0 /\ Held(c)' = 0
    BY <1>1, <1>3, <1>5
  <2>2. (Clean(d)' <=> Clean(d)) /\ \A v : Split(d, v)' <=> Split(d, v)
    BY <1>4, <2>1 DEF Clean, Split
  <2> QED BY <1>1, <1>2, <1>4, <2>2 DEF Loaded, Outdated
<1>6. ASSUME NEW d \in DOMAIN job.cur PROVE Arrives(d)'
  <2>1. Arrives(d)
    BY <1>2
  <2>2. CASE d \in job.pending \cup job.missed \/ Outdated(d, job.cur[d])
    BY <1>1, <2>2 DEF Arrives, Outdated
  <2>3. CASE \E v \in job.cur[d]..disk[d].version :
               \A c \in Chunks : c[1] = d /\ c[2] = v => c \in Queued \/ Held(c) > 0
    <3>1. PICK v \in job.cur[d]..disk[d].version :
             \A c \in Chunks : c[1] = d /\ c[2] = v => c \in Queued \/ Held(c) > 0
      BY <2>3
    <3>2. \A c \in Chunks : c[1] = d /\ c[2] = v => c \in Queued'
      BY <1>3, <1>4, <3>1
    <3> QED BY <1>1, <3>1, <3>2 DEF Arrives
  <2> QED BY <2>1, <2>2, <2>3 DEF Arrives
<1>7. Described'
  BY <1>1 DEF Described
<1> QED BY <1>1, <1>2, <1>5, <1>6, <1>7
       DEF Syncing, Shape, FullJob, IncrementalJob, IncrementalSave

\* A file is read: of the version of this moment, which no older one follows.
LEMMA ReadSyncing ==
    ASSUME Types, Syncing, NEW d \in Docs, ReadDoc(d)
    PROVE  Syncing'
<1>1. IsInjective(job.todo) /\ pc = "read" /\ d \in job.pending /\ Described
      /\ d \notin job.missed /\ job.pending \cap job.missed = {} /\ \A c \in Queued : c[1] \notin job.pending
  BY DEF Syncing, Shape, ReadDoc
<1>2. /\ SameJob /\ job'.pending = job.pending \ {d} /\ IsInjective(job'.todo)
      /\ UNCHANGED <<disk, fp, index, pc, suspect>>
      /\ \/ /\ disk[d].there /\ job'.missed = job.missed
            /\ \A c \in Chunks : c \in Queued' <=>
                  c \in Queued \/ (c[1] = d /\ c[2] = disk[d].version)
         \/ job'.missed = job.missed \cup {d} /\ job'.todo = job.todo
  BY <1>1, ReadFacts DEF Queued
<1>3. Queued \subseteq Chunks /\ Queued' \subseteq Chunks
  <2>1. job.todo \in Seq(Chunks) /\ job'.todo \in Seq(Chunks)
    BY <1>1, ReadFacts, TypesGive DEF JobType, Queued
  <2> QED BY <2>1, ToSetFacts DEF Queued
<1>4. Differs' = Differs /\ Wanted' = Wanted
      /\ \A e : (Same(e)' <=> Same(e)) /\ (Sure(e)' <=> Sure(e))
  BY <1>2, SameDiffers
<1>5. \A c \in Chunks : Held(c)' = Held(c)
  BY <1>2 DEF Held, SameJob
<1>6. Described'
  BY <1>1, <1>2, DescribedUnchanged
\* d had no chunk queued; the other documents keep theirs.
<1>7. \A c \in Chunks : c[1] # d => (c \in Queued' <=> c \in Queued)
  BY <1>2 DEF Queued
<1>8. \A c \in Chunks : c[1] = d => c \notin Queued
  BY <1>1
<1>9. ASSUME NEW e \in Docs, Loaded(e), e # d PROVE Loaded(e)'
  <2>1. (Clean(e)' <=> Clean(e)) /\ \A v : Split(e, v)' <=> Split(e, v)
    BY <1>5, <1>7, <1>9 DEF Clean, Split
  <2>2. e \in job'.pending \cup job'.missed <=> e \in job.pending \cup job.missed
    BY <1>2, <1>9
  <2> QED BY <1>2, <1>4, <1>9, <2>1, <2>2 DEF Loaded, Outdated, SameJob
<1>10. ASSUME Loaded(d), d \in Wanted, d \in DOMAIN job.cur PROVE Loaded(d)'
  <2>1. \A c \in Chunks : c[1] = d => Held(c) = 0
    BY <1>1, <1>10 DEF Loaded, Clean
  <2>2. CASE job'.missed = job.missed \cup {d} /\ job'.todo = job.todo
    <3>1. Clean(d)'
      BY <1>5, <1>8, <2>1, <2>2 DEF Clean, Queued
    <3> QED BY <2>2, <3>1 DEF Loaded
  <2>3. CASE /\ disk[d].there /\ job'.missed = job.missed
             /\ \A c \in Chunks : c \in Queued' <=>
                   c \in Queued \/ (c[1] = d /\ c[2] = disk[d].version)
    <3>1. PICK v \in Nat : v = disk[d].version
      BY VersionFacts
    <3>2. \A c \in Chunks : c[1] = d => (c \in Queued' <=> c[2] = v) /\ Held(c)' = 0
      BY <1>5, <1>8, <2>1, <2>3, <3>1
    <3>3. Split(d, v)'
      BY <3>2 DEF Split
    <3>4. v \in job.cur[d]..disk[d].version
      BY <1>10, <3>1, VersionFacts
    <3>5. d \in Wanted' \ (job'.pending \cup job'.missed)
      BY <1>1, <1>2, <1>4, <1>10, <2>3
    <3> QED BY <1>2, <3>3, <3>4, <3>5 DEF Loaded, SameJob
  <2> QED BY <1>2, <2>2, <2>3
<1>11. FullJob'
  <2> SUFFICES ASSUME job.full, NEW e \in DOMAIN job.cur PROVE Arrives(e)' /\ Loaded(e)'
    BY <1>1, <1>2 DEF FullJob, SameJob
  <2>1. e \in Docs /\ e \in Wanted /\ Loaded(e)
    BY <1>1, TypesGive, PrintFacts DEF Syncing, FullJob, Wanted, JobType
  <2>2. Loaded(e)'
    BY <1>9, <1>10, <2>1
  <2>3. Loaded(e)' /\ e \in Wanted' => Arrives(e)'
    <3>1. CASE (\E v \in job.cur[e]..disk[e].version : Split(e, v))'
      <4>1. PICK v \in job'.cur[e]..disk'[e].version : Split(e, v)'
        BY <3>1
      <4>2. \A c \in Chunks : c[1] = e /\ c[2] = v => c \in Queued' \/ Held(c)' > 0
        BY <4>1 DEF Split
      <4> QED BY <4>1, <4>2 DEF Arrives
    <3>2. CASE (e \in job.pending \cup job.missed \/ Outdated(e, job.cur[e]))'
      BY <3>2 DEF Arrives
    <3> QED BY <3>1, <3>2 DEF Loaded
  <2> QED BY <1>4, <2>1, <2>2, <2>3
<1>12. IncrementalJob'
  <2> SUFFICES ASSUME ~job.full PROVE Incremental0'
    BY <1>2 DEF IncrementalJob, SameJob
  <2>1. Incremental0 /\ job.pending \subseteq Differs
    BY <1>1 DEF Syncing, IncrementalJob, Incremental0
  <2>2. \A e \in Docs : Sure(e) /\ ~Same(e) => Loaded(e)
    BY <1>1, <2>1 DEF Incremental0
  <2>3. d \in Wanted /\ d \in DOMAIN job.cur
    BY <1>1, <2>1 DEF Wanted, Differs, Added, Updated
  <2>4. \A e \in Docs : Sure(e)' /\ ~Same(e)' => Loaded(e)'
    BY <1>4, <1>9, <1>10, <2>2, <2>3
  <2>5. job'.pending \subseteq Differs'
    BY <1>2, <1>4, <2>1
  <2>6. \A c \in Queued' : c[1] \in Differs'
    <3> TAKE c \in Queued'
    <3>1. c \in Chunks
      BY <1>3
    <3>2. CASE c[1] = d
      BY <1>1, <1>4, <2>1, <3>2
    <3>3. CASE c[1] # d
      BY <1>4, <1>7, <2>1, <3>1, <3>3 DEF Incremental0
    <3> QED BY <3>2, <3>3
  <2> QED BY <1>1, <1>2, <2>1, <2>4, <2>5, <2>6 DEF Incremental0, SameJob, Outdated
<1>13. Shape'
  <2>1. \A c \in Queued' : c[1] \notin job'.pending
    <3> TAKE c \in Queued'
    <3>1. CASE c[1] = d
      BY <1>2, <3>1
    <3>2. CASE c[1] # d
      BY <1>1, <1>2, <1>3, <1>7, <3>2
    <3> QED BY <3>1, <3>2
  <2>2. job'.pending \cap job'.missed = {}
    BY <1>1, <1>2
  <2> QED BY <1>1, <1>2, <2>1, <2>2 DEF Shape
<1> QED BY <1>1, <1>2, <1>6, <1>11, <1>12, <1>13 DEF Syncing, IncrementalSave

\* A batch is added: each of its chunks goes from the queue to the collection.
LEMMA AddSyncing ==
    ASSUME Types, Syncing, AddBatch
    PROVE  Syncing'
<1>1. IsInjective(job.todo) /\ Described
  BY DEF Syncing, Shape
<1>2. PICK batch \in SUBSET Queued :
        /\ Adding /\ pc' = "add" /\ SameJob
        /\ job'.pending = job.pending /\ job'.missed = job.missed /\ IsInjective(job'.todo)
        /\ Queued' \subseteq Queued
        /\ \A c \in Queued : c \in Queued' <=> c \notin batch
        /\ \A c \in Chunks : index'[c] = IF c \in batch /\ index[c] < 2 THEN index[c] + 1 ELSE index[c]
        /\ suspect \subseteq suspect' /\ suspect' \subseteq Docs
        /\ \A d \in suspect' \ suspect : d \notin DOMAIN fp.docs
        /\ \A c \in batch : c[1] \in DOMAIN fp.docs \cup suspect'
        /\ UNCHANGED <<disk, fp>>
  BY <1>1, AddFacts DEF Queued
<1>3. job.pending = {} /\ pc \in {"read", "add"} /\ (pc = "read" => ~job.full)
  BY <1>2 DEF Adding, Syncing, Shape
<1>4. \A c \in Chunks : Held(c) = index[c] /\ Held(c)' = index'[c]
  BY <1>2, <1>3 DEF Held
<1>5. Differs' = Differs /\ Wanted' = Wanted
      /\ \A e : (Same(e)' <=> Same(e)) /\ (Sure(e)' <=> Sure(e))
  BY <1>2, SameDiffers
<1>6. ASSUME NEW d, Clean(d) PROVE Clean(d)' /\ \A c \in Chunks : c[1] = d => index'[c] = 0
  <2> SUFFICES ASSUME NEW c \in Chunks, c[1] = d PROVE index'[c] = 0 /\ c \notin Queued'
    BY <1>4 DEF Clean
  <2>1. index[c] = 0 /\ c \notin Queued /\ c \notin batch
    BY <1>2, <1>4, <1>6 DEF Clean
  <2> QED BY <1>2, <2>1
<1>7. ASSUME NEW d, NEW v, Split(d, v)
      PROVE  Split(d, v)' /\ \A c \in Chunks : c[1] = d => index'[c] <= IF c[2] = v THEN 1 ELSE 0
  <2> SUFFICES ASSUME NEW c \in Chunks, c[1] = d
               PROVE  /\ IF c[2] = v THEN IF c \in Queued' THEN index'[c] = 0 ELSE index'[c] = 1
                         ELSE index'[c] = 0 /\ c \notin Queued'
                      /\ index'[c] <= IF c[2] = v THEN 1 ELSE 0
    BY <1>4 DEF Split
  <2>1. IF c[2] = v THEN IF c \in Queued THEN index[c] = 0 ELSE index[c] = 1
        ELSE index[c] = 0 /\ c \notin Queued
    BY <1>4, <1>7 DEF Split
  <2>2. CASE c \in batch
    <3>1. c \in Queued /\ c \notin Queued' /\ c[2] = v /\ index[c] = 0
      BY <1>2, <2>1, <2>2
    <3>2. index'[c] = 1
      BY <1>2, <2>2, <3>1
    <3> QED BY <3>1, <3>2
  <2>3. CASE c \notin batch
    <3>1. index'[c] = index[c] /\ (c \in Queued' <=> c \in Queued)
      BY <1>2, <2>3
    <3> QED BY <2>1, <3>1
  <2> QED BY <2>2, <2>3
<1>8. \A d : Loaded(d) => Loaded(d)'
  BY <1>2, <1>5, <1>6, <1>7 DEF Loaded, Outdated, SameJob
<1>9. CASE job.full
  <2>1. pc = "add" /\ suspect = Docs
        /\ \A d \in DOMAIN job.cur : Arrives(d) /\ (d \in job.removed => Loaded(d))
    BY <1>3, <1>9 DEF Syncing, FullJob
  <2>2. suspect' = Docs
    BY <1>2, <2>1
  <2>3. Described'
    BY <2>2 DEF Described
  <2>4. \A d \in DOMAIN job'.cur : d \in job'.removed => Loaded(d)'
    BY <1>2, <1>8, <2>1 DEF SameJob
  <2>5. ASSUME NEW d \in DOMAIN job.cur PROVE Arrives(d)'
    <3>1. CASE d \in job.pending \cup job.missed \/ Outdated(d, job.cur[d])
      BY <1>2, <3>1 DEF Arrives, Outdated, SameJob
    <3>2. CASE \E v \in job.cur[d]..disk[d].version :
                 \A c \in Chunks : c[1] = d /\ c[2] = v => c \in Queued \/ Held(c) > 0
      <4>1. PICK v \in job.cur[d]..disk[d].version :
               \A c \in Chunks : c[1] = d /\ c[2] = v => c \in Queued \/ Held(c) > 0
        BY <3>2
      <4>2. ASSUME NEW c \in Chunks, c[1] = d, c[2] = v PROVE c \in Queued' \/ Held(c)' > 0
        <5>1. index[c] \in 0..2 /\ (c \in Queued \/ index[c] > 0)
          BY <1>4, <4>1, <4>2, TypesGive
        <5>2. CASE c \in batch
          BY <1>2, <1>4, <5>1, <5>2
        <5>3. CASE c \notin batch
          BY <1>2, <1>4, <5>1, <5>3
        <5> QED BY <5>2, <5>3
      <4> QED BY <1>2, <4>1, <4>2 DEF Arrives, SameJob
    <3> QED BY <2>1, <3>1, <3>2 DEF Arrives
  <2>6. Shape' /\ FullJob'
    BY <1>2, <1>3, <2>2, <2>4, <2>5 DEF Shape, FullJob, SameJob
  <2> QED BY <1>2, <1>9, <2>3, <2>6 DEF Syncing, IncrementalJob, IncrementalSave, SameJob
<1>10. CASE ~job.full
  <2>1. Incremental0
    BY <1>3, <1>10 DEF Syncing, IncrementalJob
  <2>2. \A d \in Docs : Sure(d) /\ ~Same(d) => Loaded(d)
    BY <1>3, <2>1 DEF Incremental0
  <2>3. Described'
    <3> SUFFICES ASSUME NEW d \in Docs \ suspect' PROVE Matches(d, fp.docs)'
      BY <1>2 DEF Described
    <3>1. Matches(d, fp.docs)
      BY <1>1, <1>2, <2>1 DEF Described, Incremental0
    <3>2. CASE \E c \in batch : c[1] = d
      <4>1. d \in Differs /\ d \in DOMAIN fp.docs
        BY <1>2, <2>1, <3>2 DEF Incremental0
      <4>2. d \in Updated(job.cur, fp.docs) /\ d \in DOMAIN job.cur
        BY <4>1 DEF Differs, Added, Updated
      <4>3. d \in job.removed /\ Outdated(d, fp.docs[d]) /\ fp.docs[d] < job.cur[d] /\ ~Same(d)
        BY <2>1, <4>2 DEF Incremental0, Same, Updated
      <4>4. Loaded(d) /\ ~Clean(d)
        <5>1. PICK c \in batch : c[1] = d
          BY <3>2
        <5>2. c \in Chunks
          <6>1. job.todo \in Seq(Chunks)
            BY TypesGive DEF JobType
          <6> QED BY <1>2, <6>1, ToSetFacts DEF Queued
        <5> QED BY <2>2, <4>3, <5>1, <5>2 DEF Sure, Clean
      <4>5. PICK v \in job.cur[d]..disk[d].version : Split(d, v)
        BY <4>4 DEF Loaded
      <4>6. AtMostOnce(d, v)'
        BY <1>7, <4>5 DEF AtMostOnce
      <4>7. v \in fp.docs[d]..disk[d].version
        BY <4>1, <4>2, <4>3, VersionFacts
      <4>8. Covers(d, fp.docs[d])'
        BY <1>2, <4>3, <4>6, <4>7 DEF Covers, Outdated
      <4> QED BY <1>2, <4>1, <4>8 DEF Matches
    <3>3. CASE ~(\E c \in batch : c[1] = d)
      <4>1. \A c \in Chunks : c[1] = d => index'[c] = index[c]
        BY <1>2, <3>3
      <4>2. ChunksOf(d)' = ChunksOf(d)
        BY <4>1 DEF ChunksOf
      <4> QED BY <1>2, <3>1, <4>1, <4>2 DEF Matches, Covers, AtMostOnce, Exactly, Outdated
    <3> QED BY <3>2, <3>3
  <2>4. \A d \in Docs : Sure(d)' /\ ~Same(d)' => Loaded(d)'
    BY <1>5, <1>8, <2>2
  <2>5. suspect' \subseteq job'.before \cup (Docs \ DOMAIN fp'.docs)
    <3> SUFFICES ASSUME NEW d \in suspect'
                 PROVE  d \in job'.before \cup (Docs \ DOMAIN fp'.docs)
      OBVIOUS
    <3>1. CASE d \in suspect
      BY <1>2, <2>1, <3>1 DEF Incremental0, SameJob
    <3>2. CASE d \notin suspect
      BY <1>2, <3>2
    <3> QED BY <3>1, <3>2
  <2>6. \A c \in Queued' : c[1] \in Differs'
    BY <1>2, <1>5, <2>1 DEF Incremental0
  <2>7. Incremental0'
    BY <1>2, <1>3, <2>1, <2>4, <2>5, <2>6 DEF Incremental0, SameJob, Outdated
  <2>8. Shape'
    BY <1>2, <1>3 DEF Shape
  <2> QED BY <1>2, <1>10, <2>3, <2>7, <2>8
          DEF Syncing, FullJob, IncrementalJob, IncrementalSave, SameJob
<1> QED BY <1>9, <1>10

\* The file of the fingerprint is opened: all chunks are in the collection.
LEMMA TruncateSyncing ==
    ASSUME Types, Syncing, Truncate
    PROVE  Syncing'
<1>1. /\ Adding /\ job.todo = <<>> /\ pc' = "save" /\ fp' = Truncated
      /\ UNCHANGED <<disk, index, job, suspect>>
  BY DEF Truncate
<1>2. job.pending = {} /\ pc \in {"read", "add"} /\ (pc = "read" => ~job.full)
  BY <1>1 DEF Adding, Syncing, Shape
<1>3. Described' /\ Shape'
  BY <1>1, <1>2, EmptyIsInjective DEF Described, Shape, Truncated
<1>4. CASE job.full
  <2>1. pc = "add" /\ \A d \in DOMAIN job.cur : Arrives(d) /\ (d \in job.removed => Loaded(d))
    BY <1>2, <1>4 DEF Syncing, FullJob
  <2>2. \A c : Held(c)' = Held(c)
    BY <1>1, <2>1 DEF Held
  <2>3. Wanted' = Wanted /\ Queued' = Queued
    BY <1>1, <1>4 DEF Wanted, Queued
  <2>4. \A d : (Loaded(d)' <=> Loaded(d)) /\ (Arrives(d)' <=> Arrives(d))
    BY <1>1, <2>2, <2>3 DEF Loaded, Arrives, Clean, Split, Outdated
  <2> QED BY <1>1, <1>3, <1>4, <2>1, <2>4
          DEF Syncing, FullJob, IncrementalJob, IncrementalSave
<1>5. CASE ~job.full
  <2>1. Incremental0 /\ Described
    BY <1>2, <1>5 DEF Syncing, IncrementalJob
  <2>2. ASSUME NEW d \in Docs \ job.missed, Sure(d) PROVE Matches(d, job.cur)
    <3>1. CASE Same(d)
      <4>1. d \notin job.removed /\ d \in DOMAIN fp.docs /\ d \in DOMAIN job.cur
        BY <2>1, <3>1 DEF Incremental0, Same, Removed, Updated
      <4>2. d \notin suspect
        BY <2>1, <2>2, <4>1 DEF Incremental0, Sure
      <4> QED BY <2>1, <3>1, <4>1, <4>2 DEF Described, Incremental0, Matches, Same
    <3>2. CASE ~Same(d)
      <4>1. Loaded(d)
        BY <1>2, <2>1, <2>2, <3>2 DEF Incremental0
      <4>2. d \in DOMAIN job.cur => d \in Wanted
        BY <1>5, <3>2 DEF Same, Wanted, Differs, Added, Updated
      <4> QED BY <1>1, <1>2, <2>2, <4>1, <4>2, LoadedMatches
    <3> QED BY <3>1, <3>2
  <2>3. IncrementalSave'
    BY <1>1, <2>2
       DEF IncrementalSave, Sure, Matches, Covers, ChunksOf, AtMostOnce, Exactly, Outdated
  <2> QED BY <1>1, <1>3, <1>5, <2>3 DEF Syncing, FullJob, IncrementalJob
<1> QED BY <1>4, <1>5

\* The fingerprint is written.
LEMMA SaveSyncing ==
    ASSUME Types, Syncing, Save
    PROVE  Syncing'
<1>1. /\ pc = "save" /\ pc' = "idle" /\ fp'.docs = job.cur /\ suspect' = Unsure
      /\ UNCHANGED <<disk, index>>
  BY SaveFacts
<1>2. job' = NoJob /\ IsInjective(job'.todo)
  BY EmptyIsInjective DEF Save, End, NoJob
<1>3. job.todo = <<>> /\ job.pending = {}
  BY <1>1 DEF Syncing, Shape
<1>4. ASSUME NEW d \in Docs \ Unsure PROVE Matches(d, job.cur)
  <2>1. CASE job.full
    <3>1. CASE d \in DOMAIN job.cur
      <4>1. d \notin job.missed /\ d \in job.removed
        BY <1>4, <2>1, <3>1 DEF Unsure
      <4>2. Loaded(d) /\ d \in Wanted
        BY <1>1, <2>1, <3>1, <4>1 DEF Syncing, FullJob, Wanted
      <4> QED BY <1>1, <1>3, <4>1, <4>2, LoadedMatches
    <3>2. CASE d \notin DOMAIN job.cur
      <4>1. ChunksOf(d) = {}
        BY <1>4, <2>1, <3>2 DEF Unsure
      <4> QED BY <3>2, <4>1 DEF Matches
    <3> QED BY <3>1, <3>2
  <2>2. CASE ~job.full
    <3>1. d \notin job.missed /\ Sure(d)
      BY <1>4, <2>2 DEF Unsure, Sure
    <3> QED BY <1>1, <2>2, <3>1 DEF Syncing, IncrementalSave
  <2> QED BY <2>1, <2>2
<1>5. Described'
  <2> SUFFICES ASSUME NEW d \in Docs \ suspect' PROVE Matches(d, fp.docs)'
    BY DEF Described
  <2>1. Matches(d, job.cur)
    BY <1>1, <1>4
  <2> QED BY <1>1, <2>1 DEF Matches, Covers, ChunksOf, AtMostOnce, Exactly, Outdated
<1> QED BY <1>1, <1>2, <1>5, Idle DEF NoJobRuns

LEMMA FailsSyncing ==
    ASSUME Types, Syncing, Fails
    PROVE  Syncing'
<1>1. /\ UNCHANGED <<disk, fp, index, suspect>> /\ pc' \in {"list", "idle"}
      /\ pc' = "list" => job'.full /\ job'.todo = <<>> /\ job'.missed = {}
  BY FailsFacts
<1>2. Described'
  BY <1>1, DescribedUnchanged DEF Syncing
<1>3. CASE pc' = "list"
  BY <1>1, <1>2, <1>3, ListBegins
<1>4. CASE pc' = "idle"
  <2>1. job' = NoJob
    BY <1>4 DEF Fails, Begin, End
  <2>2. IsInjective(job'.todo)
    BY <2>1, EmptyIsInjective DEF NoJob
  <2> QED BY <1>2, <1>4, <2>2, Idle DEF NoJobRuns
<1> QED BY <1>1, <1>3, <1>4

\* A document is written or deleted, at any step of a job.
LEMMA FilesSyncing ==
    ASSUME Types, Syncing, NEW f \in Docs, Write(f) \/ Delete(f)
    PROVE  Syncing'
<1>1. /\ \A d \in Docs : disk[d].version <= disk'[d].version
      /\ \A d \in Docs : \A p \in Nat :
            p <= disk[d].version /\ ~(disk[d].there /\ disk[d].version = p)
               => ~(disk'[d].there /\ disk'[d].version = p)
      /\ UNCHANGED <<fp, index, memories, pc, ready, job, flag, crashes, failures, suspect>>
      /\ disk' \in DiskType
  BY FilesFacts
<1>2. /\ \A d \in Docs : disk[d].version \in Nat /\ disk'[d].version \in Nat
      /\ \A d \in Docs : d \in DOMAIN fp.docs => fp.docs[d] \in Nat /\ fp.docs[d] <= disk[d].version
      /\ \A d \in Docs : d \in DOMAIN job.cur => job.cur[d] \in Nat /\ job.cur[d] <= disk[d].version
      /\ DOMAIN fp.docs \subseteq Docs /\ DOMAIN job.cur \subseteq Docs
  BY <1>1, VersionFacts, TypesGive, PrintFacts DEF DiskType, PrintType, JobType
<1>3. \A d \in Docs : \A p \in Nat : p <= disk[d].version /\ Outdated(d, p) => Outdated(d, p)'
  BY <1>1 DEF Outdated
<1>4. /\ \A d : ChunksOf(d)' = ChunksOf(d)
      /\ \A d, v : AtMostOnce(d, v)' = AtMostOnce(d, v) /\ Exactly(d, v)' = Exactly(d, v)
  BY <1>1 DEF ChunksOf, AtMostOnce, Exactly
<1>5. ASSUME NEW d \in Docs, NEW p \in Nat, p <= disk[d].version, Covers(d, p)
      PROVE  Covers(d, p)'
  <2>1. PICK v \in p..disk[d].version : AtMostOnce(d, v) /\ (Outdated(d, p) \/ Exactly(d, v))
    BY <1>5 DEF Covers
  <2>2. v \in p..disk'[d].version
    BY <1>1, <1>2, <2>1
  <2>3. AtMostOnce(d, v)' /\ (Outdated(d, p)' \/ Exactly(d, v)')
    BY <1>3, <1>4, <1>5, <2>1
  <2> QED BY <2>2, <2>3 DEF Covers
<1>6. ASSUME NEW d \in Docs, Matches(d, fp.docs)
      PROVE  Matches(d, fp.docs)'
  BY <1>1, <1>2, <1>4, <1>5, <1>6 DEF Matches
<1>7. ASSUME NEW d \in Docs, Matches(d, job.cur)
      PROVE  Matches(d, job.cur)'
  BY <1>1, <1>2, <1>4, <1>5, <1>7 DEF Matches
<1>8. Queued' = Queued /\ Wanted' = Wanted /\ Differs' = Differs /\ \A c : Held(c)' = Held(c)
  BY <1>1 DEF Queued, Wanted, Differs, Held
<1>9. /\ \A d : Clean(d)' <=> Clean(d)
      /\ \A d, v : Split(d, v)' <=> Split(d, v)
  BY <1>8 DEF Clean, Split
<1>10. ASSUME NEW d \in Docs, Loaded(d) PROVE Loaded(d)'
  <2>1. CASE Clean(d) /\ (d \in job.pending \cup job.missed \/ d \notin Wanted)
    BY <1>1, <1>8, <1>9, <2>1 DEF Loaded
  <2>2. CASE Clean(d) /\ d \in Wanted /\ Outdated(d, job.cur[d])
    <3>1. d \in DOMAIN job.cur
      BY <2>2 DEF Wanted, Differs, Added, Updated
    <3>2. PICK p \in Nat : p = job.cur[d]
      BY <1>2, <3>1
    <3>3. Outdated(d, p)'
      BY <1>2, <1>3, <2>2, <3>1, <3>2
    <3> QED BY <1>1, <1>9, <2>2, <3>2, <3>3 DEF Loaded
  <2>3. CASE /\ d \in Wanted \ (job.pending \cup job.missed)
             /\ \E v \in job.cur[d]..disk[d].version : Split(d, v)
    <3>1. d \in DOMAIN job.cur
      BY <2>3 DEF Wanted, Differs, Added, Updated
    <3>2. PICK v \in job.cur[d]..disk[d].version : Split(d, v)
      BY <2>3
    <3>3. v \in job.cur[d]..disk'[d].version
      BY <1>1, <1>2, <3>1, <3>2
    <3>4. Split(d, v)'
      BY <1>9, <3>2
    <3>5. job'.cur = job.cur /\ d \in Wanted' \ (job'.pending \cup job'.missed)
      BY <1>1, <1>8, <2>3
    <3> QED BY <3>3, <3>4, <3>5 DEF Loaded
  <2> QED BY <1>10, <2>1, <2>2, <2>3 DEF Loaded
<1>11. Described'
  BY <1>1, <1>6 DEF Syncing, Described
<1>12. Shape'
  BY <1>1, <1>8 DEF Syncing, Shape
<1>13. FullJob'
  <2>1. ASSUME NEW d \in DOMAIN job.cur, Arrives(d) PROVE Arrives(d)'
    <3>1. d \in Docs /\ job'.cur[d] = job.cur[d] /\ job.cur[d] \in Nat /\ job.cur[d] <= disk[d].version
      BY <1>1, <1>2
    <3>2. CASE d \in job.pending \cup job.missed
      BY <1>1, <3>2 DEF Arrives
    <3>3. CASE Outdated(d, job.cur[d])
      <4>1. PICK p \in Nat : p = job.cur[d] /\ p <= disk[d].version
        BY <3>1
      <4>2. Outdated(d, p)'
        BY <1>3, <3>1, <3>3, <4>1
      <4> QED BY <3>1, <4>1, <4>2 DEF Arrives
    <3>4. CASE \E v \in job.cur[d]..disk[d].version :
                 \A c \in Chunks : c[1] = d /\ c[2] = v => c \in Queued \/ Held(c) > 0
      <4>1. PICK v \in job.cur[d]..disk[d].version :
               \A c \in Chunks : c[1] = d /\ c[2] = v => c \in Queued \/ Held(c) > 0
        BY <3>4
      <4>2. v \in job'.cur[d]..disk'[d].version
        BY <1>1, <1>2, <3>1, <4>1
      <4>3. \A c \in Chunks : c[1] = d /\ c[2] = v => c \in Queued' \/ Held(c)' > 0
        BY <1>8, <4>1
      <4> QED BY <4>2, <4>3 DEF Arrives
    <3> QED BY <2>1, <3>2, <3>3, <3>4 DEF Arrives
  <2> QED BY <1>1, <1>2, <1>10, <2>1 DEF Syncing, FullJob
<1>14. IncrementalJob'
  <2> SUFFICES ASSUME ~job.full, pc \in {"remove", "read", "add"} PROVE Incremental0'
    BY <1>1 DEF IncrementalJob
  <2>1. Incremental0
    BY DEF Syncing, IncrementalJob
  <2>2. \A d \in job.removed : Outdated(d, fp.docs[d])'
    <3> SUFFICES ASSUME NEW d \in job.removed PROVE Outdated(d, fp.docs[d])'
      OBVIOUS
    <3>1. d \in DOMAIN fp.docs /\ Outdated(d, fp.docs[d])
      BY <2>1 DEF Incremental0, Removed, Updated
    <3>2. PICK p \in Nat : p = fp.docs[d]
      BY <1>2, <3>1
    <3>3. Outdated(d, p)'
      BY <1>2, <1>3, <3>1, <3>2
    <3> QED BY <1>1, <3>2, <3>3
  <2>3. \A d \in Docs : (Sure(d) <=> Sure(d)') /\ (Same(d) <=> Same(d)')
    BY <1>1 DEF Sure, Same
  <2>4. \A d \in Docs : Sure(d)' /\ ~Same(d)' =>
          IF pc' = "remove" THEN d \in job'.pending \/ ChunksOf(d)' = {} ELSE Loaded(d)'
    BY <1>1, <1>4, <1>10, <2>1, <2>3 DEF Incremental0
  <2> QED BY <1>1, <1>8, <2>1, <2>2, <2>4 DEF Incremental0
<1>15. IncrementalSave'
  BY <1>1, <1>7 DEF Syncing, IncrementalSave, Sure
<1> QED BY <1>11, <1>12, <1>13, <1>14, <1>15 DEF Syncing

\* Steps that touch neither files, nor records, nor chunks, nor the job.
LEMMA SyncingUnchanged ==
    ASSUME Syncing, UNCHANGED <<disk, fp, index, pc, job, suspect>>
    PROVE  Syncing'
<1>1. Described'
  BY DescribedUnchanged DEF Syncing
<1>2. Queued' = Queued /\ Wanted' = Wanted /\ Differs' = Differs /\ \A c : Held(c)' = Held(c)
  BY DEF Queued, Wanted, Differs, Held
<1>3. /\ \A d : Clean(d)' <=> Clean(d)
      /\ \A d, v : Split(d, v)' <=> Split(d, v)
      /\ \A d, p : Outdated(d, p)' <=> Outdated(d, p)
  BY <1>2 DEF Clean, Split, Outdated
<1>4. \A d : (Loaded(d)' <=> Loaded(d)) /\ (Arrives(d)' <=> Arrives(d))
  BY <1>2, <1>3 DEF Loaded, Arrives
<1>5. Shape' /\ FullJob'
  BY <1>2, <1>4 DEF Syncing, Shape, FullJob
<1>6. IncrementalJob'
  BY <1>2, <1>3, <1>4 DEF Syncing, IncrementalJob, Incremental0, Sure, Same, ChunksOf
<1>7. IncrementalSave'
  BY DEF Syncing, IncrementalSave, Sure, Matches, Covers, ChunksOf, AtMostOnce, Exactly, Outdated
<1> QED BY <1>1, <1>5, <1>6, <1>7 DEF Syncing

\* The process stops in the middle of a job, and starts again.
LEMMA StopsSyncing ==
    ASSUME Types, Syncing, Stops
    PROVE  Syncing'
<1>1. CASE Crash \/ Reset
  <2>1. pc' = "off" /\ UNCHANGED <<disk, fp, index, suspect>>
    BY <1>1, StopsFacts
  <2>2. job' \in {NoJob, job}
    BY <1>1 DEF Crash, Reset
  <2>3. IsInjective(job'.todo)
    BY <2>2, EmptyIsInjective DEF Syncing, Shape, NoJob
  <2> QED BY <2>1, <2>3, DescribedUnchanged, Idle DEF Syncing, NoJobRuns
<1>2. CASE Boot
  <2>1. /\ pc' = "idle" /\ disk' = disk /\ job' = job
        /\ (fp' = fp /\ index' = index /\ suspect' = suspect) \/ suspect' = Docs
    BY <1>2, BootFacts
  <2>2. Described'
    <3>1. CASE fp' = fp /\ index' = index /\ suspect' = suspect
      BY <2>1, <3>1, DescribedUnchanged DEF Syncing
    <3>2. CASE suspect' = Docs
      BY <3>2 DEF Described
    <3> QED BY <2>1, <3>1, <3>2
  <2> QED BY <2>1, <2>2, Idle DEF NoJobRuns, Syncing, Shape
<1> QED BY <1>1, <1>2 DEF Stops

LEMMA StepSyncing ==
    ASSUME Types, Syncing, [Next]_vars
    PROVE  Types' /\ Syncing'
<1>1. CASE Job
  BY <1>1, JobTypes, JobSyncing
<1>2. CASE Work
  <2>1. /\ IsInjective(job.todo)
        /\ pc = "read" => \A d \in job.pending : \A c \in ToSet(job.todo) : c[1] # d
    BY DEF Syncing, Shape, Queued
  <2>2. Types'
    BY <1>2, <2>1, WorkTypes
  <2> QED BY <1>2, <2>2, RemoveSyncing, ReadSyncing, ListSyncing, ReplaceSyncing, AddSyncing,
             TruncateSyncing, SaveSyncing, FailsSyncing DEF Work
<1>3. CASE Users
  <2>1. Types'
    BY <1>3, OtherTypes
  <2>2. CASE AddMemory
    BY <2>1, <2>2, SyncingUnchanged DEF AddMemory
  <2> QED BY <1>3, <2>1, <2>2, FilesSyncing DEF Users
<1>4. CASE Stops
  BY <1>4, OtherTypes, StopsSyncing
<1>5. CASE UNCHANGED vars
  BY <1>5, OtherTypes, SyncingUnchanged DEF vars
<1> QED BY <1>1, <1>2, <1>3, <1>4, <1>5 DEF Next

-----------------------------------------------------------------------------
(* The theorems.                                                            *)

\* In every reachable state the variables have their types, neither record is ahead of the
\* files, and the fingerprint and the running job say what the collection holds.
THEOREM SynchronisationHolds == Spec => [](Types /\ Syncing)
<1>1. Init => Types /\ Syncing
  BY InitTypes, InitSyncing
<1>2. Types /\ Syncing /\ [Next]_vars => (Types /\ Syncing)'
  BY StepSyncing
<1> QED BY <1>1, <1>2, PTL DEF Spec

\* Every variable keeps its type, and no chunk counter leaves its cap.
THEOREM TypeCorrect == Spec => []TypeOK
<1>1. Types => TypeOK
  BY DEF Types
<1> QED BY <1>1, SynchronisationHolds, PTL

\* A full rebuild ends with each document it recorded and could read indexed, as new as
\* recorded, and once where its old chunks could be dropped, whatever stops, failures and
\* edits came before it or fell into it.
THEOREM RebuildIsHealing == Spec => []RebuildHeals
<1>1. ASSUME Types, Syncing PROVE RebuildHeals
  <2> SUFFICES ASSUME pc = "save", job.full, NEW d \in DOMAIN job.cur \ job.missed
               PROVE  /\ \/ disk[d] # [there |-> TRUE, version |-> job.cur[d]]
                         \/ \E v \in Versions : v >= job.cur[d] /\ Wholly(d, v)
                      /\ d \in job.removed =>
                         \/ ChunksOf(d) = {} /\ disk[d] # [there |-> TRUE, version |-> job.cur[d]]
                         \/ \E v \in Versions : v >= job.cur[d] /\ Exactly(d, v)
    BY DEF RebuildHeals
  <2>1. d \in Docs /\ job.cur[d] \in Versions
    BY <1>1, TypesGive, PrintFacts DEF JobType
  <2>2. /\ Arrives(d) /\ (d \in job.removed => Loaded(d)) /\ d \in Wanted
        /\ job.todo = <<>> /\ job.pending = {}
    BY <1>1 DEF Syncing, FullJob, Shape, Wanted
  <2>3. Outdated(d, job.cur[d]) => disk[d] # [there |-> TRUE, version |-> job.cur[d]]
    BY DEF Outdated
  <2>4. \A v \in job.cur[d]..disk[d].version : v \in Versions /\ v >= job.cur[d]
    <3>1. disk[d].version \in 0..MaxVersion
      BY <1>1, <2>1, TypesGive DEF DiskType
    <3> QED BY <2>1, <3>1, KBAssumption DEF Versions
  <2>5. CASE Outdated(d, job.cur[d])
    BY <1>1, <2>1, <2>2, <2>3, <2>4, <2>5, LoadedMatches
  <2>6. CASE \E v \in job.cur[d]..disk[d].version :
               \A c \in Chunks : c[1] = d /\ c[2] = v => c \in Queued \/ Held(c) > 0
    <3>1. PICK v \in job.cur[d]..disk[d].version :
             \A c \in Chunks : c[1] = d /\ c[2] = v => c \in Queued \/ Held(c) > 0
      BY <2>6
    <3>2. Queued = {} /\ \A c : Held(c) = index[c]
      BY <2>2, EmptyIsInjective DEF Queued, Held
    <3>3. Wholly(d, v)
      BY <3>1, <3>2 DEF Wholly
    <3>4. d \in job.removed =>
             \/ ChunksOf(d) = {} /\ Outdated(d, job.cur[d])
             \/ \E w \in job.cur[d]..disk[d].version : Exactly(d, w)
      BY <1>1, <2>1, <2>2, LoadedMatches
    <3> QED BY <2>3, <2>4, <3>1, <3>3, <3>4
  <2> QED BY <2>2, <2>5, <2>6 DEF Arrives
<1> QED BY <1>1, SynchronisationHolds, PTL

\* Between two jobs the fingerprint is not ahead of the collection, for any document not in
\* doubt: no change of it that the next job has to see is hidden from diff_fingerprint.
THEOREM RecordIsNotAhead == Spec => []RecordNotAhead
<1>1. ASSUME Types, Syncing PROVE RecordNotAhead
  <2> SUFFICES ASSUME fp.kind # "corrupt", NEW d \in Docs \ suspect
               PROVE  \/ ChunksOf(d) = {}
                      \/ Recorded(d) /\ \E v \in Versions : v >= fp.docs[d] /\ AtMostOnce(d, v)
    BY DEF RecordNotAhead, Rest
  <2>1. Matches(d, fp.docs)
    BY <1>1 DEF Syncing, Described
  <2>2. CASE d \notin DOMAIN fp.docs
    BY <2>1, <2>2 DEF Matches
  <2>3. CASE d \in DOMAIN fp.docs
    <3>1. PICK v \in fp.docs[d]..disk[d].version : AtMostOnce(d, v)
      BY <2>1, <2>3 DEF Matches, Covers
    <3>2. disk[d].version \in 0..MaxVersion /\ fp.docs[d] \in Versions
      BY <1>1, <2>3, TypesGive, PrintFacts DEF DiskType, PrintType
    <3>3. v \in Versions /\ v >= fp.docs[d]
      BY <3>1, <3>2, KBAssumption DEF Versions
    <3> QED BY <2>3, <3>1, <3>3 DEF Recorded
  <2> QED BY <2>2, <2>3
<1> QED BY <1>1, SynchronisationHolds, PTL

\* Between two jobs a document that /api/kb/documents shows as synced, and that is not in
\* doubt, is in the collection: each chunk of the version on disk once, and no other chunk.
THEOREM SyncedDocumentsAreExact == Spec => []SyncedIsExact
<1>1. ASSUME Types, Syncing PROVE SyncedIsExact
  <2> SUFFICES ASSUME fp.kind # "corrupt", NEW d \in Docs \ suspect, Synced(d)
               PROVE  Exactly(d, disk[d].version)
    BY DEF SyncedIsExact, Rest
  <2>1. Matches(d, fp.docs)
    BY <1>1 DEF Syncing, Described
  <2>2. d \in DOMAIN fp.docs /\ ~Outdated(d, fp.docs[d]) /\ fp.docs[d] = disk[d].version
    BY DEF Synced, Recorded, Outdated
  <2>3. PICK v \in fp.docs[d]..disk[d].version : Exactly(d, v)
    BY <2>1, <2>2 DEF Matches, Covers
  <2>4. v = disk[d].version
    BY <1>1, <2>2, <2>3, VersionFacts
  <2> QED BY <2>3, <2>4
<1> QED BY <1>1, SynchronisationHolds, PTL
=============================================================================
