------------------------ MODULE VectorSearch_proofs -------------------------
(***************************************************************************)
(* What the keyword index and the search cache say of the collection, for  *)
(* any number of updaters and searching threads, of chunks, failures and   *)
(* restarts: the types, the invariant of the index, that of the cache and  *)
(* what a search computes, and the three properties they carry.            *)
(***************************************************************************)
EXTENDS VectorSearch, SequenceTheorems, TLAPS

-----------------------------------------------------------------------------
(* Sequences.                                                               *)

LEMMA ToSetFacts ==
    ASSUME NEW S, NEW s \in Seq(S)
    PROVE  ToSet(s) \subseteq S /\ \A c : c \in ToSet(s) <=> \E i \in 1..Len(s) : s[i] = c
<1>1. s \in [1..Len(s) -> S] /\ DOMAIN s = 1..Len(s)
  BY LenProperties
<1> QED BY <1>1 DEF ToSet

LEMMA NothingIn == ToSet(<<>>) = {} /\ IsInjective(<<>>)
<1>1. DOMAIN <<>> = {}
  OBVIOUS
<1> QED BY <1>1 DEF ToSet, IsInjective

\* A chunk that is not in a sequence, at its end.
LEMMA AppendFresh ==
    ASSUME NEW S, NEW s \in Seq(S), IsInjective(s), NEW c \in S, c \notin ToSet(s)
    PROVE  /\ Append(s, c) \in Seq(S) /\ IsInjective(Append(s, c))
           /\ \A d : d \in ToSet(Append(s, c)) <=> d \in ToSet(s) \/ d = c
<1> DEFINE t == Append(s, c)
<1>1. /\ t \in Seq(S) /\ Len(t) = Len(s) + 1 /\ Len(s) \in Nat
      /\ \A i \in 1..Len(s) : t[i] = s[i]
      /\ t[Len(s) + 1] = c
  BY AppendProperties, LenProperties
<1> HIDE DEF t
<1>2. \A i \in 1..Len(t) : i \in 1..Len(s) \/ i = Len(s) + 1
  BY <1>1
<1>3. \A d : d \in ToSet(t) <=> d \in ToSet(s) \/ d = c
  <2>1. ASSUME NEW d \in ToSet(t) PROVE d \in ToSet(s) \/ d = c
    <3>1. PICK i \in 1..Len(t) : t[i] = d
      BY <1>1, ToSetFacts
    <3> QED BY <1>1, <1>2, <3>1, ToSetFacts
  <2>2. ASSUME NEW d \in ToSet(s) PROVE d \in ToSet(t)
    <3>1. PICK i \in 1..Len(s) : s[i] = d
      BY ToSetFacts
    <3>2. i \in 1..Len(t) /\ t[i] = d
      BY <1>1, <3>1
    <3> QED BY <1>1, <3>2, ToSetFacts
  <2>3. c \in ToSet(t)
    <3>1. Len(s) + 1 \in 1..Len(t)
      BY <1>1
    <3> QED BY <1>1, <3>1, ToSetFacts
  <2> QED BY <2>1, <2>2, <2>3
<1>4. \A i, j \in 1..Len(s) : s[i] = s[j] => i = j
  BY LenProperties DEF IsInjective
<1>5. \A i \in 1..Len(s) : s[i] # c
  BY ToSetFacts
<1>6. \A i, j \in 1..Len(t) : t[i] = t[j] => i = j
  BY <1>1, <1>2, <1>4, <1>5
<1>7. DOMAIN t = 1..Len(t)
  BY <1>1, LenProperties
<1> QED BY <1>1, <1>3, <1>6, <1>7 DEF IsInjective, t

\* The head of a sequence without repetition is not in its tail.
LEMMA HeadAndTail ==
    ASSUME NEW S, NEW s \in Seq(S), IsInjective(s), s # <<>>
    PROVE  /\ Head(s) \in S /\ Head(s) \in ToSet(s)
           /\ Tail(s) \in Seq(S) /\ IsInjective(Tail(s))
           /\ Len(s) \in Nat \ {0} /\ (Tail(s) = <<>> <=> Len(s) = 1)
           /\ \A c \in ToSet(Tail(s)) : c \in ToSet(s) /\ c # Head(s)
<1> DEFINE t == Tail(s)
<1>1. /\ Len(s) \in Nat \ {0} /\ Head(s) = s[1] /\ Head(s) \in S
      /\ t \in Seq(S) /\ Len(t) = Len(s) - 1
      /\ \A i \in 1..Len(t) : t[i] = s[i + 1]
  BY HeadTailProperties, LenProperties, EmptySeq
<1> HIDE DEF t
<1>2. t = <<>> <=> Len(s) = 1
  BY <1>1, EmptySeq
<1>3. \A i, j \in 1..Len(s) : s[i] = s[j] => i = j
  BY LenProperties DEF IsInjective
<1>4. \A i \in 1..Len(t) : i + 1 \in 1..Len(s) /\ i + 1 # 1
  BY <1>1
<1>5. 1 \in 1..Len(s)
  BY <1>1
<1>6. ASSUME NEW i \in 1..Len(t), NEW j \in 1..Len(t), t[i] = t[j] PROVE i = j
  <2>1. i + 1 = j + 1
    BY <1>1, <1>3, <1>4, <1>6
  <2> QED BY <2>1
<1>7. DOMAIN t = 1..Len(t)
  BY <1>1, LenProperties
<1>8. ASSUME NEW c \in ToSet(t) PROVE c \in ToSet(s) /\ c # Head(s)
  <2>1. PICK i \in 1..Len(t) : t[i] = c
    BY <1>1, ToSetFacts
  <2>2. s[i + 1] = c
    BY <1>1, <2>1
  <2> QED BY <1>1, <1>3, <1>4, <1>5, <2>2, ToSetFacts
<1>9. Head(s) \in ToSet(s)
  BY <1>1, <1>5, ToSetFacts
<1> QED BY <1>1, <1>2, <1>6, <1>7, <1>8, <1>9 DEF IsInjective, t

\* A sequence without repetition, with one of its elements taken out.
LEMMA RemoveFirstFacts ==
    ASSUME NEW S, NEW s \in Seq(S), IsInjective(s), NEW e
    PROVE  /\ RemoveFirst(s, e) \in Seq(S) /\ IsInjective(RemoveFirst(s, e))
           /\ ToSet(RemoveFirst(s, e)) \subseteq ToSet(s)
<1>1. /\ Len(s) \in Nat /\ DOMAIN s = 1..Len(s)
      /\ \A i, j \in 1..Len(s) : s[i] = s[j] => i = j
      /\ \A i \in 1..Len(s) : s[i] \in S
  BY LenProperties DEF IsInjective
<1>2. CASE ~\E i \in 1..Len(s) : s[i] = e
  BY <1>2 DEF RemoveFirst
<1>3. CASE \E i \in 1..Len(s) : s[i] = e
  <2>1. PICK k \in 1..Len(s) : s[k] = e
    BY <1>3
  <2>2. SelectInSeq(s, LAMBDA v : v = e) = k
    <3>1. {i \in 1..Len(s) : s[i] = e} = {k}
      BY <1>1, <2>1
    <3>2. Min({k}) = k
      BY DEF Min
    <3> QED BY <3>1, <3>2 DEF SelectInSeq
  <2> DEFINE a == SubSeq(s, 1, k - 1)
             b == SubSeq(s, k + 1, Len(s))
             t == a \o b
  <2>3. RemoveFirst(s, e) = t
    BY <1>3, <2>2 DEF RemoveFirst, RemoveAt
  <2>4. k \in Nat /\ k >= 1 /\ k <= Len(s)
    BY <1>1
  <2>5. /\ a \in Seq(S) /\ Len(a) = k - 1 /\ \A i \in 1..(k - 1) : a[i] = s[i]
    <3>1. \A i \in 1..(k - 1) : s[i] \in S /\ 1 + i - 1 = i
      BY <1>1, <2>4
    <3>2. k - 1 - 1 + 1 = k - 1 /\ 1 \in Int /\ k - 1 \in Int
      BY <2>4
    <3>3. /\ a \in Seq(S) /\ Len(a) = IF 1 <= k - 1 THEN k - 1 - 1 + 1 ELSE 0
          /\ \A i \in 1..(k - 1 - 1 + 1) : a[i] = s[1 + i - 1]
      BY <3>1, <3>2, SubSeqProperties
    <3> QED BY <2>4, <3>1, <3>2, <3>3
  <2>6. /\ b \in Seq(S) /\ Len(b) = Len(s) - k /\ \A i \in 1..(Len(s) - k) : b[i] = s[k + i]
    <3>1. \A i \in (k + 1)..Len(s) : s[i] \in S
      BY <1>1, <2>4
    <3>2. Len(s) - (k + 1) + 1 = Len(s) - k /\ k + 1 \in Int /\ Len(s) \in Int
      BY <1>1, <2>4
    <3>3. /\ b \in Seq(S) /\ Len(b) = IF k + 1 <= Len(s) THEN Len(s) - (k + 1) + 1 ELSE 0
          /\ \A i \in 1..(Len(s) - (k + 1) + 1) : b[i] = s[k + 1 + i - 1]
      BY <3>1, <3>2, SubSeqProperties
    <3>4. ASSUME NEW i \in 1..(Len(s) - k) PROVE b[i] = s[k + i]
      <4>1. k + 1 + i - 1 = k + i
        BY <1>1, <2>4
      <4> QED BY <3>2, <3>3, <4>1
    <3> HIDE DEF b
    <3>5. Len(b) = Len(s) - k
      <4>1. Len(b) = IF k + 1 <= Len(s) THEN Len(s) - (k + 1) + 1 ELSE 0
        BY <3>3
      <4>2. Len(s) \in Nat
        BY <1>1
      <4> QED BY <4>1, <4>2, <2>4
    <3> QED BY <3>3, <3>4, <3>5
  <2> HIDE DEF a, b
  <2>7. /\ t \in Seq(S) /\ Len(t) = Len(s) - 1
        /\ \A i \in 1..Len(t) : t[i] = IF i <= k - 1 THEN a[i] ELSE b[i - (k - 1)]
    <3>1. /\ t \in Seq(S) /\ Len(t) = Len(a) + Len(b)
          /\ \A i \in 1..(Len(a) + Len(b)) : t[i] = IF i <= Len(a) THEN a[i] ELSE b[i - Len(a)]
      BY <2>5, <2>6, ConcatProperties
    <3>2. Len(a) + Len(b) = Len(s) - 1
      BY <1>1, <2>4, <2>5, <2>6
    <3> QED BY <2>5, <3>1, <3>2
  <2> HIDE DEF t
  <2>8. ASSUME NEW i \in 1..Len(t)
        PROVE  \/ i < k /\ i \in 1..Len(s) /\ t[i] = s[i]
               \/ i >= k /\ i + 1 \in 1..Len(s) /\ t[i] = s[i + 1]
    <3>1. i \in Nat /\ i >= 1 /\ i <= Len(s) - 1
      BY <1>1, <2>7
    <3>2. CASE i < k
      BY <1>1, <2>4, <2>5, <2>7, <3>1, <3>2
    <3>3. CASE ~(i < k)
      <4>1. ~(i <= k - 1) /\ i - (k - 1) \in 1..(Len(s) - k) /\ k + (i - (k - 1)) = i + 1
        BY <1>1, <2>4, <3>1, <3>3
      <4> QED BY <1>1, <2>4, <2>6, <2>7, <3>1, <3>3, <4>1
    <3> QED BY <3>2, <3>3
  <2>9. ASSUME NEW i \in 1..Len(t), NEW j \in 1..Len(t), t[i] = t[j] PROVE i = j
    <3>1. CASE i < k /\ j < k
      BY <1>1, <2>4, <2>8, <2>9, <3>1
    <3>2. CASE i >= k /\ j >= k
      <4>1. i + 1 = j + 1
        BY <1>1, <2>4, <2>8, <2>9, <3>2
      <4> QED BY <4>1
    <3>3. CASE i < k /\ j >= k
      <4>1. i = j + 1
        BY <1>1, <2>4, <2>8, <2>9, <3>3
      <4> QED BY <2>4, <3>3, <4>1
    <3>4. CASE i >= k /\ j < k
      <4>1. i + 1 = j
        BY <1>1, <2>4, <2>8, <2>9, <3>4
      <4> QED BY <2>4, <3>4, <4>1
    <3> QED BY <2>4, <3>1, <3>2, <3>3, <3>4
  <2>10. DOMAIN t = 1..Len(t)
    BY <2>7, LenProperties
  <2>11. ASSUME NEW c \in ToSet(t) PROVE c \in ToSet(s)
    <3>1. PICK i \in 1..Len(t) : t[i] = c
      BY <2>7, ToSetFacts
    <3> QED BY <2>8, <3>1, ToSetFacts
  <2> QED BY <2>3, <2>7, <2>9, <2>10, <2>11 DEF IsInjective
<1> QED BY <1>2, <1>3

\* The ids of n new chunks come after all that were made.
LEMMA NewFacts ==
    ASSUME made \in Nat, NEW n \in Nat, made + n <= MaxChunks
    PROVE  /\ New(n) \in Seq(Chunks) /\ IsInjective(New(n))
           /\ ToSet(New(n)) \subseteq (made + 1)..(made + n)
           /\ (n > 0 => New(n) # <<>>)
<1> DEFINE t == New(n)
<1>1. MaxChunks \in Nat
  BY SearchAssumption
<1>2. /\ t \in [1..n -> Chunks] /\ \A i \in 1..n : t[i] = made + i
  BY <1>1 DEF New, Chunks
<1>3. t \in Seq(Chunks)
  BY <1>2, SeqDef
<1>4. DOMAIN t = 1..n /\ \A i \in 1..n : t[i] \in (made + 1)..(made + n)
  BY <1>2
<1>5. \A i, j \in 1..n : t[i] = t[j] => i = j
  BY <1>2
<1>6. n > 0 => t # <<>>
  <2>1. n > 0 => 1 \in DOMAIN t
    BY <1>4
  <2> QED BY <2>1
<1> QED BY <1>3, <1>4, <1>5, <1>6 DEF ToSet, IsInjective
-----------------------------------------------------------------------------
(* The states of updaters and searches.                                     *)

UpPcs == {"idle", "drop", "create", "add", "remove", "count", "get", "ids", "corpus", "dump",
          "version", "clear"}
UpState == [pc : UpPcs, todo : Seq(Chunks), seen : Seq(Chunks), changed : BOOLEAN, start : Nat]
ThPcs == {"idle", "lookup", "vector", "score", "names", "fetch", "store", "done", "raised"}
ThState == [pc : ThPcs, key : Nat, at : SUBSET Nat, got : Result, start : Nat]

\* After the step the updater u is there, and the others are where they were.
Moved(u, pc, todo, seen, changed, start) ==
    /\ up' \in [Updaters -> UpState]
    /\ up'[u].pc = pc /\ up'[u].todo = todo /\ up'[u].seen = seen
    /\ up'[u].changed = changed /\ up'[u].start = start
    /\ \A v \in Updaters : v # u => up'[v] = up[v]

\* After the step the search s is there, and the others are where they were.
Turned(s, pc, key, at, vec, words, start) ==
    /\ th' \in [Searchers -> ThState]
    /\ th'[s].pc = pc /\ th'[s].key = key /\ th'[s].at = at /\ th'[s].start = start
    /\ th'[s].got.vec = vec /\ th'[s].got.words = words
    /\ \A t \in Searchers : t # s => th'[t] = th[t]

LEMMA BecomeMoves ==
    ASSUME up \in [Updaters -> UpState], NEW u \in Updaters, NEW r \in UpState, Become(u, r)
    PROVE  /\ up' \in [Updaters -> UpState] /\ up'[u] = r
           /\ \A v \in Updaters : v # u => up'[v] = up[v]
BY DEF Become

LEMMA MovesTo ==
    ASSUME up \in [Updaters -> UpState], NEW u \in Updaters, NEW r \in UpState, Become(u, r)
    PROVE  Moved(u, r.pc, r.todo, r.seen, r.changed, r.start)
BY BecomeMoves DEF Moved

LEMMA RestingFacts ==
    /\ Resting \in UpState
    /\ Resting.pc = "idle" /\ Resting.todo = <<>> /\ Resting.seen = <<>>
    /\ Resting.changed = FALSE /\ Resting.start = 0
BY EmptySeq DEF Resting, UpState, UpPcs

LEMMA EditPc ==
    ASSUME NEW r \in UpState, NEW p \in UpPcs
    PROVE  LET q == [r EXCEPT !.pc = p]
           IN  /\ q \in UpState /\ q.pc = p /\ q.todo = r.todo /\ q.seen = r.seen
               /\ q.changed = r.changed /\ q.start = r.start
BY DEF UpState

LEMMA EditChanged ==
    ASSUME NEW r \in UpState, NEW p \in UpPcs
    PROVE  LET q == [r EXCEPT !.pc = p, !.changed = TRUE]
           IN  /\ q \in UpState /\ q.pc = p /\ q.todo = r.todo /\ q.seen = r.seen
               /\ q.changed = TRUE /\ q.start = r.start
BY DEF UpState

LEMMA EditSeen ==
    ASSUME NEW r \in UpState, NEW p \in UpPcs, NEW t \in Seq(Chunks)
    PROVE  LET q == [r EXCEPT !.seen = t, !.pc = p]
           IN  /\ q \in UpState /\ q.pc = p /\ q.todo = r.todo /\ q.seen = t
               /\ q.changed = r.changed /\ q.start = r.start
BY DEF UpState

\* TypeOK says so of the updaters and of the searches.
LEMMA TypesGive ==
    ASSUME TypeOK
    PROVE  /\ up \in [Updaters -> UpState] /\ th \in [Searchers -> ThState]
           /\ \A u \in Updaters : up[u] \in UpState
           /\ \A s \in Searchers : th[s] \in ThState
           /\ begun \in Nat /\ made \in Nat /\ version \in Nat
<1>1. up \in [Updaters -> UpState] /\ th \in [Searchers -> ThState]
  BY DEF TypeOK, UpState, UpPcs, ThState, ThPcs
<1>2. begun \in Nat /\ made \in Nat /\ version \in Nat
  BY SearchAssumption DEF TypeOK
<1> QED BY <1>1, <1>2

LEMMA GotoMoves ==
    ASSUME TypeOK, NEW u \in Updaters, NEW p \in UpPcs, Goto(u, p)
    PROVE  Moved(u, p, up[u].todo, up[u].seen, up[u].changed, up[u].start)
<1> DEFINE q == [up[u] EXCEPT !.pc = p]
<1>1. /\ q \in UpState /\ q.pc = p /\ q.todo = up[u].todo /\ q.seen = up[u].seen
      /\ q.changed = up[u].changed /\ q.start = up[u].start
  BY TypesGive, EditPc
<1>2. Become(u, q)
  BY DEF Goto
<1> HIDE DEF q
<1>3. Moved(u, q.pc, q.todo, q.seen, q.changed, q.start)
  BY <1>1, <1>2, TypesGive, MovesTo
<1> QED BY <1>1, <1>3

LEMMA RestMoves ==
    ASSUME TypeOK, NEW u \in Updaters, Become(u, Resting)
    PROVE  Moved(u, "idle", <<>>, <<>>, FALSE, 0)
BY TypesGive, RestingFacts, BecomeMoves DEF Moved

LEMMA BeginMoves ==
    ASSUME TypeOK, NEW u \in Updaters, NEW t \in Seq(Chunks), NEW p \in UpPcs, Begin(u, t, p)
    PROVE  Moved(u, p, t, <<>>, FALSE, IF Quiet THEN begun + 1 ELSE 0)
<1>1. PICK n \in Nat : n = IF Quiet THEN begun + 1 ELSE 0
  BY TypesGive
<1>2. Become(u, [Resting EXCEPT !.pc = p, !.todo = t, !.start = n])
  BY <1>1 DEF Begin
<1>3. Moved(u, p, t, <<>>, FALSE, n)
  <2> DEFINE q == [Resting EXCEPT !.pc = p, !.todo = t, !.start = n]
  <2>1. /\ q \in UpState /\ q.pc = p /\ q.todo = t /\ q.seen = <<>>
        /\ q.changed = FALSE /\ q.start = n
    BY EmptySeq DEF UpState, Resting
  <2>2. Become(u, q)
    BY <1>2
  <2> HIDE DEF q
  <2>3. Moved(u, q.pc, q.todo, q.seen, q.changed, q.start)
    BY <2>1, <2>2, TypesGive, MovesTo
  <2> QED BY <2>1, <2>3
<1> QED BY <1>1, <1>3

LEMMA ChangeMoves ==
    ASSUME TypeOK, NEW u \in Updaters
    PROVE  /\ DropCollection => Moved(Job, "create", up[Job].todo, up[Job].seen, TRUE, up[Job].start)
           /\ DeleteDoc(u) => Moved(u, "count", up[u].todo, up[u].seen, TRUE, up[u].start)
           /\ Insert(u) /\ up[u].todo # <<>> =>
                Moved(u, IF Len(up[u].todo) = 1 THEN "count" ELSE "add", Tail(up[u].todo),
                      up[u].seen, TRUE, up[u].start)
           /\ Get(u) => Moved(u, IF gone THEN "version" ELSE "ids", up[u].todo, coll,
                              up[u].changed, up[u].start)
<1>1. Job \in Updaters /\ up[Job] \in UpState /\ up[u] \in UpState
  BY TypesGive DEF Updaters
<1>2. DropCollection => Moved(Job, "create", up[Job].todo, up[Job].seen, TRUE, up[Job].start)
  <2> SUFFICES ASSUME DropCollection
               PROVE  Moved(Job, "create", up[Job].todo, up[Job].seen, TRUE, up[Job].start)
    OBVIOUS
  <2> DEFINE q == [up[Job] EXCEPT !.pc = "create", !.changed = TRUE]
  <2>1. /\ q \in UpState /\ q.pc = "create" /\ q.todo = up[Job].todo /\ q.seen = up[Job].seen
        /\ q.changed = TRUE /\ q.start = up[Job].start
    BY <1>1, EditChanged DEF UpPcs
  <2>2. Become(Job, q)
    BY DEF DropCollection
  <2> HIDE DEF q
  <2>3. Moved(Job, q.pc, q.todo, q.seen, q.changed, q.start)
    BY <1>1, <2>1, <2>2, TypesGive, MovesTo
  <2> QED BY <2>1, <2>3
<1>3. DeleteDoc(u) => Moved(u, "count", up[u].todo, up[u].seen, TRUE, up[u].start)
  <2> SUFFICES ASSUME DeleteDoc(u)
               PROVE  Moved(u, "count", up[u].todo, up[u].seen, TRUE, up[u].start)
    OBVIOUS
  <2> DEFINE q == [up[u] EXCEPT !.pc = "count", !.changed = TRUE]
  <2>1. /\ q \in UpState /\ q.pc = "count" /\ q.todo = up[u].todo /\ q.seen = up[u].seen
        /\ q.changed = TRUE /\ q.start = up[u].start
    BY <1>1, EditChanged DEF UpPcs
  <2>2. Become(u, q)
    BY DEF DeleteDoc
  <2> HIDE DEF q
  <2>3. Moved(u, q.pc, q.todo, q.seen, q.changed, q.start)
    BY <1>1, <2>1, <2>2, TypesGive, MovesTo
  <2> QED BY <2>1, <2>3
<1>4. ASSUME Insert(u), up[u].todo # <<>>
      PROVE  Moved(u, IF Len(up[u].todo) = 1 THEN "count" ELSE "add", Tail(up[u].todo),
                   up[u].seen, TRUE, up[u].start)
  <2>1. PICK p \in UpPcs : p = IF Len(up[u].todo) = 1 THEN "count" ELSE "add"
    BY DEF UpPcs
  <2>2. Tail(up[u].todo) \in Seq(Chunks)
    BY <1>1, <1>4, HeadTailProperties DEF UpState
  <2>3. Become(u, [up[u] EXCEPT !.todo = Tail(up[u].todo), !.changed = TRUE, !.pc = p])
    BY <1>4, <2>1 DEF Insert
  <2>4. Moved(u, p, Tail(up[u].todo), up[u].seen, TRUE, up[u].start)
    <3> DEFINE q == [up[u] EXCEPT !.todo = Tail(up[u].todo), !.changed = TRUE, !.pc = p]
    <3>1. /\ q \in UpState /\ q.pc = p /\ q.todo = Tail(up[u].todo) /\ q.seen = up[u].seen
          /\ q.changed = TRUE /\ q.start = up[u].start
      BY <1>1, <2>2 DEF UpState
    <3>2. Become(u, q)
      BY <2>3
    <3> HIDE DEF q
    <3>3. Moved(u, q.pc, q.todo, q.seen, q.changed, q.start)
      BY <3>1, <3>2, TypesGive, MovesTo
    <3> QED BY <3>1, <3>3
  <2> QED BY <2>1, <2>4
<1>5. ASSUME Get(u)
      PROVE  Moved(u, IF gone THEN "version" ELSE "ids", up[u].todo, coll, up[u].changed, up[u].start)
  <2>1. PICK p \in UpPcs : p = IF gone THEN "version" ELSE "ids"
    BY DEF UpPcs
  <2>2. coll \in Seq(Chunks)
    BY DEF TypeOK
  <2>3. Become(u, [up[u] EXCEPT !.seen = coll, !.pc = p])
    BY <1>5, <2>1 DEF Get
  <2>4. Moved(u, p, up[u].todo, coll, up[u].changed, up[u].start)
    <3> DEFINE q == [up[u] EXCEPT !.seen = coll, !.pc = p]
    <3>1. /\ q \in UpState /\ q.pc = p /\ q.todo = up[u].todo /\ q.seen = coll
          /\ q.changed = up[u].changed /\ q.start = up[u].start
      BY <1>1, <2>2, EditSeen
    <3>2. Become(u, q)
      BY <2>3
    <3> HIDE DEF q
    <3>3. Moved(u, q.pc, q.todo, q.seen, q.changed, q.start)
      BY <3>1, <3>2, TypesGive, MovesTo
    <3> QED BY <3>1, <3>3
  <2> QED BY <2>1, <2>4
<1> QED BY <1>2, <1>3, <1>4, <1>5
-----------------------------------------------------------------------------
(* Types, and who has a chunk.                                              *)

Bringing(u) == up[u].pc \in {"drop", "create", "add"}
Late == {"create", "count", "get", "ids", "corpus", "dump"}

\* What a program point says of an updater and of the collection.
Shape ==
    /\ gone => up[Job].pc = "create"
    /\ \A u \in Updaters :
          /\ up[u].pc \in {"idle", "drop"} => ~up[u].changed
          /\ up[u].pc \in Late => up[u].changed
          /\ up[u].pc \in {"add", "remove"} => up[u].todo # <<>>
          /\ up[u].start <= begun

\* A chunk is in the collection, in the hand of one updater, or not made yet.
Owned ==
    /\ ToSet(coll) \subseteq 1..made
    /\ \A u \in Updaters : Bringing(u) =>
          /\ IsInjective(up[u].todo) /\ ToSet(up[u].todo) \subseteq 1..made
          /\ \A c \in ToSet(up[u].todo) : c \notin ToSet(coll)
    /\ \A u, v \in Updaters : Bringing(u) /\ Bringing(v) /\ u # v =>
          \A c \in ToSet(up[u].todo) : c \notin ToSet(up[v].todo)

Types == TypeOK /\ Shape /\ Owned

\* The parts of TypeOK.
StoreType == coll \in Seq(Chunks) /\ IsInjective(coll) /\ gone \in BOOLEAN /\ made \in 0..MaxChunks
FileType == [corpus : Seq(Chunks), ids : Seq(Chunks), count : Nat, doubt : BOOLEAN]
IndexType == corpus \in Seq(Chunks) /\ ids \in Seq(Chunks) /\ file \in FileType
CacheType == version \in Nat /\ DOMAIN cache \subseteq Nat /\ \A v \in DOMAIN cache : cache[v] \in Result
BoundType == begun \in 0..MaxUpdates /\ failures \in 0..MaxFailures /\ restarts \in 0..MaxRestarts
DoubtType == doubt \in [index : BOOLEAN, cache : BOOLEAN]

LEMMA TypeParts ==
    TypeOK <=> /\ StoreType /\ IndexType /\ CacheType /\ BoundType /\ DoubtType
               /\ up \in [Updaters -> UpState] /\ th \in [Searchers -> ThState]
BY DEF TypeOK, StoreType, FileType, IndexType, CacheType, BoundType, DoubtType, UpState, UpPcs,
       ThState, ThPcs

LEMMA TypePartsNext ==
    TypeOK' <=> /\ StoreType' /\ IndexType' /\ CacheType' /\ BoundType' /\ DoubtType'
                /\ up' \in [Updaters -> UpState] /\ th' \in [Searchers -> ThState]
BY DEF TypeOK, StoreType, FileType, IndexType, CacheType, BoundType, DoubtType, UpState, UpPcs,
       ThState, ThPcs

LEMMA ShapeMoved ==
    ASSUME Types, NEW u \in Updaters, \A v \in Updaters : v # u => up'[v] = up[v],
           begun' \in Nat, begun <= begun',
           up'[u].pc \in {"idle", "drop"} => ~up'[u].changed,
           up'[u].pc \in Late => up'[u].changed,
           up'[u].pc \in {"add", "remove"} => up'[u].todo # <<>>, up'[u].start <= begun',
           gone' => up'[Job].pc = "create"
    PROVE  Shape'
<1>1. ASSUME NEW v \in Updaters
      PROVE  /\ up'[v].pc \in {"idle", "drop"} => ~up'[v].changed
             /\ up'[v].pc \in Late => up'[v].changed
             /\ up'[v].pc \in {"add", "remove"} => up'[v].todo # <<>>
             /\ up'[v].start <= begun'
  <2>1. CASE v = u
    BY <2>1
  <2>2. CASE v # u
    <3>1. up'[v] = up[v]
      BY <2>2
    <3>2. up[v].start <= begun /\ up[v].start \in Nat /\ begun \in Nat
      BY TypesGive DEF Types, Shape, UpState
    <3>3. up'[v].start <= begun'
      BY <3>1, <3>2
    <3> QED BY <3>1, <3>3 DEF Types, Shape
  <2> QED BY <2>1, <2>2
<1> QED BY <1>1 DEF Shape, Late

LEMMA OwnedMoved ==
    ASSUME Owned, NEW u \in Updaters, \A v \in Updaters : v # u => up'[v] = up[v],
           made' = made, ToSet(coll') \subseteq ToSet(coll),
           up'[u].pc \in {"drop", "create", "add"} => Bringing(u) /\ up'[u].todo = up[u].todo
    PROVE  Owned'
<1>1. ASSUME NEW v \in Updaters, up'[v].pc \in {"drop", "create", "add"}
      PROVE  Bringing(v) /\ up'[v].todo = up[v].todo
  <2>1. CASE v = u
    BY <1>1, <2>1
  <2>2. CASE v # u
    BY <1>1, <2>2 DEF Bringing
  <2> QED BY <2>1, <2>2
<1>2. ToSet(coll') \subseteq 1..made'
  BY DEF Owned
<1>3. ASSUME NEW v \in Updaters, up'[v].pc \in {"drop", "create", "add"}
      PROVE  /\ IsInjective(up'[v].todo) /\ ToSet(up'[v].todo) \subseteq 1..made'
             /\ \A c \in ToSet(up'[v].todo) : c \notin ToSet(coll')
  BY <1>1, <1>3 DEF Owned
<1>4. ASSUME NEW v \in Updaters, NEW w \in Updaters, v # w,
             up'[v].pc \in {"drop", "create", "add"}, up'[w].pc \in {"drop", "create", "add"}
      PROVE  \A c \in ToSet(up'[v].todo) : c \notin ToSet(up'[w].todo)
  BY <1>1, <1>4 DEF Owned
<1> QED BY <1>2, <1>3, <1>4 DEF Owned, Bringing

\* Nothing but up changes that Shape and Owned speak of.
LEMMA AsideKept ==
    ASSUME Shape, Owned, up' = up, coll' = coll, gone' = gone, made' = made, begun' = begun
    PROVE  Shape' /\ Owned'
BY DEF Shape, Owned, Bringing

-----------------------------------------------------------------------------
LEMMA BeginTypes ==
    ASSUME Types, NEW u \in Updaters, NEW t \in Seq(Chunks), NEW p \in UpPcs,
           Begin(u, t, p), made' \in made..MaxChunks, t # <<>> \/ p = "drop",
           p \in {"drop", "add", "remove"},
           p # "remove" => IsInjective(t) /\ ToSet(t) \subseteq (made + 1)..made'
    PROVE  Types'
<1> DEFINE n == IF Quiet THEN begun + 1 ELSE 0
<1>1. Moved(u, p, t, <<>>, FALSE, n)
  BY BeginMoves DEF Types
<1>2. /\ begun \in Nat /\ begun' = begun + 1 /\ begun < MaxUpdates /\ n \in Nat /\ n <= begun'
      /\ made \in Nat /\ made' \in Nat /\ made <= made'
      /\ coll' = coll /\ gone' = gone /\ UNCHANGED <<index, cached, th, failures, restarts>>
  BY TypesGive, SearchAssumption DEF Types, Begin
<1>3. doubt' \in [index : BOOLEAN, cache : BOOLEAN]
  BY TypeParts DEF Types, Begin, DoubtType
<1> HIDE DEF n
<1>4. TypeOK'
  <2>1. StoreType' /\ IndexType' /\ CacheType' /\ BoundType' /\ DoubtType'
    BY <1>2, <1>3, TypeParts, SearchAssumption
       DEF Types, StoreType, IndexType, CacheType, BoundType, DoubtType, index, cached
  <2> QED BY <1>1, <1>2, <2>1, TypeParts, TypePartsNext DEF Types, Moved
<1>5. Shape'
  <2>1. gone' => up'[Job].pc = "create"
    <3>1. gone => up[Job].pc = "create"
      BY DEF Types, Shape
    <3>2. up[u].pc = "idle"
      BY DEF Begin
    <3>3. Job # u => up'[Job].pc = up[Job].pc
      BY <1>1 DEF Moved, Updaters
    <3> QED BY <1>2, <3>1, <3>2, <3>3
  <2>2. p \notin Late /\ p # "idle"
    BY DEF Late
  <2>3. /\ up'[u].pc = p /\ up'[u].todo = t /\ up'[u].start <= begun' /\ ~up'[u].changed
        /\ \A v \in Updaters : v # u => up'[v] = up[v]
    BY <1>1, <1>2 DEF Moved
  <2>4. begun <= begun' /\ begun' \in Nat
    BY <1>2
  <2> QED BY <2>1, <2>2, <2>3, <2>4, ShapeMoved
<1>6. ASSUME NEW v \in Updaters, v # u PROVE up'[v] = up[v]
  BY <1>1, <1>6 DEF Moved
<1>7. up'[u].pc = p /\ up'[u].todo = t
  BY <1>1 DEF Moved
<1>8. \A c \in 1..made : c \in 1..made' /\ c \notin (made + 1)..made'
  BY <1>2
<1>9. \A c \in (made + 1)..made' : c \in 1..made'
  BY <1>2
<1>10. ToSet(coll) \subseteq 1..made /\ \A v \in Updaters : Bringing(v) => ToSet(up[v].todo) \subseteq 1..made
  BY DEF Types, Owned
<1>11. ASSUME NEW v \in Updaters, up'[v].pc \in {"drop", "create", "add"}
       PROVE  /\ IsInjective(up'[v].todo) /\ ToSet(up'[v].todo) \subseteq 1..made'
              /\ \A c \in ToSet(up'[v].todo) : c \notin ToSet(coll')
  <2>1. CASE v = u
    BY <1>2, <1>7, <1>8, <1>9, <1>10, <1>11, <2>1
  <2>2. CASE v # u
    BY <1>2, <1>6, <1>8, <1>11, <2>2 DEF Types, Owned, Bringing
  <2> QED BY <2>1, <2>2
<1>12. ASSUME NEW v \in Updaters, NEW w \in Updaters, v # w,
              up'[v].pc \in {"drop", "create", "add"}, up'[w].pc \in {"drop", "create", "add"}
       PROVE  \A c \in ToSet(up'[v].todo) : c \notin ToSet(up'[w].todo)
  <2>1. CASE v = u
    BY <1>6, <1>7, <1>8, <1>10, <1>12, <2>1 DEF Bringing
  <2>2. CASE w = u
    BY <1>6, <1>7, <1>8, <1>10, <1>12, <2>2 DEF Bringing
  <2>3. CASE v # u /\ w # u
    BY <1>6, <1>12, <2>3 DEF Types, Owned, Bringing
  <2> QED BY <2>1, <2>2, <2>3
<1>13. Owned'
  BY <1>2, <1>8, <1>10, <1>11, <1>12 DEF Owned, Bringing
<1> QED BY <1>4, <1>5, <1>13 DEF Types
\* What is left to show for a step of an updater that makes and takes no chunk.
LEMMA StepTypes ==
    ASSUME Types, NEW u \in Updaters, up' \in [Updaters -> UpState],
           \A v \in Updaters : v # u => up'[v] = up[v],
           StoreType', IndexType', CacheType', DoubtType', failures' \in 0..MaxFailures,
           th' = th, made' = made, begun' = begun, restarts' = restarts,
           up'[u].start <= begun,
           up'[u].pc \in {"idle", "drop"} => ~up'[u].changed,
           up'[u].pc \in Late => up'[u].changed,
           up'[u].pc \in {"add", "remove"} => up'[u].todo # <<>>,
           gone' => up'[Job].pc = "create",
           ToSet(coll') \subseteq ToSet(coll),
           up'[u].pc \in {"drop", "create", "add"} => Bringing(u) /\ up'[u].todo = up[u].todo
    PROVE  Types'
<1>1. begun \in Nat
  BY TypesGive DEF Types
<1>2. BoundType' /\ th' \in [Searchers -> ThState]
  BY TypeParts DEF Types, BoundType
<1>3. TypeOK'
  BY <1>2, TypePartsNext
<1>4. Shape'
  BY <1>1, ShapeMoved
<1>5. Owned'
  BY OwnedMoved DEF Types
<1> QED BY <1>3, <1>4, <1>5 DEF Types

\* The updaters as Types has them.
LEMMA ShapeGives ==
    ASSUME Types, NEW u \in Updaters
    PROVE  /\ up[u] \in UpState /\ up[u].start <= begun
           /\ up[u].pc \in Late => up[u].changed
           /\ up[u].pc \in {"add", "remove"} => up[u].todo # <<>>
           /\ gone => up[Job].pc = "create"
           /\ gone /\ up[u].pc # "create" => u # Job
           /\ StoreType /\ IndexType /\ CacheType /\ DoubtType /\ failures \in 0..MaxFailures
           /\ Job \in Updaters
<1>1. Job \in Updaters
  BY DEF Updaters
<1> QED BY <1>1, TypesGive, TypeParts DEF Types, Shape, BoundType

LEMMA DropTypes == Types /\ DropCollection => Types'
<1> SUFFICES ASSUME Types, DropCollection PROVE Types'
  OBVIOUS
<1>1. Job \in Updaters
  BY DEF Updaters
<1>2. Moved(Job, "create", up[Job].todo, up[Job].seen, TRUE, up[Job].start)
  BY <1>1, ChangeMoves DEF Types
<1>3. /\ coll' = <<>> /\ gone' = TRUE /\ th' = th /\ made' = made /\ UNCHANGED <<index, cached, bounds, doubt>>
      /\ up[Job].pc = "drop"
  BY DEF DropCollection
<1>4. StoreType' /\ IndexType' /\ CacheType' /\ DoubtType'
  BY <1>1, <1>3, ShapeGives, NothingIn, EmptySeq
     DEF StoreType, IndexType, CacheType, DoubtType, index, cached
<1>5. ToSet(coll') \subseteq ToSet(coll)
  BY <1>3, NothingIn
<1>6. /\ up'[Job].pc = "create" /\ up'[Job].changed /\ up'[Job].start = up[Job].start
      /\ up'[Job].todo = up[Job].todo
  BY <1>2 DEF Moved
<1>7. up' \in [Updaters -> UpState] /\ \A v \in Updaters : v # Job => up'[v] = up[v]
  BY <1>2 DEF Moved
<1> QED BY <1>1, <1>3, <1>4, <1>5, <1>6, <1>7, ShapeGives, StepTypes DEF bounds, Bringing

LEMMA CreateTypes == Types /\ CreateCollection => Types'
<1> SUFFICES ASSUME Types, CreateCollection PROVE Types'
  OBVIOUS
<1>1. Job \in Updaters
  BY DEF Updaters
<1>2. PICK p \in UpPcs : p = AfterCreation
  BY DEF UpPcs, AfterCreation
<1>3. Moved(Job, p, up[Job].todo, up[Job].seen, up[Job].changed, up[Job].start)
  BY <1>1, <1>2, GotoMoves DEF Types, CreateCollection
<1>4. /\ coll' = coll /\ gone' = FALSE /\ th' = th /\ made' = made
      /\ UNCHANGED <<index, cached, bounds, doubt>> /\ up[Job].pc = "create"
  BY DEF CreateCollection
<1>5. StoreType' /\ IndexType' /\ CacheType' /\ DoubtType'
  BY <1>1, <1>4, ShapeGives DEF StoreType, IndexType, CacheType, DoubtType, index, cached
<1>6. /\ up'[Job].pc = p /\ up'[Job].start = up[Job].start /\ up'[Job].todo = up[Job].todo
  BY <1>3 DEF Moved
<1>7. up'[Job].changed
  BY <1>1, <1>3, <1>4, ShapeGives DEF Moved, Late
<1>8. up' \in [Updaters -> UpState] /\ \A v \in Updaters : v # Job => up'[v] = up[v]
  BY <1>3 DEF Moved
<1> QED BY <1>1, <1>2, <1>4, <1>5, <1>6, <1>7, <1>8, ShapeGives, StepTypes DEF bounds, Bringing, AfterCreation

\* A deletion that fails leaves everything, and the update goes on.
LEMMA DropFailsMoves ==
    ASSUME Types, DropFails
    PROVE  /\ Moved(Job, AfterCreation, up[Job].todo, up[Job].seen, up[Job].changed, up[Job].start)
           /\ Job \in Updaters /\ up[Job].pc = "drop" /\ failures' = failures + 1
           /\ UNCHANGED <<coll, gone, made, corpus, ids, file, version, cache, begun, restarts, th, doubt>>
<1>1. Job \in Updaters
  BY DEF Updaters
<1>2. PICK p \in UpPcs : p = AfterCreation
  BY DEF UpPcs, AfterCreation
<1> QED BY <1>1, <1>2, GotoMoves DEF Types, DropFails, store, index, cached

LEMMA DropFailsTypes == Types /\ DropFails => Types'
<1> SUFFICES ASSUME Types, DropFails PROVE Types'
  OBVIOUS
<1>1. /\ Moved(Job, AfterCreation, up[Job].todo, up[Job].seen, up[Job].changed, up[Job].start)
      /\ Job \in Updaters /\ up[Job].pc = "drop"
      /\ UNCHANGED <<coll, gone, made, corpus, ids, file, version, cache, begun, restarts, th, doubt>>
  BY DropFailsMoves
<1>2. failures' \in 0..MaxFailures
  BY ShapeGives, SearchAssumption, <1>1 DEF DropFails
<1>3. StoreType' /\ IndexType' /\ CacheType' /\ DoubtType'
  BY <1>1, ShapeGives DEF StoreType, IndexType, CacheType, DoubtType
<1>4. /\ up'[Job].pc = AfterCreation /\ up'[Job].start = up[Job].start /\ up'[Job].todo = up[Job].todo
      /\ up' \in [Updaters -> UpState] /\ \A v \in Updaters : v # Job => up'[v] = up[v]
  BY <1>1 DEF Moved
<1>5. gone' => FALSE
  BY <1>1, ShapeGives
<1>6. /\ up'[Job].pc \in {"version", "add"} /\ up'[Job].pc \notin Late
      /\ up'[Job].pc = "add" => up'[Job].todo # <<>>
  BY <1>4 DEF AfterCreation, Late
<1> QED BY <1>1, <1>2, <1>3, <1>4, <1>5, <1>6, ShapeGives, StepTypes DEF Bringing

LEMMA InsertTypes ==
    ASSUME Types, NEW u \in Updaters, Insert(u)
    PROVE  Types'
<1> DEFINE todo == up[u].todo
           c == Head(todo)
<1>1. /\ up[u].pc = "add" /\ ~gone /\ coll' = Append(coll, c)
      /\ UNCHANGED <<gone, made, index, cached, bounds, th, doubt>>
  BY DEF Insert
<1>2. todo # <<>> /\ todo \in Seq(Chunks) /\ IsInjective(todo) /\ Bringing(u)
  BY <1>1, ShapeGives DEF Types, Owned, Bringing, UpState
<1>3. PICK p \in UpPcs : p = IF Len(todo) = 1 THEN "count" ELSE "add"
  BY DEF UpPcs
<1>4. Moved(u, p, Tail(todo), up[u].seen, TRUE, up[u].start)
  BY <1>2, <1>3, ChangeMoves DEF Types
<1>5. /\ c \in Chunks /\ c \in ToSet(todo)
      /\ Tail(todo) \in Seq(Chunks) /\ IsInjective(Tail(todo))
      /\ Len(todo) \in Nat \ {0} /\ (Tail(todo) = <<>> <=> Len(todo) = 1)
      /\ \A d \in ToSet(Tail(todo)) : d \in ToSet(todo) /\ d # c
  BY <1>2, HeadAndTail
<1>6. c \notin ToSet(coll) /\ c \in 1..made
  BY <1>2, <1>5 DEF Types, Owned
<1>7. coll \in Seq(Chunks) /\ IsInjective(coll)
  BY ShapeGives DEF StoreType
<1>8. /\ coll' \in Seq(Chunks) /\ IsInjective(coll')
      /\ \A d : d \in ToSet(coll') <=> d \in ToSet(coll) \/ d = c
  <2> HIDE DEF c
  <2>1. /\ Append(coll, c) \in Seq(Chunks) /\ IsInjective(Append(coll, c))
        /\ \A d : d \in ToSet(Append(coll, c)) <=> d \in ToSet(coll) \/ d = c
    BY <1>5, <1>6, <1>7, AppendFresh
  <2> QED BY <1>1, <2>1
<1> HIDE DEF c, todo
<1>9. /\ up'[u].pc = p /\ up'[u].start = up[u].start /\ up'[u].todo = Tail(todo) /\ up'[u].changed
      /\ up' \in [Updaters -> UpState] /\ \A v \in Updaters : v # u => up'[v] = up[v]
  BY <1>4 DEF Moved
<1>10. StoreType' /\ IndexType' /\ CacheType' /\ DoubtType'
  BY <1>1, <1>8, ShapeGives DEF StoreType, IndexType, CacheType, DoubtType, index, cached
<1>11. TypeOK'
  <2>1. BoundType' /\ th' \in [Searchers -> ThState]
    BY <1>1, TypeParts DEF Types, BoundType, bounds
  <2> QED BY <1>9, <1>10, <2>1, TypePartsNext
<1>12. Shape'
  <2>1. gone' => up'[Job].pc = "create"
    BY <1>1
  <2>2. begun \in Nat /\ begun' = begun
    BY <1>1, TypesGive DEF Types, bounds
  <2>3. up'[u].pc \in {"add", "remove"} => up'[u].todo # <<>>
    BY <1>3, <1>5, <1>9
  <2>4. up'[u].pc \notin {"idle", "drop"} /\ up'[u].start <= begun'
    BY <1>3, <1>9, <2>2, ShapeGives
  <2>5. begun' \in Nat /\ begun <= begun'
    BY <2>2
  <2> QED BY <1>9, <2>1, <2>3, <2>4, <2>5, ShapeMoved
<1>13. ASSUME NEW v \in Updaters, v # u, Bringing(v)
       PROVE  \A d \in ToSet(up[v].todo) : d # c /\ d \notin ToSet(Tail(todo))
  BY <1>2, <1>5, <1>13 DEF Types, Owned, todo
<1>14. ToSet(Tail(todo)) \subseteq 1..made /\ \A d \in ToSet(Tail(todo)) : d \notin ToSet(coll)
  BY <1>2, <1>5 DEF Types, Owned, todo
<1>15. Owned'
  <2>1. ToSet(coll') \subseteq 1..made'
    BY <1>1, <1>6, <1>8 DEF Types, Owned
  <2>2. ASSUME NEW v \in Updaters, up'[v].pc \in {"drop", "create", "add"}
        PROVE  /\ IsInjective(up'[v].todo) /\ ToSet(up'[v].todo) \subseteq 1..made'
               /\ \A d \in ToSet(up'[v].todo) : d \notin ToSet(coll')
    <3>1. CASE v = u
      BY <1>1, <1>5, <1>8, <1>9, <1>14, <3>1
    <3>2. CASE v # u
      <4>1. up'[v] = up[v] /\ Bringing(v)
        BY <1>9, <2>2, <3>2 DEF Bringing
      <4>2. /\ IsInjective(up[v].todo) /\ ToSet(up[v].todo) \subseteq 1..made
            /\ \A d \in ToSet(up[v].todo) : d \notin ToSet(coll)
        BY <4>1 DEF Types, Owned
      <4> QED BY <1>1, <1>8, <1>13, <3>2, <4>1, <4>2
    <3> QED BY <3>1, <3>2
  <2>3. ASSUME NEW v \in Updaters, NEW w \in Updaters, v # w,
               up'[v].pc \in {"drop", "create", "add"}, up'[w].pc \in {"drop", "create", "add"}
        PROVE  \A d \in ToSet(up'[v].todo) : d \notin ToSet(up'[w].todo)
    <3>1. CASE v = u
      <4>1. up'[w] = up[w] /\ Bringing(w)
        BY <1>9, <2>3, <3>1 DEF Bringing
      <4> QED BY <1>9, <1>13, <2>3, <3>1, <4>1
    <3>2. CASE w = u
      <4>1. up'[v] = up[v] /\ Bringing(v)
        BY <1>9, <2>3, <3>2 DEF Bringing
      <4> QED BY <1>9, <1>13, <2>3, <3>2, <4>1
    <3>3. CASE v # u /\ w # u
      BY <1>9, <2>3, <3>3 DEF Types, Owned, Bringing
    <3> QED BY <3>1, <3>2, <3>3
  <2> QED BY <2>1, <2>2, <2>3 DEF Owned, Bringing
<1> QED BY <1>11, <1>12, <1>15 DEF Types

LEMMA DeleteTypes ==
    ASSUME Types, NEW u \in Updaters, DeleteDoc(u)
    PROVE  Types'
<1>1. /\ up[u].pc = "remove" /\ coll' = RemoveFirst(coll, Head(up[u].todo))
      /\ UNCHANGED <<gone, made, index, cached, bounds, th, doubt>>
  BY DEF DeleteDoc
<1>2. Moved(u, "count", up[u].todo, up[u].seen, TRUE, up[u].start)
  BY ChangeMoves DEF Types
<1>3. coll \in Seq(Chunks) /\ IsInjective(coll)
  BY ShapeGives DEF StoreType
<1>4. coll' \in Seq(Chunks) /\ IsInjective(coll') /\ ToSet(coll') \subseteq ToSet(coll)
  BY <1>1, <1>3, RemoveFirstFacts
<1>5. StoreType' /\ IndexType' /\ CacheType' /\ DoubtType'
  BY <1>1, <1>4, ShapeGives DEF StoreType, IndexType, CacheType, DoubtType, index, cached
<1>6. /\ up'[u].pc = "count" /\ up'[u].start = up[u].start /\ up'[u].changed
      /\ up' \in [Updaters -> UpState] /\ \A v \in Updaters : v # u => up'[v] = up[v]
  BY <1>2 DEF Moved
<1>7. gone' => up'[Job].pc = "create"
  BY <1>1, <1>6, ShapeGives
<1> QED BY <1>1, <1>4, <1>5, <1>6, <1>7, ShapeGives, StepTypes DEF bounds

LEMMA CountTypes ==
    ASSUME Types, NEW u \in Updaters, Count(u)
    PROVE  Types'
<1>1. up[u].pc = "count" /\ UNCHANGED <<store, corpus, ids, cached, bounds, th, doubt>>
  BY DEF Count
<1>2. PICK p \in UpPcs : p = IF gone \/ coll = <<>> THEN "version" ELSE "get"
  BY DEF UpPcs
<1>3. Moved(u, p, up[u].todo, up[u].seen, up[u].changed, up[u].start)
  BY <1>2, GotoMoves DEF Types, Count
<1>4. StoreType' /\ IndexType' /\ CacheType' /\ DoubtType'
  <2>1. coll \in Seq(Chunks) /\ file \in FileType
    BY ShapeGives DEF StoreType, IndexType
  <2>2. NoFile \in FileType
    BY EmptySeq DEF NoFile, FileOf, FileType
  <2>3. file' \in FileType
    BY <2>1, <2>2 DEF Count
  <2> QED BY <1>1, <2>3, ShapeGives DEF StoreType, IndexType, CacheType, DoubtType, store, cached
<1>5. p \notin {"idle", "create", "add", "remove", "drop"}
  BY <1>2
<1>6. up[u].changed
  BY <1>1, ShapeGives DEF Late
<1>7. /\ up'[u].pc = p /\ up'[u].start = up[u].start
      /\ up' \in [Updaters -> UpState] /\ \A v \in Updaters : v # u => up'[v] = up[v]
  BY <1>3 DEF Moved
<1>8. up'[u].changed
  BY <1>3, <1>6 DEF Moved
<1>9. gone' => up'[Job].pc = "create"
  BY <1>1, <1>7, ShapeGives DEF store
<1> QED BY <1>1, <1>4, <1>5, <1>7, <1>8, <1>9, ShapeGives, StepTypes DEF bounds, store

LEMMA GetTypes ==
    ASSUME Types, NEW u \in Updaters, Get(u)
    PROVE  Types'
<1>1. up[u].pc = "get" /\ UNCHANGED <<store, index, cached, bounds, th, doubt>>
  BY DEF Get
<1>2. PICK p \in UpPcs : p = IF gone THEN "version" ELSE "ids"
  BY DEF UpPcs
<1>3. Moved(u, p, up[u].todo, coll, up[u].changed, up[u].start)
  BY <1>2, ChangeMoves DEF Types
<1>4. StoreType' /\ IndexType' /\ CacheType' /\ DoubtType'
  BY <1>1, ShapeGives DEF StoreType, IndexType, CacheType, DoubtType, store, index, cached
<1>5. p \notin {"idle", "create", "add", "remove", "drop"}
  BY <1>2
<1>6. up[u].changed
  BY <1>1, ShapeGives DEF Late
<1>7. /\ up'[u].pc = p /\ up'[u].start = up[u].start
      /\ up' \in [Updaters -> UpState] /\ \A v \in Updaters : v # u => up'[v] = up[v]
  BY <1>3 DEF Moved
<1>8. up'[u].changed
  BY <1>3, <1>6 DEF Moved
<1>9. gone' => up'[Job].pc = "create"
  BY <1>1, <1>7, ShapeGives DEF store
<1> QED BY <1>1, <1>4, <1>5, <1>7, <1>8, <1>9, ShapeGives, StepTypes DEF bounds, store

LEMMA SetIdsTypes ==
    ASSUME Types, NEW u \in Updaters, SetIds(u)
    PROVE  Types'
<1>1. up[u].pc = "ids" /\ UNCHANGED <<store, corpus, file, cached, bounds, th, doubt>>
  BY DEF SetIds
<1>2. PICK p \in UpPcs : p = IF up[u].seen = <<>> THEN "version" ELSE "corpus"
  BY DEF UpPcs
<1>3. Moved(u, p, up[u].todo, up[u].seen, up[u].changed, up[u].start)
  BY <1>2, GotoMoves DEF Types, SetIds
<1>4. StoreType' /\ IndexType' /\ CacheType' /\ DoubtType'
  <2>1. up[u].seen \in Seq(Chunks)
    BY ShapeGives DEF UpState
  <2>2. ids' = up[u].seen
    BY DEF SetIds
  <2> QED BY <1>1, <2>1, <2>2, ShapeGives DEF StoreType, IndexType, CacheType, DoubtType, store, cached
<1>5. p \notin {"idle", "create", "add", "remove", "drop"}
  BY <1>2
<1>6. up[u].changed
  BY <1>1, ShapeGives DEF Late
<1>7. /\ up'[u].pc = p /\ up'[u].start = up[u].start
      /\ up' \in [Updaters -> UpState] /\ \A v \in Updaters : v # u => up'[v] = up[v]
  BY <1>3 DEF Moved
<1>8. up'[u].changed
  BY <1>3, <1>6 DEF Moved
<1>9. gone' => up'[Job].pc = "create"
  BY <1>1, <1>7, ShapeGives DEF store
<1> QED BY <1>1, <1>4, <1>5, <1>7, <1>8, <1>9, ShapeGives, StepTypes DEF bounds, store

LEMMA SetCorpusTypes ==
    ASSUME Types, NEW u \in Updaters, SetCorpus(u)
    PROVE  Types'
<1>1. up[u].pc = "corpus" /\ UNCHANGED <<store, ids, file, cached, bounds, th>>
  BY DEF SetCorpus
<1>2. PICK p \in UpPcs : p = "dump"
  BY DEF UpPcs
<1>3. Moved(u, p, up[u].todo, up[u].seen, up[u].changed, up[u].start)
  BY <1>2, GotoMoves DEF Types, SetCorpus
<1>4. StoreType' /\ IndexType' /\ CacheType' /\ DoubtType'
  <2>1. up[u].seen \in Seq(Chunks)
    BY ShapeGives DEF UpState
  <2>2. corpus' = up[u].seen
    BY DEF SetCorpus
  <2>3. DoubtType'
    BY ShapeGives DEF SetCorpus, DoubtType
  <2> QED BY <1>1, <2>1, <2>2, <2>3, ShapeGives DEF StoreType, IndexType, CacheType, store, cached
<1>5. p \notin {"idle", "create", "add", "remove", "drop"}
  BY <1>2
<1>6. up[u].changed
  BY <1>1, ShapeGives DEF Late
<1>7. /\ up'[u].pc = p /\ up'[u].start = up[u].start
      /\ up' \in [Updaters -> UpState] /\ \A v \in Updaters : v # u => up'[v] = up[v]
  BY <1>3 DEF Moved
<1>8. up'[u].changed
  BY <1>3, <1>6 DEF Moved
<1>9. gone' => up'[Job].pc = "create"
  BY <1>1, <1>7, ShapeGives DEF store
<1> QED BY <1>1, <1>4, <1>5, <1>7, <1>8, <1>9, ShapeGives, StepTypes DEF bounds, store

LEMMA DumpTypes ==
    ASSUME Types, NEW u \in Updaters, Dump(u)
    PROVE  Types'
<1>1. up[u].pc = "dump" /\ UNCHANGED <<store, corpus, ids, cached, bounds, th, doubt>>
  BY DEF Dump
<1>2. PICK p \in UpPcs : p = "version"
  BY DEF UpPcs
<1>3. Moved(u, p, up[u].todo, up[u].seen, up[u].changed, up[u].start)
  BY <1>2, GotoMoves DEF Types, Dump
<1>4. StoreType' /\ IndexType' /\ CacheType' /\ DoubtType'
  <2>1. up[u].seen \in Seq(Chunks)
    BY ShapeGives DEF UpState
  <2>2. file' \in FileType
    <3>1. Len(up[u].seen) \in Nat
      BY <2>1, LenProperties
    <3>2. corpus \in Seq(Chunks) /\ ids \in Seq(Chunks) /\ doubt.index \in BOOLEAN
      BY ShapeGives DEF IndexType, DoubtType
    <3> QED BY <3>1, <3>2 DEF Dump, FileType
  <2> QED BY <1>1, <2>2, ShapeGives DEF StoreType, IndexType, CacheType, DoubtType, store, cached
<1>5. p \notin {"idle", "create", "add", "remove", "drop"}
  BY <1>2
<1>6. up[u].changed
  BY <1>1, ShapeGives DEF Late
<1>7. /\ up'[u].pc = p /\ up'[u].start = up[u].start
      /\ up' \in [Updaters -> UpState] /\ \A v \in Updaters : v # u => up'[v] = up[v]
  BY <1>3 DEF Moved
<1>8. up'[u].changed
  BY <1>3, <1>6 DEF Moved
<1>9. gone' => up'[Job].pc = "create"
  BY <1>1, <1>7, ShapeGives DEF store
<1> QED BY <1>1, <1>4, <1>5, <1>7, <1>8, <1>9, ShapeGives, StepTypes DEF bounds, store

LEMMA NewVersionTypes ==
    ASSUME Types, NEW u \in Updaters, NewVersion(u)
    PROVE  Types'
<1>1. up[u].pc = "version" /\ UNCHANGED <<store, index, cache, bounds, th>>
  BY DEF NewVersion
<1>2. PICK p \in UpPcs : p = "clear"
  BY DEF UpPcs
<1>3. Moved(u, p, up[u].todo, up[u].seen, up[u].changed, up[u].start)
  BY <1>2, GotoMoves DEF Types, NewVersion
<1>4. StoreType' /\ IndexType' /\ CacheType' /\ DoubtType'
  <2>1. DoubtType'
    BY ShapeGives DEF NewVersion, DoubtType
  <2>2. version' = version + 1
    BY DEF NewVersion
  <2> QED BY <1>1, <2>1, <2>2, ShapeGives DEF StoreType, IndexType, CacheType, store, index
<1>5. p \notin Late /\ p \notin {"idle", "create", "add", "remove", "drop"}
  BY <1>2 DEF Late
<1>6. /\ up'[u].pc = p /\ up'[u].start = up[u].start
      /\ up' \in [Updaters -> UpState] /\ \A v \in Updaters : v # u => up'[v] = up[v]
  BY <1>3 DEF Moved
<1>7. gone' => up'[Job].pc = "create"
  BY <1>1, <1>6, ShapeGives DEF store
<1> QED BY <1>1, <1>4, <1>5, <1>6, <1>7, ShapeGives, StepTypes DEF bounds, store

LEMMA FailsTypes ==
    ASSUME Types, NEW u \in Updaters, Fails(u)
    PROVE  Types'
<1>1. up[u].pc = "add" /\ UNCHANGED <<store, index, cached, th, begun, restarts>>
  BY DEF Fails
<1>2. Moved(u, "idle", <<>>, <<>>, FALSE, 0)
  BY RestMoves DEF Types, Fails, Aborts
<1>3. StoreType' /\ IndexType' /\ CacheType' /\ DoubtType' /\ failures' \in 0..MaxFailures
  <2>1. DoubtType'
    <3>1. up[u].changed \in BOOLEAN /\ DoubtType
      BY ShapeGives DEF UpState
    <3> QED BY <3>1 DEF Fails, Aborts, DoubtType
  <2>2. failures' \in 0..MaxFailures
    BY ShapeGives, SearchAssumption DEF Fails
  <2> QED BY <1>1, <2>1, <2>2, ShapeGives DEF StoreType, IndexType, CacheType, store, index, cached
<1>4. /\ up'[u].pc = "idle" /\ up'[u].start = 0
      /\ up' \in [Updaters -> UpState] /\ \A v \in Updaters : v # u => up'[v] = up[v]
  BY <1>2 DEF Moved
<1>5. ~up'[u].changed
  BY <1>2 DEF Moved
<1>6. gone' => up'[Job].pc = "create"
  BY <1>1, <1>4, ShapeGives DEF store
<1>7. up'[u].start <= begun
  BY <1>4, TypesGive DEF Types
<1>8. up'[u].pc \notin Late
  BY <1>4 DEF Late
<1> QED BY <1>1, <1>3, <1>4, <1>5, <1>6, <1>7, <1>8, StepTypes DEF bounds, store

LEMMA NoVersionTypes ==
    ASSUME Types, NEW u \in Updaters, NoVersion(u)
    PROVE  Types'
<1>1. up[u].pc = "version" /\ UNCHANGED <<store, index, cached, bounds, th>>
  BY DEF NoVersion
<1>2. Moved(u, "idle", <<>>, <<>>, FALSE, 0)
  BY RestMoves DEF Types, NoVersion, Aborts
<1>3. StoreType' /\ IndexType' /\ CacheType' /\ DoubtType' /\ failures' \in 0..MaxFailures
  <2>1. DoubtType'
    <3>1. up[u].changed \in BOOLEAN /\ DoubtType
      BY ShapeGives DEF UpState
    <3> QED BY <3>1 DEF NoVersion, Aborts, DoubtType
  <2> QED BY <1>1, <2>1, ShapeGives DEF StoreType, IndexType, CacheType, store, index, cached, bounds
<1>4. /\ up'[u].pc = "idle" /\ up'[u].start = 0
      /\ up' \in [Updaters -> UpState] /\ \A v \in Updaters : v # u => up'[v] = up[v]
  BY <1>2 DEF Moved
<1>5. ~up'[u].changed
  BY <1>2 DEF Moved
<1>6. gone' => up'[Job].pc = "create"
  BY <1>1, <1>4, ShapeGives DEF store
<1>7. up'[u].start <= begun
  BY <1>4, TypesGive DEF Types
<1>8. up'[u].pc \notin Late
  BY <1>4 DEF Late
<1> QED BY <1>1, <1>3, <1>4, <1>5, <1>6, <1>7, <1>8, StepTypes DEF bounds, store

LEMMA InvalidateTypes ==
    ASSUME Types, NEW u \in Updaters, InvalidateCache(u)
    PROVE  Types'
<1>1. up[u].pc = "clear" /\ UNCHANGED <<store, index, version, bounds, th, doubt>>
  BY DEF InvalidateCache
<1>2. Moved(u, "idle", <<>>, <<>>, FALSE, 0)
  BY RestMoves DEF Types, InvalidateCache
<1>3. StoreType' /\ IndexType' /\ CacheType' /\ DoubtType' /\ failures' \in 0..MaxFailures
  <2>1. cache' = <<>> /\ DOMAIN cache' = {}
    BY DEF InvalidateCache
  <2> QED BY <1>1, <2>1, ShapeGives DEF StoreType, IndexType, CacheType, DoubtType, store, index, bounds
<1>4. /\ up'[u].pc = "idle" /\ up'[u].start = 0
      /\ up' \in [Updaters -> UpState] /\ \A v \in Updaters : v # u => up'[v] = up[v]
  BY <1>2 DEF Moved
<1>5. ~up'[u].changed
  BY <1>2 DEF Moved
<1>6. gone' => up'[Job].pc = "create"
  BY <1>1, <1>4, ShapeGives DEF store
<1>7. up'[u].start <= begun
  BY <1>4, TypesGive DEF Types
<1>8. up'[u].pc \notin Late
  BY <1>4 DEF Late
<1> QED BY <1>1, <1>3, <1>4, <1>5, <1>6, <1>7, <1>8, StepTypes DEF bounds, store
-----------------------------------------------------------------------------
(* The steps of a search.                                                   *)

LEMMA TurnTo ==
    ASSUME TypeOK, NEW s \in Searchers, NEW r \in ThState, Turn(s, r)
    PROVE  Turned(s, r.pc, r.key, r.at, r.got.vec, r.got.words, r.start)
<1>1. th' = [th EXCEPT ![s] = r] /\ th \in [Searchers -> ThState]
  BY TypesGive DEF Turn
<1>2. th' \in [Searchers -> ThState] /\ th'[s] = r /\ \A t \in Searchers : t # s => th'[t] = th[t]
  BY <1>1
<1> QED BY <1>2 DEF Turned

LEMMA EmptyResult == Nothing \in Result /\ Nothing.vec = {} /\ Nothing.words = {}
BY DEF Nothing, Result

LEMMA ResultParts ==
    ASSUME NEW r \in Result
    PROVE  r = [vec |-> r.vec, words |-> r.words] /\ r.vec \subseteq Chunks /\ r.words \subseteq Chunks
BY DEF Result

LEMMA AnswerTurns ==
    ASSUME TypeOK, NEW s \in Searchers, NEW p \in ThPcs, NEW g \in Result, Turn(s, Answered(s, p, g))
    PROVE  Turned(s, p, 0, {}, g.vec, g.words, th[s].start) /\ th'[s].got = g
<1>1. th[s].start \in Nat
  BY TypesGive DEF ThState
<1> DEFINE q == Answered(s, p, g)
<1>2. /\ q \in ThState /\ q.pc = p /\ q.key = 0 /\ q.at = {} /\ q.got = g /\ q.start = th[s].start
  BY <1>1, EmptyResult DEF Answered, Waiting, ThState
<1>5. Turn(s, q)
  OBVIOUS
<1> HIDE DEF q
<1>3. Turned(s, q.pc, q.key, q.at, q.got.vec, q.got.words, q.start)
  BY <1>2, <1>5, TurnTo
<1>4. th'[s] = q
  BY <1>5, TypesGive DEF Turn
<1> QED BY <1>2, <1>3, <1>4

LEMMA KeyTurns ==
    ASSUME TypeOK, NEW s \in Searchers, CacheKey(s)
    PROVE  Turned(s, "lookup", version, {}, {}, {}, IF Quiet THEN begun + 1 ELSE 0)
<1>1. PICK n \in Nat : n = IF Quiet THEN begun + 1 ELSE 0
  BY TypesGive
<1> DEFINE q == [Waiting EXCEPT !.pc = "lookup", !.key = version, !.start = n]
<1>2. /\ q \in ThState /\ q.pc = "lookup" /\ q.key = version /\ q.at = {} /\ q.got = Nothing
      /\ q.start = n
  BY TypesGive, EmptyResult DEF Waiting, ThState, ThPcs
<1>3. Turn(s, q)
  BY <1>1 DEF CacheKey
<1> HIDE DEF q
<1>4. Turned(s, q.pc, q.key, q.at, q.got.vec, q.got.words, q.start)
  BY <1>2, <1>3, TurnTo
<1> QED BY <1>1, <1>2, <1>4, EmptyResult

LEMMA MissTurns ==
    ASSUME TypeOK, NEW s \in Searchers, GetCache(s), th[s].key \notin DOMAIN cache
    PROVE  Turned(s, "vector", th[s].key, th[s].at, th[s].got.vec, th[s].got.words, th[s].start)
<1> DEFINE q == [th[s] EXCEPT !.pc = "vector"]
<1>1. /\ q \in ThState /\ q.pc = "vector" /\ q.key = th[s].key /\ q.at = th[s].at /\ q.got = th[s].got
      /\ q.start = th[s].start
  BY TypesGive DEF ThState, ThPcs
<1>2. Turn(s, q)
  BY DEF GetCache
<1> HIDE DEF q
<1>3. Turned(s, q.pc, q.key, q.at, q.got.vec, q.got.words, q.start)
  BY <1>1, <1>2, TurnTo
<1> QED BY <1>1, <1>3

LEMMA HitTurns ==
    ASSUME TypeOK, NEW s \in Searchers, GetCache(s), th[s].key \in DOMAIN cache
    PROVE  /\ cache[th[s].key] \in Result /\ th'[s].got = cache[th[s].key]
           /\ Turned(s, "done", 0, {}, cache[th[s].key].vec, cache[th[s].key].words, th[s].start)
<1>1. cache[th[s].key] \in Result
  BY DEF TypeOK
<1>2. Turn(s, Answered(s, "done", cache[th[s].key]))
  BY DEF GetCache
<1> QED BY <1>1, <1>2, AnswerTurns DEF ThPcs

LEMMA RaiseTurns ==
    ASSUME TypeOK, NEW s \in Searchers, Raises(s)
    PROVE  Turned(s, "raised", 0, {}, {}, {}, th[s].start)
<1>1. Turned(s, "raised", 0, {}, Nothing.vec, Nothing.words, th[s].start)
  BY EmptyResult, AnswerTurns DEF Raises, ThPcs
<1> QED BY <1>1, EmptyResult

LEMMA VectorTurns ==
    ASSUME TypeOK, NEW s \in Searchers, SearchVector(s), ~gone
    PROVE  Turned(s, "score", th[s].key, th[s].at, ToSet(coll), th[s].got.words, th[s].start)
<1>1. ToSet(coll) \subseteq Chunks
  BY ToSetFacts DEF TypeOK
<1>2. PICK v \in SUBSET Chunks : v = ToSet(coll)
  BY <1>1
<1>3. PICK g \in Result : g = th[s].got
  BY TypesGive DEF ThState
<1> DEFINE h == [g EXCEPT !.vec = v]
           q == [th[s] EXCEPT !.pc = "score", !.got = h]
<1>4. h \in Result /\ h.vec = v /\ h.words = g.words
  BY DEF Result
<1>5. Turn(s, [th[s] EXCEPT !.pc = "score", !.got.vec = v])
  BY <1>2 DEF SearchVector
<1>6. [th[s] EXCEPT !.pc = "score", !.got.vec = v] = q
  BY <1>3, TypesGive DEF ThState
<1>7. Turn(s, q)
  BY <1>5, <1>6
<1> HIDE DEF h
<1>8. /\ q \in ThState /\ q.pc = "score" /\ q.key = th[s].key /\ q.at = th[s].at /\ q.got = h
      /\ q.start = th[s].start
  BY <1>4, TypesGive DEF ThState, ThPcs
<1> HIDE DEF q
<1>9. Turned(s, q.pc, q.key, q.at, q.got.vec, q.got.words, q.start)
  BY <1>7, <1>8, TurnTo
<1> QED BY <1>2, <1>3, <1>4, <1>8, <1>9

LEMMA ScoreTurns ==
    ASSUME TypeOK, NEW s \in Searchers, Score(s)
    PROVE  Turned(s, IF Positions = {} THEN "store" ELSE "names", th[s].key, Positions,
                  th[s].got.vec, th[s].got.words, th[s].start)
<1>1. Positions \subseteq Nat
  <2>1. DOMAIN corpus = 1..Len(corpus) /\ Len(corpus) \in Nat
    BY LenProperties DEF TypeOK
  <2> QED BY <2>1 DEF Positions
<1>2. PICK a \in SUBSET Nat : a = Positions
  BY <1>1
<1>3. PICK p \in ThPcs : p = IF a = {} THEN "store" ELSE "names"
  BY DEF ThPcs
<1> DEFINE q == [th[s] EXCEPT !.at = a, !.pc = p]
<1>4. Turn(s, q)
  BY <1>2, <1>3 DEF Score, Positions
<1>5. /\ q \in ThState /\ q.pc = p /\ q.key = th[s].key /\ q.at = a /\ q.got = th[s].got
      /\ q.start = th[s].start
  BY TypesGive DEF ThState
<1> HIDE DEF q
<1>6. Turned(s, q.pc, q.key, q.at, q.got.vec, q.got.words, q.start)
  BY <1>4, <1>5, TurnTo
<1> QED BY <1>2, <1>3, <1>5, <1>6

LEMMA NamesTurns ==
    ASSUME TypeOK, NEW s \in Searchers, Names(s), th[s].at \subseteq DOMAIN ids
    PROVE  Turned(s, "fetch", th[s].key, {}, th[s].got.vec, {ids[p] : p \in th[s].at}, th[s].start)
<1>1. {ids[p] : p \in th[s].at} \subseteq Chunks
  <2>1. \A p \in DOMAIN ids : ids[p] \in Chunks
    BY LenProperties, ElementOfSeq DEF TypeOK
  <2> QED BY <2>1
<1>2. PICK w \in SUBSET Chunks : w = {ids[p] : p \in th[s].at}
  BY <1>1
<1>3. PICK g \in Result : g = th[s].got
  BY TypesGive DEF ThState
<1> DEFINE h == [g EXCEPT !.words = w]
           q == [th[s] EXCEPT !.at = {}, !.got = h, !.pc = "fetch"]
<1>4. h \in Result /\ h.vec = g.vec /\ h.words = w
  BY DEF Result
<1>5. Turn(s, [th[s] EXCEPT !.at = {}, !.got.words = w, !.pc = "fetch"])
  BY <1>2 DEF Names
<1>6. [th[s] EXCEPT !.at = {}, !.got.words = w, !.pc = "fetch"] = q
  BY <1>3, TypesGive DEF ThState
<1>7. Turn(s, q)
  BY <1>5, <1>6
<1> HIDE DEF h
<1>8. /\ q \in ThState /\ q.pc = "fetch" /\ q.key = th[s].key /\ q.at = {} /\ q.got = h
      /\ q.start = th[s].start
  BY <1>4, TypesGive DEF ThState, ThPcs
<1> HIDE DEF q
<1>9. Turned(s, q.pc, q.key, q.at, q.got.vec, q.got.words, q.start)
  BY <1>7, <1>8, TurnTo
<1> QED BY <1>2, <1>3, <1>4, <1>8, <1>9

LEMMA FetchTurns ==
    ASSUME TypeOK, NEW s \in Searchers, Fetch(s), ~gone
    PROVE  Turned(s, "store", th[s].key, th[s].at, th[s].got.vec, th[s].got.words \cap ToSet(coll),
                  th[s].start)
<1>1. PICK g \in Result : g = th[s].got
  BY TypesGive DEF ThState
<1>2. PICK w \in SUBSET Chunks : w = g.words \cap ToSet(coll)
  BY DEF Result
<1> DEFINE h == [g EXCEPT !.words = w]
           q == [th[s] EXCEPT !.got = h, !.pc = "store"]
<1>4. h \in Result /\ h.vec = g.vec /\ h.words = w
  BY DEF Result
<1>5. Turn(s, [th[s] EXCEPT !.got.words = w, !.pc = "store"])
  BY <1>1, <1>2 DEF Fetch
<1>6. [th[s] EXCEPT !.got.words = w, !.pc = "store"] = q
  BY <1>1, TypesGive DEF ThState
<1>7. Turn(s, q)
  BY <1>5, <1>6
<1> HIDE DEF h
<1>8. /\ q \in ThState /\ q.pc = "store" /\ q.key = th[s].key /\ q.at = th[s].at /\ q.got = h
      /\ q.start = th[s].start
  BY <1>4, TypesGive DEF ThState, ThPcs
<1> HIDE DEF q
<1>9. Turned(s, q.pc, q.key, q.at, q.got.vec, q.got.words, q.start)
  BY <1>7, <1>8, TurnTo
<1> QED BY <1>1, <1>2, <1>4, <1>8, <1>9

LEMMA StoreTurns ==
    ASSUME TypeOK, NEW s \in Searchers, SetCache(s)
    PROVE  /\ Turned(s, "done", 0, {}, th[s].got.vec, th[s].got.words, th[s].start)
           /\ th'[s].got = th[s].got
<1>1. th[s].got \in Result
  BY TypesGive DEF ThState
<1> QED BY <1>1, AnswerTurns DEF SetCache, ThPcs

\* What a search leaves alone, and what it makes of the cache.
LEMMA SearchAlone ==
    ASSUME TypeOK, NEW s \in Searchers, Search(s)
    PROVE  /\ UNCHANGED <<store, index, version, bounds, up, doubt>>
           /\ th' \in [Searchers -> ThState] /\ \A t \in Searchers : t # s => th'[t] = th[t]
           /\ SetCache(s) \/ cache' = cache
<1>1. CASE CacheKey(s)
  BY <1>1, KeyTurns DEF CacheKey, Turned, cached
<1>2. CASE GetCache(s)
  <2>1. CASE th[s].key \in DOMAIN cache
    BY <1>2, <2>1, HitTurns DEF GetCache, Turned, cached
  <2>2. CASE th[s].key \notin DOMAIN cache
    BY <1>2, <2>2, MissTurns DEF GetCache, Turned, cached
  <2> QED BY <2>1, <2>2
<1>3. CASE SearchVector(s)
  <2>1. CASE gone
    BY <1>3, <2>1, RaiseTurns DEF SearchVector, Turned, cached
  <2>2. CASE ~gone
    BY <1>3, <2>2, VectorTurns DEF SearchVector, Turned, cached
  <2> QED BY <2>1, <2>2
<1>4. CASE Score(s)
  BY <1>4, ScoreTurns DEF Score, Turned, cached
<1>5. CASE Names(s)
  <2>1. CASE th[s].at \subseteq DOMAIN ids
    BY <1>5, <2>1, NamesTurns DEF Names, Turned, cached
  <2>2. CASE ~(th[s].at \subseteq DOMAIN ids)
    BY <1>5, <2>2, RaiseTurns DEF Names, Turned, cached
  <2> QED BY <2>1, <2>2
<1>6. CASE Fetch(s)
  <2>1. CASE gone
    BY <1>6, <2>1, RaiseTurns DEF Fetch, Turned, cached
  <2>2. CASE ~gone
    BY <1>6, <2>2, FetchTurns DEF Fetch, Turned, cached
  <2> QED BY <2>1, <2>2
<1>7. CASE SetCache(s)
  BY <1>7, StoreTurns DEF SetCache, Turned, cached
<1> QED BY <1>1, <1>2, <1>3, <1>4, <1>5, <1>6, <1>7 DEF Search

LEMMA PutFacts ==
    ASSUME CacheType, NEW k \in Nat, NEW r \in Result, Put(k, r)
    PROVE  /\ DOMAIN cache' = DOMAIN cache \cup {k} /\ cache'[k] = r
           /\ \A v \in DOMAIN cache : v # k => cache'[v] = cache[v]
           /\ DOMAIN cache' \subseteq Nat /\ \A v \in DOMAIN cache' : cache'[v] \in Result
<1>1. cache' = [v \in DOMAIN cache \cup {k} |-> IF v = k THEN r ELSE cache[v]]
  BY DEF Put
<1>2. DOMAIN cache' = DOMAIN cache \cup {k}
  BY <1>1
<1>3. \A v \in DOMAIN cache' : cache'[v] = IF v = k THEN r ELSE cache[v]
  BY <1>1
<1> QED BY <1>2, <1>3 DEF CacheType

LEMMA SearchTypes ==
    ASSUME Types, NEW s \in Searchers, Search(s)
    PROVE  Types'
<1>1. /\ UNCHANGED <<store, index, version, bounds, up, doubt>>
      /\ th' \in [Searchers -> ThState]
      /\ SetCache(s) \/ cache' = cache
  BY SearchAlone DEF Types
<1>2. CacheType'
  <2>1. CASE cache' = cache
    BY <1>1, <2>1, TypeParts DEF Types, CacheType
  <2>2. CASE SetCache(s)
    <3>1. th[s].key \in Nat /\ th[s].got \in Result
      BY TypesGive DEF Types, ThState
    <3>2. Put(th[s].key, th[s].got)
      BY <2>2 DEF SetCache
    <3>3. CacheType
      BY TypeParts DEF Types
    <3> QED BY <1>1, <3>1, <3>2, <3>3, PutFacts DEF CacheType
  <2> QED BY <1>1, <2>1, <2>2
<1>3. StoreType' /\ IndexType' /\ BoundType' /\ DoubtType' /\ up' \in [Updaters -> UpState]
  BY <1>1, TypeParts DEF Types, StoreType, IndexType, BoundType, DoubtType, store, index, bounds
<1>4. TypeOK'
  BY <1>1, <1>2, <1>3, TypePartsNext
<1>5. up' = up /\ coll' = coll /\ gone' = gone /\ made' = made /\ begun' = begun
  BY <1>1 DEF store, bounds
<1>6. Shape' /\ Owned'
  BY <1>5, AsideKept DEF Types
<1> QED BY <1>4, <1>6 DEF Types

LEMMA EvictTypes ==
    ASSUME Types, NEW v \in DOMAIN cache, Evict(v)
    PROVE  Types' /\ DOMAIN cache' = DOMAIN cache \ {v} /\ \A w \in DOMAIN cache' : cache'[w] = cache[w]
<1>1. DOMAIN cache' = DOMAIN cache \ {v} /\ \A w \in DOMAIN cache' : cache'[w] = cache[w]
  BY DEF Evict
<1>2. UNCHANGED <<store, index, version, bounds, up, th, doubt>>
  BY DEF Evict
<1>3. CacheType'
  BY <1>1, <1>2, TypeParts DEF Types, CacheType
<1>4. /\ StoreType' /\ IndexType' /\ BoundType' /\ DoubtType' /\ up' \in [Updaters -> UpState]
      /\ th' \in [Searchers -> ThState]
  BY <1>2, TypeParts DEF Types, StoreType, IndexType, BoundType, DoubtType, store, index, bounds
<1> QED BY <1>1, <1>2, <1>3, <1>4, TypePartsNext, AsideKept DEF Types, store, index, bounds
-----------------------------------------------------------------------------
(* All steps keep the types.                                                *)

\* An updater begins.
Start ==
    \/ \E n \in 0..MaxChunks : BuildFull(n) \/ AddChunks(Job, n)
    \/ \E c \in Chunks : DeactivateByDocs(c)
    \/ \E w \in Workers : AddChunks(w, 1)

LEMMA AddBegins ==
    ASSUME Types, NEW u \in Updaters, NEW n \in Nat, AddChunks(u, n)
    PROVE  Types' /\ New(n) \in Seq(Chunks) /\ Begin(u, New(n), "add")
<1>1. /\ n > 0 /\ made + n <= MaxChunks /\ made' = made + n /\ Begin(u, New(n), "add")
      /\ made \in Nat /\ MaxChunks \in Nat
  BY TypesGive, SearchAssumption DEF Types, AddChunks
<1>2. /\ New(n) \in Seq(Chunks) /\ IsInjective(New(n)) /\ New(n) # <<>>
      /\ ToSet(New(n)) \subseteq (made + 1)..made' /\ made' \in made..MaxChunks
  BY <1>1, NewFacts
<1>3. Types'
  BY <1>1, <1>2, BeginTypes DEF UpPcs
<1> QED BY <1>1, <1>2, <1>3

LEMMA FullBegins ==
    ASSUME Types, NEW n \in Nat, BuildFull(n)
    PROVE  Types' /\ New(n) \in Seq(Chunks) /\ Begin(Job, New(n), "drop")
<1>1. /\ made + n <= MaxChunks /\ made' = made + n /\ Begin(Job, New(n), "drop")
      /\ made \in Nat /\ MaxChunks \in Nat /\ Job \in Updaters
  BY TypesGive, SearchAssumption DEF Types, BuildFull, Updaters
<1>2. /\ New(n) \in Seq(Chunks) /\ IsInjective(New(n))
      /\ ToSet(New(n)) \subseteq (made + 1)..made' /\ made' \in made..MaxChunks
  BY <1>1, NewFacts
<1>3. Types'
  BY <1>1, <1>2, BeginTypes DEF UpPcs
<1> QED BY <1>1, <1>2, <1>3

LEMMA RemovalBegins ==
    ASSUME Types, NEW c \in Chunks, DeactivateByDocs(c)
    PROVE  Types' /\ <<c>> \in Seq(Chunks) /\ Begin(Job, <<c>>, "remove")
<1>1. /\ made' = made /\ Begin(Job, <<c>>, "remove") /\ made \in 0..MaxChunks
      /\ MaxChunks \in Nat /\ Job \in Updaters
  BY TypeParts, SearchAssumption DEF Types, DeactivateByDocs, Updaters, StoreType
<1>2. <<c>> \in Seq(Chunks) /\ <<c>> # <<>> /\ made' \in made..MaxChunks
  BY <1>1
<1>3. Types'
  BY <1>1, <1>2, BeginTypes DEF UpPcs
<1> QED BY <1>1, <1>2, <1>3

LEMMA StartBegins ==
    ASSUME Types, Start
    PROVE  /\ Types'
           /\ \E u \in Updaters, t \in Seq(Chunks), p \in {"drop", "add", "remove"} : Begin(u, t, p)
<1>1. Job \in Updaters /\ Workers \subseteq Updaters /\ 1 \in Nat /\ 0..MaxChunks \subseteq Nat
  BY SearchAssumption DEF Updaters
<1>2. ASSUME NEW n \in 0..MaxChunks, BuildFull(n)
      PROVE  Types' /\ New(n) \in Seq(Chunks) /\ Begin(Job, New(n), "drop")
  BY <1>1, <1>2, FullBegins
<1>3. ASSUME NEW n \in 0..MaxChunks, AddChunks(Job, n)
      PROVE  Types' /\ New(n) \in Seq(Chunks) /\ Begin(Job, New(n), "add")
  BY <1>1, <1>3, AddBegins
<1>4. ASSUME NEW c \in Chunks, DeactivateByDocs(c)
      PROVE  Types' /\ <<c>> \in Seq(Chunks) /\ Begin(Job, <<c>>, "remove")
  BY <1>4, RemovalBegins
<1>5. ASSUME NEW w \in Workers, AddChunks(w, 1)
      PROVE  Types' /\ New(1) \in Seq(Chunks) /\ Begin(w, New(1), "add")
  BY <1>1, <1>5, AddBegins
<1>6. CASE \E n \in 0..MaxChunks : BuildFull(n)
  BY <1>1, <1>2, <1>6
<1>7. CASE \E n \in 0..MaxChunks : AddChunks(Job, n)
  BY <1>1, <1>3, <1>7
<1>8. CASE \E c \in Chunks : DeactivateByDocs(c)
  BY <1>1, <1>4, <1>8
<1>9. CASE \E w \in Workers : AddChunks(w, 1)
  BY <1>1, <1>5, <1>9
<1> QED BY <1>6, <1>7, <1>8, <1>9 DEF Start

\* After a restart nobody is anywhere.
LEMMA RestartFacts ==
    ASSUME Restart
    PROVE  /\ up' \in [Updaters -> UpState] /\ th' \in [Searchers -> ThState]
           /\ \A u \in Updaters : up'[u].pc = "idle" /\ ~up'[u].changed /\ up'[u].start = 0
           /\ \A s \in Searchers : th'[s].pc = "idle" /\ th'[s].key = 0 /\ th'[s].start = 0
           /\ DOMAIN cache' = {} /\ version' = version + 1 /\ gone' = FALSE
           /\ coll' = coll /\ made' = made /\ begun' = begun
<1>1. /\ up' = [u \in Updaters |-> Resting] /\ th' = [s \in Searchers |-> Waiting]
      /\ cache' = <<>> /\ version' = version + 1 /\ gone' = FALSE
      /\ coll' = coll /\ made' = made /\ begun' = begun
  BY DEF Restart
<1>2. Waiting \in ThState /\ Waiting.pc = "idle" /\ Waiting.key = 0 /\ Waiting.start = 0
  BY EmptyResult DEF Waiting, ThState, ThPcs
<1>3. ~Resting.changed
  BY RestingFacts
<1>4. /\ \A u \in Updaters : up'[u] = Resting
      /\ \A s \in Searchers : th'[s] = Waiting
  BY <1>1
<1>5. \A u \in Updaters : up'[u].pc = "idle" /\ ~up'[u].changed /\ up'[u].start = 0
  BY <1>3, <1>4, RestingFacts
<1> QED BY <1>1, <1>2, <1>4, <1>5, RestingFacts

LEMMA FileOfType == ASSUME NEW s \in Seq(Chunks) PROVE FileOf(s) \in FileType
BY LenProperties DEF FileOf, FileType

LEMMA RestartTypes == Types /\ Restart => Types'
<1> SUFFICES ASSUME Types, Restart PROVE Types'
  OBVIOUS
<1>1. StoreType /\ IndexType /\ CacheType /\ BoundType /\ DoubtType
  BY TypeParts DEF Types
<1>2. StoreType' /\ CacheType'
  BY <1>1, RestartFacts DEF StoreType, CacheType
<1>3. IndexType' /\ DoubtType'
  <2>1. CASE coll # <<>> /\ file.count = Len(coll) /\ corpus' = file.corpus /\ ids' = file.ids /\ file' = file
             /\ doubt' = [index |-> file.doubt \/ doubt.index \/ ~Quiet, cache |-> FALSE]
    <3>1. file.corpus \in Seq(Chunks) /\ file.ids \in Seq(Chunks)
      BY <1>1 DEF IndexType, FileType
    <3>2. (file.doubt \/ doubt.index \/ ~Quiet) \in BOOLEAN
      OBVIOUS
    <3>3. DoubtType'
      BY <2>1, <3>2 DEF DoubtType
    <3> QED BY <1>1, <2>1, <3>1, <3>3 DEF IndexType
  <2>2. CASE /\ corpus' = coll /\ ids' = coll /\ file' = FileOf(coll)
             /\ doubt' = [index |-> FALSE, cache |-> FALSE]
    <3>1. coll \in Seq(Chunks)
      BY <1>1 DEF StoreType
    <3>2. DoubtType'
      BY <2>2 DEF DoubtType
    <3> QED BY <2>2, <3>1, <3>2, FileOfType DEF IndexType
  <2> QED BY <2>1, <2>2 DEF Restart
<1>4. BoundType'
  BY <1>1, RestartFacts, SearchAssumption DEF BoundType, Restart
<1>5. TypeOK'
  BY <1>2, <1>3, <1>4, RestartFacts, TypePartsNext
<1>6. begun \in Nat
  BY TypesGive DEF Types
<1>7. Shape'
  <2>1. \A u \in Updaters : up'[u].start <= begun' /\ up'[u].pc = "idle" /\ ~up'[u].changed
    BY <1>6, RestartFacts
  <2> QED BY <2>1, RestartFacts DEF Shape, Late
<1>8. ToSet(coll') \subseteq 1..made'
  BY RestartFacts DEF Types, Owned
<1>9. \A u \in Updaters : up'[u].pc \notin {"drop", "create", "add"}
  BY RestartFacts
<1>10. Owned'
  BY <1>8, <1>9 DEF Owned, Bringing
<1> QED BY <1>5, <1>7, <1>10 DEF Types

LEMMA InitTypes == Init => Types
<1> SUFFICES ASSUME Init PROVE Types
  OBVIOUS
<1>1. /\ up = [u \in Updaters |-> Resting] /\ th = [s \in Searchers |-> Waiting]
      /\ made \in 0..MaxChunks /\ coll = [i \in 1..made |-> i] /\ gone = FALSE
      /\ corpus = coll /\ ids = coll /\ file = FileOf(coll)
  BY DEF Init
<1>2. \A u \in Updaters : up[u] = Resting
  BY <1>1
<1>3. Waiting \in ThState
  BY EmptyResult DEF Waiting, ThState, ThPcs
<1>4. up \in [Updaters -> UpState] /\ th \in [Searchers -> ThState]
  BY <1>1, <1>3, RestingFacts
<1>5. /\ made \in Nat /\ DOMAIN coll = 1..made /\ \A i \in 1..made : coll[i] = i
  BY <1>1, SearchAssumption
<1>6. coll \in [1..made -> Chunks]
  BY <1>1, SearchAssumption DEF Chunks
<1>7. coll \in Seq(Chunks)
  BY <1>5, <1>6, SeqDef
<1>8. ToSet(coll) \subseteq 1..made /\ IsInjective(coll)
  BY <1>5 DEF ToSet, IsInjective
<1>9. StoreType /\ IndexType
  BY <1>1, <1>7, <1>8, FileOfType DEF StoreType, IndexType
<1>10. CacheType /\ BoundType /\ DoubtType
  <2>1. cache = <<>> /\ DOMAIN cache = {}
    BY DEF Init
  <2> QED BY <2>1, SearchAssumption DEF Init, CacheType, BoundType, DoubtType
<1>11. TypeOK
  BY <1>4, <1>9, <1>10, TypeParts
<1>12. begun = 0
  BY DEF Init
<1>13. \A u \in Updaters : up[u].pc = "idle" /\ ~up[u].changed /\ up[u].start = 0
  <2>1. ~Resting.changed
    BY RestingFacts
  <2> QED BY <1>2, <2>1, RestingFacts
<1>14. Shape
  BY <1>1, <1>12, <1>13 DEF Shape, Late
<1>15. Owned
  BY <1>8, <1>13 DEF Owned, Bringing
<1> QED BY <1>11, <1>14, <1>15 DEF Types

\* The steps there are.
LEMMA NextCases ==
    ASSUME [Next]_vars
    PROVE  \/ Start \/ DropCollection \/ DropFails \/ CreateCollection \/ (\E u \in Updaters : Update(u))
           \/ (\E s \in Searchers : Search(s)) \/ (\E v \in DOMAIN cache : Evict(v)) \/ Restart
           \/ UNCHANGED vars
BY DEF Next, Sync, Start

LEMMA NextTypes == Types /\ [Next]_vars => Types'
<1> SUFFICES ASSUME Types, [Next]_vars PROVE Types'
  OBVIOUS
<1>1. ASSUME NEW u \in Updaters, Update(u) PROVE Types'
  BY <1>1, InsertTypes, DeleteTypes, FailsTypes, CountTypes, GetTypes, SetIdsTypes, SetCorpusTypes,
     DumpTypes, NewVersionTypes, NoVersionTypes, InvalidateTypes DEF Update
<1>2. CASE UNCHANGED vars
  <2>1. UNCHANGED <<store, index, version, cache, bounds, up, th, doubt>>
    BY <1>2 DEF vars, cached
  <2>2. /\ StoreType' /\ IndexType' /\ CacheType' /\ BoundType' /\ DoubtType'
        /\ up' \in [Updaters -> UpState] /\ th' \in [Searchers -> ThState]
    BY <2>1, TypeParts
       DEF Types, StoreType, IndexType, CacheType, BoundType, DoubtType, store, index, bounds
  <2>3. TypeOK'
    BY <2>2, TypePartsNext
  <2>4. Shape' /\ Owned'
    BY <2>1, AsideKept DEF Types, store, bounds
  <2> QED BY <2>3, <2>4 DEF Types
<1> QED BY <1>1, <1>2, NextCases, StartBegins, DropTypes, DropFailsTypes, CreateTypes, SearchTypes, EvictTypes, RestartTypes

\* In every reachable state the variables have their types, and each chunk one place.
THEOREM TypesHold == Spec => []Types
<1>1. Init => Types
  BY InitTypes
<1>2. Types /\ [Next]_vars => Types'
  BY NextTypes
<1> QED BY <1>1, <1>2, PTL DEF Spec

\* Every variable has its type, and no chunk is in the collection twice, whatever fails,
\* restarts and overlaps.
THEOREM TypeCorrect == Spec => []TypeOK
<1>1. Types => TypeOK
  BY DEF Types
<1> QED BY <1>1, TypesHold, PTL
-----------------------------------------------------------------------------
(* The keyword index.                                                       *)

\* Without a doubt of the index the only update is the one that began last, and no other
\* is there beside an update that began between updates and after which none has begun.
Lone ==
    /\ \A u \in Updaters : up[u].pc # "idle" /\ ~doubt.index => Alone(u)
    /\ \A u, v \in Updaters : up[u].pc # "idle" /\ Alone(u) /\ u # v => up[v].pc = "idle"

\* The index and its file describe the collection.
Whole ==
    /\ corpus = ids
    /\ coll # <<>> => corpus = coll /\ file = FileOf(coll)

\* Without a doubt all is whole, except within an update that has changed something.
Settled ==
    ~doubt.index =>
        /\ (\A u \in Updaters : ~up[u].changed \/ up[u].pc \in {"version", "clear"}) => Whole
        /\ (\A u \in Updaters : up[u].pc # "corpus") => corpus = ids

\* What an update without another beside it has read is the collection.
Rebuilding ==
    \A u \in Updaters : Alone(u) =>
        /\ up[u].pc = "create" => coll = <<>>
        /\ up[u].pc = "get" => coll # <<>>
        /\ up[u].pc \in {"ids", "corpus", "dump"} => up[u].seen = coll /\ coll # <<>>
        /\ up[u].pc \in {"corpus", "dump"} => ids = coll
        /\ up[u].pc = "dump" => corpus = coll /\ ~doubt.index

Indexed == Lone /\ Settled /\ Rebuilding

LEMMA LoneKept ==
    ASSUME Lone, NEW u \in Updaters, \A v \in Updaters : v # u => up'[v] = up[v],
           up[u].pc # "idle", up'[u].pc = "idle" \/ up'[u].start = up[u].start, begun' = begun,
           ~doubt'.index => ~doubt.index \/ Alone(u)
    PROVE  Lone'
<1>1. ASSUME NEW v \in Updaters, up'[v].pc # "idle"
      PROVE  up[v].pc # "idle" /\ up'[v].start = up[v].start
  <2>1. CASE v = u
    BY <1>1, <2>1
  <2>2. CASE v # u
    BY <1>1, <2>2
  <2> QED BY <2>1, <2>2
<1>2. ASSUME NEW v \in Updaters, up'[v].pc # "idle", ~doubt'.index
      PROVE  up'[v].start = begun'
  <2>1. CASE ~doubt.index
    BY <1>1, <1>2, <2>1 DEF Lone, Alone
  <2>2. CASE Alone(u)
    <3>1. v = u
      BY <1>1, <1>2, <2>2 DEF Lone
    <3> QED BY <1>1, <1>2, <2>2, <3>1 DEF Alone
  <2> QED BY <1>2, <2>1, <2>2
<1>3. ASSUME NEW v \in Updaters, NEW w \in Updaters, up'[v].pc # "idle", up'[v].start = begun', v # w
      PROVE  up'[w].pc = "idle"
  BY <1>1, <1>3 DEF Lone, Alone
<1> QED BY <1>2, <1>3 DEF Lone, Alone

\* Nobody else's program point says anything while an update is on.
LEMMA RebuildingKept ==
    ASSUME Lone, NEW u \in Updaters, \A v \in Updaters : v # u => up'[v] = up[v],
           up[u].pc # "idle", begun' = begun, up'[u].pc = "idle" \/ up'[u].start = up[u].start,
           Alone(u) => /\ up'[u].pc = "create" => coll' = <<>>
                       /\ up'[u].pc = "get" => coll' # <<>>
                       /\ up'[u].pc \in {"ids", "corpus", "dump"} => up'[u].seen = coll' /\ coll' # <<>>
                       /\ up'[u].pc \in {"corpus", "dump"} => ids' = coll'
                       /\ up'[u].pc = "dump" => corpus' = coll' /\ ~doubt'.index
    PROVE  Rebuilding'
<1> SUFFICES ASSUME NEW v \in Updaters, up'[v].start = begun', up'[v].pc # "idle"
             PROVE  /\ up'[v].pc = "create" => coll' = <<>>
                    /\ up'[v].pc = "get" => coll' # <<>>
                    /\ up'[v].pc \in {"ids", "corpus", "dump"} => up'[v].seen = coll' /\ coll' # <<>>
                    /\ up'[v].pc \in {"corpus", "dump"} => ids' = coll'
                    /\ up'[v].pc = "dump" => corpus' = coll' /\ ~doubt'.index
  BY DEF Rebuilding, Alone
<1>1. v = u
  <2>1. SUFFICES ASSUME v # u PROVE FALSE
    OBVIOUS
  <2>2. up[v].start = begun /\ up[v].pc # "idle"
    BY <2>1
  <2> QED BY <2>1, <2>2 DEF Lone, Alone
<1>2. up[u].start = begun
  BY <1>1
<1> QED BY <1>1, <1>2 DEF Alone

\* What Settled says while u is at work.
LEMMA SettledGives ==
    ASSUME Types, Lone, Settled, NEW u \in Updaters, up[u].pc # "idle", ~doubt.index
    PROVE  /\ Alone(u)
           /\ ~up[u].changed \/ up[u].pc \in {"version", "clear"} => Whole
           /\ up[u].pc # "corpus" => corpus = ids
<1>1. Alone(u)
  BY DEF Lone
<1>2. \A v \in Updaters : v # u => up[v].pc = "idle" /\ ~up[v].changed
  BY <1>1 DEF Lone, Types, Shape
<1>3. ~up[u].changed \/ up[u].pc \in {"version", "clear"} => Whole
  BY <1>2 DEF Settled
<1>4. up[u].pc # "corpus" => corpus = ids
  BY <1>2 DEF Settled
<1> QED BY <1>1, <1>3, <1>4

LEMMA SettledKept ==
    ASSUME NEW u \in Updaters,
           ~doubt'.index => /\ ~up'[u].changed \/ up'[u].pc \in {"version", "clear"} => Whole'
                            /\ up'[u].pc # "corpus" => corpus' = ids'
    PROVE  Settled'
BY DEF Settled

\* An update that nobody is beside works on a collection that is there.
LEMMA AloneHasCollection ==
    ASSUME Types, Lone, NEW u \in Updaters, up[u].pc \notin {"idle", "create"}, Alone(u)
    PROVE  ~gone
<1>1. gone => up[Job].pc = "create" /\ Job \in Updaters
  BY DEF Types, Shape, Updaters
<1> QED BY <1>1 DEF Lone

LEMMA BeginIndexed ==
    ASSUME Types, Indexed, NEW u \in Updaters, NEW t \in Seq(Chunks),
           NEW p \in {"drop", "add", "remove"}, Begin(u, t, p)
    PROVE  Indexed'
<1> DEFINE n == IF Quiet THEN begun + 1 ELSE 0
<1>1. Moved(u, p, t, <<>>, FALSE, n)
  BY BeginMoves DEF Types, UpPcs
<1>2. begun \in Nat /\ begun' = begun + 1 /\ coll' = coll /\ UNCHANGED <<corpus, ids, file>>
  BY TypesGive DEF Types, Begin, index
<1>3. /\ up'[u].pc = p /\ up'[u].start = n /\ \A v \in Updaters : v # u => up'[v] = up[v]
      /\ up[u].pc = "idle"
  BY <1>1 DEF Moved, Begin
<1>4. doubt'.index = (doubt.index \/ ~Quiet)
  BY ShapeGives DEF Begin, DoubtType
<1>5. \A v \in Updaters : up[v].start <= begun /\ up[v].start \in Nat
  BY ShapeGives DEF UpState
<1>6. \A v \in Updaters : v # u => up'[v].start # begun'
  BY <1>2, <1>3, <1>5
<1>7. Rebuilding'
  BY <1>3, <1>6 DEF Rebuilding, Alone
<1>8. CASE Quiet
  <2>1. \A v \in Updaters : up[v].pc = "idle" /\ ~up[v].changed
    BY <1>8 DEF Quiet, Types, Shape
  <2>2. up'[u].start = begun' /\ \A v \in Updaters : v # u => up'[v].pc = "idle"
    BY <1>2, <1>3, <1>8, <2>1
  <2>3. Lone'
    BY <2>2 DEF Lone, Alone
  <2>4. ~doubt'.index => Whole
    BY <1>4, <2>1 DEF Indexed, Settled
  <2>5. ~doubt'.index => Whole' /\ corpus' = ids'
    BY <1>2, <2>4 DEF Whole
  <2>6. Settled'
    BY <2>5 DEF Settled
  <2> QED BY <1>7, <2>3, <2>6 DEF Indexed
<1>9. CASE ~Quiet
  <2>1. doubt'.index
    BY <1>4, <1>9
  <2>2. \A v \in Updaters : up'[v].start # begun'
    BY <1>2, <1>3, <1>6, <1>9
  <2> QED BY <1>7, <2>1, <2>2 DEF Indexed, Lone, Alone, Settled
<1> QED BY <1>8, <1>9

LEMMA DropIndexed ==
    ASSUME Types, Indexed, DropCollection
    PROVE  Indexed'
<1>1. up[Job].pc = "drop" /\ begun' = begun /\ UNCHANGED <<corpus, ids, file, doubt>>
  BY DEF DropCollection, bounds, index
<1>2. /\ Job \in Updaters /\ \A v \in Updaters : v # Job => up'[v] = up[v]
      /\ up'[Job].pc = "create" /\ up'[Job].seen = up[Job].seen /\ up'[Job].start = up[Job].start
      /\ up'[Job].changed
  <2>1. Job \in Updaters
    BY DEF Updaters
  <2> QED BY <2>1, ChangeMoves DEF Types, Moved
<1>3. up[Job].pc # "idle" /\ (up'[Job].pc = "idle" \/ up'[Job].start = up[Job].start)
  BY <1>1, <1>2
<1>4. ~doubt'.index => ~doubt.index \/ Alone(Job)
  BY <1>1
<1>5. Alone(Job) =>
        /\ up'[Job].pc = "create" => coll' = <<>>
        /\ up'[Job].pc = "get" => coll' # <<>>
        /\ up'[Job].pc \in {"ids", "corpus", "dump"} => up'[Job].seen = coll' /\ coll' # <<>>
        /\ up'[Job].pc \in {"corpus", "dump"} => ids' = coll'
        /\ up'[Job].pc = "dump" => corpus' = coll' /\ ~doubt'.index
  BY <1>2 DEF DropCollection
<1>6. ~doubt'.index => /\ ~up'[Job].changed \/ up'[Job].pc \in {"version", "clear"} => Whole'
                       /\ up'[Job].pc # "corpus" => corpus' = ids'
  BY <1>1, <1>2, SettledGives DEF Indexed
<1>7. Lone'
  BY <1>1, <1>2, <1>3, <1>4, LoneKept DEF Indexed
<1>8. Rebuilding'
  BY <1>1, <1>2, <1>3, <1>5, RebuildingKept DEF Indexed
<1>9. Settled'
  BY <1>2, <1>6, SettledKept
<1> QED BY <1>7, <1>8, <1>9 DEF Indexed

LEMMA DropFailsIndexed ==
    ASSUME Types, Indexed, DropFails
    PROVE  Indexed'
<1>1. /\ Moved(Job, AfterCreation, up[Job].todo, up[Job].seen, up[Job].changed, up[Job].start)
      /\ Job \in Updaters /\ up[Job].pc = "drop"
      /\ UNCHANGED <<coll, corpus, ids, file, begun, doubt>>
  BY DropFailsMoves
<1>2. /\ \A v \in Updaters : v # Job => up'[v] = up[v]
      /\ up'[Job].pc \in {"version", "add"} /\ up'[Job].start = up[Job].start
      /\ up'[Job].changed = up[Job].changed
  BY <1>1 DEF Moved, AfterCreation
<1>3. ~up[Job].changed
  BY <1>1 DEF Types, Shape
<1>4. ~doubt'.index => Whole' /\ corpus' = ids'
  BY <1>1, <1>3, SettledGives DEF Indexed, Whole
<1>5. Lone'
  BY <1>1, <1>2, LoneKept DEF Indexed
<1>6. Rebuilding'
  BY <1>1, <1>2, RebuildingKept DEF Indexed
<1>7. Settled'
  BY <1>1, <1>4, SettledKept
<1> QED BY <1>5, <1>6, <1>7 DEF Indexed

LEMMA CreateIndexed ==
    ASSUME Types, Indexed, CreateCollection
    PROVE  Indexed'
<1>1. up[Job].pc = "create" /\ begun' = begun /\ UNCHANGED <<coll, corpus, ids, file, doubt>>
  BY DEF CreateCollection, bounds, store, index
<1>2. /\ Job \in Updaters /\ \A v \in Updaters : v # Job => up'[v] = up[v]
      /\ up'[Job].pc = AfterCreation /\ up'[Job].seen = up[Job].seen /\ up'[Job].start = up[Job].start
      /\ up'[Job].changed
  <2>1. Job \in Updaters
    BY DEF Updaters
  <2>2. PICK p \in UpPcs : p = AfterCreation
    BY DEF UpPcs, AfterCreation
  <2>3. Moved(Job, p, up[Job].todo, up[Job].seen, up[Job].changed, up[Job].start)
    BY <2>1, <2>2, GotoMoves DEF Types, CreateCollection
  <2>4. up[Job].changed
    BY <1>1, <2>1, ShapeGives DEF Late
  <2> QED BY <2>1, <2>2, <2>3, <2>4 DEF Moved
<1>3. up[Job].pc # "idle" /\ (up'[Job].pc = "idle" \/ up'[Job].start = up[Job].start)
  BY <1>1, <1>2
<1>4. ~doubt'.index => ~doubt.index \/ Alone(Job)
  BY <1>1
<1>5. Alone(Job) =>
        /\ up'[Job].pc = "create" => coll' = <<>>
        /\ up'[Job].pc = "get" => coll' # <<>>
        /\ up'[Job].pc \in {"ids", "corpus", "dump"} => up'[Job].seen = coll' /\ coll' # <<>>
        /\ up'[Job].pc \in {"corpus", "dump"} => ids' = coll'
        /\ up'[Job].pc = "dump" => corpus' = coll' /\ ~doubt'.index
  BY <1>2 DEF AfterCreation
<1>6. ~doubt'.index => /\ ~up'[Job].changed \/ up'[Job].pc \in {"version", "clear"} => Whole'
                       /\ up'[Job].pc # "corpus" => corpus' = ids'
  <2> SUFFICES ASSUME ~doubt'.index PROVE Whole' /\ corpus' = ids'
    OBVIOUS
  <2>1. Alone(Job) /\ corpus = ids
    BY <1>1, <1>2, SettledGives DEF Indexed
  <2>2. coll = <<>>
    BY <1>1, <1>2, <2>1 DEF Indexed, Rebuilding
  <2> QED BY <1>1, <2>1, <2>2 DEF Whole
<1>7. Lone'
  BY <1>1, <1>2, <1>3, <1>4, LoneKept DEF Indexed
<1>8. Rebuilding'
  BY <1>1, <1>2, <1>3, <1>5, RebuildingKept DEF Indexed
<1>9. Settled'
  BY <1>2, <1>6, SettledKept
<1> QED BY <1>7, <1>8, <1>9 DEF Indexed

LEMMA InsertIndexed ==
    ASSUME Types, Indexed, NEW u \in Updaters, Insert(u)
    PROVE  Indexed'
<1>1. up[u].pc = "add" /\ begun' = begun /\ UNCHANGED <<corpus, ids, file, doubt>>
  BY DEF Insert, bounds, store, index
<1>2. /\ u \in Updaters /\ \A v \in Updaters : v # u => up'[v] = up[v]
      /\ up'[u].pc = (IF Len(up[u].todo) = 1 THEN "count" ELSE "add") /\ up'[u].seen = up[u].seen /\ up'[u].start = up[u].start
      /\ up'[u].changed
  <2>1. up[u].todo # <<>>
    BY <1>1, ShapeGives
  <2> QED BY <2>1, ChangeMoves DEF Types, Moved
<1>3. up[u].pc # "idle" /\ (up'[u].pc = "idle" \/ up'[u].start = up[u].start)
  BY <1>1, <1>2
<1>4. ~doubt'.index => ~doubt.index \/ Alone(u)
  BY <1>1
<1>5. Alone(u) =>
        /\ up'[u].pc = "create" => coll' = <<>>
        /\ up'[u].pc = "get" => coll' # <<>>
        /\ up'[u].pc \in {"ids", "corpus", "dump"} => up'[u].seen = coll' /\ coll' # <<>>
        /\ up'[u].pc \in {"corpus", "dump"} => ids' = coll'
        /\ up'[u].pc = "dump" => corpus' = coll' /\ ~doubt'.index
  BY <1>2
<1>6. ~doubt'.index => /\ ~up'[u].changed \/ up'[u].pc \in {"version", "clear"} => Whole'
                       /\ up'[u].pc # "corpus" => corpus' = ids'
  BY <1>1, <1>2, SettledGives DEF Indexed
<1>7. Lone'
  BY <1>1, <1>2, <1>3, <1>4, LoneKept DEF Indexed
<1>8. Rebuilding'
  BY <1>1, <1>2, <1>3, <1>5, RebuildingKept DEF Indexed
<1>9. Settled'
  BY <1>2, <1>6, SettledKept
<1> QED BY <1>7, <1>8, <1>9 DEF Indexed

LEMMA DeleteIndexed ==
    ASSUME Types, Indexed, NEW u \in Updaters, DeleteDoc(u)
    PROVE  Indexed'
<1>1. up[u].pc = "remove" /\ begun' = begun /\ UNCHANGED <<corpus, ids, file, doubt>>
  BY DEF DeleteDoc, bounds, store, index
<1>2. /\ u \in Updaters /\ \A v \in Updaters : v # u => up'[v] = up[v]
      /\ up'[u].pc = "count" /\ up'[u].seen = up[u].seen /\ up'[u].start = up[u].start
      /\ up'[u].changed
  BY ChangeMoves DEF Types, Moved
<1>3. up[u].pc # "idle" /\ (up'[u].pc = "idle" \/ up'[u].start = up[u].start)
  BY <1>1, <1>2
<1>4. ~doubt'.index => ~doubt.index \/ Alone(u)
  BY <1>1
<1>5. Alone(u) =>
        /\ up'[u].pc = "create" => coll' = <<>>
        /\ up'[u].pc = "get" => coll' # <<>>
        /\ up'[u].pc \in {"ids", "corpus", "dump"} => up'[u].seen = coll' /\ coll' # <<>>
        /\ up'[u].pc \in {"corpus", "dump"} => ids' = coll'
        /\ up'[u].pc = "dump" => corpus' = coll' /\ ~doubt'.index
  BY <1>2
<1>6. ~doubt'.index => /\ ~up'[u].changed \/ up'[u].pc \in {"version", "clear"} => Whole'
                       /\ up'[u].pc # "corpus" => corpus' = ids'
  BY <1>1, <1>2, SettledGives DEF Indexed
<1>7. Lone'
  BY <1>1, <1>2, <1>3, <1>4, LoneKept DEF Indexed
<1>8. Rebuilding'
  BY <1>1, <1>2, <1>3, <1>5, RebuildingKept DEF Indexed
<1>9. Settled'
  BY <1>2, <1>6, SettledKept
<1> QED BY <1>7, <1>8, <1>9 DEF Indexed

LEMMA CountIndexed ==
    ASSUME Types, Indexed, NEW u \in Updaters, Count(u)
    PROVE  Indexed'
<1>1. up[u].pc = "count" /\ begun' = begun /\ UNCHANGED <<coll, corpus, ids, doubt>>
  BY DEF Count, bounds, store, index
<1>2. /\ u \in Updaters /\ \A v \in Updaters : v # u => up'[v] = up[v]
      /\ up'[u].pc = (IF gone \/ coll = <<>> THEN "version" ELSE "get") /\ up'[u].seen = up[u].seen /\ up'[u].start = up[u].start
      /\ up'[u].changed
  <2>1. PICK p \in UpPcs : p = IF gone \/ coll = <<>> THEN "version" ELSE "get"
    BY DEF UpPcs
  <2>2. Moved(u, p, up[u].todo, up[u].seen, up[u].changed, up[u].start)
    BY <2>1, GotoMoves DEF Types, Count
  <2>3. up[u].changed
    BY <1>1, ShapeGives DEF Late
  <2> QED BY <2>1, <2>2, <2>3 DEF Moved
<1>3. up[u].pc # "idle" /\ (up'[u].pc = "idle" \/ up'[u].start = up[u].start)
  BY <1>1, <1>2
<1>4. ~doubt'.index => ~doubt.index \/ Alone(u)
  BY <1>1
<1>5. Alone(u) =>
        /\ up'[u].pc = "create" => coll' = <<>>
        /\ up'[u].pc = "get" => coll' # <<>>
        /\ up'[u].pc \in {"ids", "corpus", "dump"} => up'[u].seen = coll' /\ coll' # <<>>
        /\ up'[u].pc \in {"corpus", "dump"} => ids' = coll'
        /\ up'[u].pc = "dump" => corpus' = coll' /\ ~doubt'.index
  BY <1>1, <1>2
<1>6. ~doubt'.index => /\ ~up'[u].changed \/ up'[u].pc \in {"version", "clear"} => Whole'
                       /\ up'[u].pc # "corpus" => corpus' = ids'
  <2> SUFFICES ASSUME ~doubt'.index
               PROVE  up'[u].pc = "version" => Whole' /\ corpus' = ids'
    <3>1. ~doubt.index => corpus' = ids'
      BY <1>1, <1>2, SettledGives DEF Indexed
    <3> QED BY <1>1, <1>2, <3>1
  <2>1. Alone(u) /\ corpus = ids
    BY <1>1, <1>2, SettledGives DEF Indexed
  <2>2. ~gone
    BY <1>1, <1>2, <2>1, AloneHasCollection DEF Indexed
  <2> QED BY <1>1, <1>2, <2>1, <2>2 DEF Whole
<1>7. Lone'
  BY <1>1, <1>2, <1>3, <1>4, LoneKept DEF Indexed
<1>8. Rebuilding'
  BY <1>1, <1>2, <1>3, <1>5, RebuildingKept DEF Indexed
<1>9. Settled'
  BY <1>2, <1>6, SettledKept
<1> QED BY <1>7, <1>8, <1>9 DEF Indexed

LEMMA GetIndexed ==
    ASSUME Types, Indexed, NEW u \in Updaters, Get(u)
    PROVE  Indexed'
<1>1. up[u].pc = "get" /\ begun' = begun /\ UNCHANGED <<coll, corpus, ids, file, doubt>>
  BY DEF Get, bounds, store, index
<1>2. /\ u \in Updaters /\ \A v \in Updaters : v # u => up'[v] = up[v]
      /\ up'[u].pc = (IF gone THEN "version" ELSE "ids") /\ up'[u].seen = coll /\ up'[u].start = up[u].start
      /\ up'[u].changed
  <2>1. up[u].changed
    BY <1>1, ShapeGives DEF Late
  <2> QED BY <2>1, ChangeMoves DEF Types, Moved
<1>3. up[u].pc # "idle" /\ (up'[u].pc = "idle" \/ up'[u].start = up[u].start)
  BY <1>1, <1>2
<1>4. ~doubt'.index => ~doubt.index \/ Alone(u)
  BY <1>1
<1>5. Alone(u) =>
        /\ up'[u].pc = "create" => coll' = <<>>
        /\ up'[u].pc = "get" => coll' # <<>>
        /\ up'[u].pc \in {"ids", "corpus", "dump"} => up'[u].seen = coll' /\ coll' # <<>>
        /\ up'[u].pc \in {"corpus", "dump"} => ids' = coll'
        /\ up'[u].pc = "dump" => corpus' = coll' /\ ~doubt'.index
  BY <1>1, <1>2 DEF Indexed, Rebuilding
<1>6. ~doubt'.index => /\ ~up'[u].changed \/ up'[u].pc \in {"version", "clear"} => Whole'
                       /\ up'[u].pc # "corpus" => corpus' = ids'
  <2> SUFFICES ASSUME ~doubt'.index PROVE up'[u].pc = "ids" /\ corpus' = ids'
    BY <1>2
  <2>1. Alone(u) /\ corpus = ids
    BY <1>1, <1>2, SettledGives DEF Indexed
  <2>2. ~gone
    BY <1>1, <1>2, <2>1, AloneHasCollection DEF Indexed
  <2> QED BY <1>1, <1>2, <2>1, <2>2
<1>7. Lone'
  BY <1>1, <1>2, <1>3, <1>4, LoneKept DEF Indexed
<1>8. Rebuilding'
  BY <1>1, <1>2, <1>3, <1>5, RebuildingKept DEF Indexed
<1>9. Settled'
  BY <1>2, <1>6, SettledKept
<1> QED BY <1>7, <1>8, <1>9 DEF Indexed

LEMMA SetIdsIndexed ==
    ASSUME Types, Indexed, NEW u \in Updaters, SetIds(u)
    PROVE  Indexed'
<1>1. up[u].pc = "ids" /\ begun' = begun /\ UNCHANGED <<coll, corpus, file, doubt>>
  BY DEF SetIds, bounds, store, index
<1>2. /\ u \in Updaters /\ \A v \in Updaters : v # u => up'[v] = up[v]
      /\ up'[u].pc = (IF up[u].seen = <<>> THEN "version" ELSE "corpus") /\ up'[u].seen = up[u].seen /\ up'[u].start = up[u].start
      /\ up'[u].changed
  <2>1. PICK p \in UpPcs : p = IF up[u].seen = <<>> THEN "version" ELSE "corpus"
    BY DEF UpPcs
  <2>2. Moved(u, p, up[u].todo, up[u].seen, up[u].changed, up[u].start)
    BY <2>1, GotoMoves DEF Types, SetIds
  <2>3. up[u].changed
    BY <1>1, ShapeGives DEF Late
  <2> QED BY <2>1, <2>2, <2>3 DEF Moved
<1>3. up[u].pc # "idle" /\ (up'[u].pc = "idle" \/ up'[u].start = up[u].start)
  BY <1>1, <1>2
<1>4. ~doubt'.index => ~doubt.index \/ Alone(u)
  BY <1>1
<1>5. Alone(u) =>
        /\ up'[u].pc = "create" => coll' = <<>>
        /\ up'[u].pc = "get" => coll' # <<>>
        /\ up'[u].pc \in {"ids", "corpus", "dump"} => up'[u].seen = coll' /\ coll' # <<>>
        /\ up'[u].pc \in {"corpus", "dump"} => ids' = coll'
        /\ up'[u].pc = "dump" => corpus' = coll' /\ ~doubt'.index
  <2>1. ids' = up[u].seen
    BY DEF SetIds
  <2> QED BY <1>1, <1>2, <2>1 DEF Indexed, Rebuilding
<1>6. ~doubt'.index => /\ ~up'[u].changed \/ up'[u].pc \in {"version", "clear"} => Whole'
                       /\ up'[u].pc # "corpus" => corpus' = ids'
  <2> SUFFICES ASSUME ~doubt'.index PROVE up'[u].pc = "corpus"
    BY <1>2
  <2>1. Alone(u)
    BY <1>1, <1>2, SettledGives DEF Indexed
  <2> QED BY <1>1, <1>2, <2>1 DEF Indexed, Rebuilding
<1>7. Lone'
  BY <1>1, <1>2, <1>3, <1>4, LoneKept DEF Indexed
<1>8. Rebuilding'
  BY <1>1, <1>2, <1>3, <1>5, RebuildingKept DEF Indexed
<1>9. Settled'
  BY <1>2, <1>6, SettledKept
<1> QED BY <1>7, <1>8, <1>9 DEF Indexed

LEMMA SetCorpusIndexed ==
    ASSUME Types, Indexed, NEW u \in Updaters, SetCorpus(u)
    PROVE  Indexed'
<1>1. up[u].pc = "corpus" /\ begun' = begun /\ UNCHANGED <<coll, ids, file>>
  BY DEF SetCorpus, bounds, store, index
<1>2. /\ u \in Updaters /\ \A v \in Updaters : v # u => up'[v] = up[v]
      /\ up'[u].pc = "dump" /\ up'[u].seen = up[u].seen /\ up'[u].start = up[u].start
      /\ up'[u].changed
  <2>1. PICK p \in UpPcs : p = "dump"
    BY DEF UpPcs
  <2>2. Moved(u, p, up[u].todo, up[u].seen, up[u].changed, up[u].start)
    BY <2>1, GotoMoves DEF Types, SetCorpus
  <2>3. up[u].changed
    BY <1>1, ShapeGives DEF Late
  <2> QED BY <2>1, <2>2, <2>3 DEF Moved
<1>3. up[u].pc # "idle" /\ (up'[u].pc = "idle" \/ up'[u].start = up[u].start)
  BY <1>1, <1>2
<1>10. doubt'.index = (doubt.index /\ ~Alone(u))
  BY ShapeGives DEF SetCorpus, DoubtType
<1>4. ~doubt'.index => ~doubt.index \/ Alone(u)
  BY <1>10
<1>5. Alone(u) =>
        /\ up'[u].pc = "create" => coll' = <<>>
        /\ up'[u].pc = "get" => coll' # <<>>
        /\ up'[u].pc \in {"ids", "corpus", "dump"} => up'[u].seen = coll' /\ coll' # <<>>
        /\ up'[u].pc \in {"corpus", "dump"} => ids' = coll'
        /\ up'[u].pc = "dump" => corpus' = coll' /\ ~doubt'.index
  <2>1. corpus' = up[u].seen
    BY DEF SetCorpus
  <2> QED BY <1>1, <1>2, <1>10, <2>1 DEF Indexed, Rebuilding
<1>6. ~doubt'.index => /\ ~up'[u].changed \/ up'[u].pc \in {"version", "clear"} => Whole'
                       /\ up'[u].pc # "corpus" => corpus' = ids'
  <2> SUFFICES ASSUME ~doubt'.index PROVE corpus' = ids'
    BY <1>2
  <2>1. Alone(u)
    BY <1>1, <1>2, <1>4, SettledGives DEF Indexed
  <2>2. corpus' = up[u].seen
    BY DEF SetCorpus
  <2> QED BY <1>1, <2>1, <2>2 DEF Indexed, Rebuilding
<1>7. Lone'
  BY <1>1, <1>2, <1>3, <1>4, LoneKept DEF Indexed
<1>8. Rebuilding'
  BY <1>1, <1>2, <1>3, <1>5, RebuildingKept DEF Indexed
<1>9. Settled'
  BY <1>2, <1>6, SettledKept
<1> QED BY <1>7, <1>8, <1>9 DEF Indexed

LEMMA DumpIndexed ==
    ASSUME Types, Indexed, NEW u \in Updaters, Dump(u)
    PROVE  Indexed'
<1>1. up[u].pc = "dump" /\ begun' = begun /\ UNCHANGED <<coll, corpus, ids, doubt>>
  BY DEF Dump, bounds, store, index
<1>2. /\ u \in Updaters /\ \A v \in Updaters : v # u => up'[v] = up[v]
      /\ up'[u].pc = "version" /\ up'[u].seen = up[u].seen /\ up'[u].start = up[u].start
      /\ up'[u].changed
  <2>1. PICK p \in UpPcs : p = "version"
    BY DEF UpPcs
  <2>2. Moved(u, p, up[u].todo, up[u].seen, up[u].changed, up[u].start)
    BY <2>1, GotoMoves DEF Types, Dump
  <2>3. up[u].changed
    BY <1>1, ShapeGives DEF Late
  <2> QED BY <2>1, <2>2, <2>3 DEF Moved
<1>3. up[u].pc # "idle" /\ (up'[u].pc = "idle" \/ up'[u].start = up[u].start)
  BY <1>1, <1>2
<1>4. ~doubt'.index => ~doubt.index \/ Alone(u)
  BY <1>1
<1>5. Alone(u) =>
        /\ up'[u].pc = "create" => coll' = <<>>
        /\ up'[u].pc = "get" => coll' # <<>>
        /\ up'[u].pc \in {"ids", "corpus", "dump"} => up'[u].seen = coll' /\ coll' # <<>>
        /\ up'[u].pc \in {"corpus", "dump"} => ids' = coll'
        /\ up'[u].pc = "dump" => corpus' = coll' /\ ~doubt'.index
  BY <1>2
<1>6. ~doubt'.index => /\ ~up'[u].changed \/ up'[u].pc \in {"version", "clear"} => Whole'
                       /\ up'[u].pc # "corpus" => corpus' = ids'
  <2> SUFFICES ASSUME ~doubt'.index PROVE Whole' /\ corpus' = ids'
    OBVIOUS
  <2>1. Alone(u)
    BY <1>1, <1>2, SettledGives DEF Indexed
  <2>2. up[u].seen = coll /\ ids = coll /\ corpus = coll /\ doubt.index = FALSE
    BY <1>1, <2>1, ShapeGives DEF Indexed, Rebuilding, DoubtType
  <2>3. file' = FileOf(coll)
    BY <2>2 DEF Dump, FileOf
  <2> QED BY <1>1, <2>2, <2>3 DEF Whole
<1>7. Lone'
  BY <1>1, <1>2, <1>3, <1>4, LoneKept DEF Indexed
<1>8. Rebuilding'
  BY <1>1, <1>2, <1>3, <1>5, RebuildingKept DEF Indexed
<1>9. Settled'
  BY <1>2, <1>6, SettledKept
<1> QED BY <1>7, <1>8, <1>9 DEF Indexed

LEMMA NewVersionIndexed ==
    ASSUME Types, Indexed, NEW u \in Updaters, NewVersion(u)
    PROVE  Indexed'
<1>1. up[u].pc = "version" /\ begun' = begun /\ UNCHANGED <<coll, corpus, ids, file>>
  BY DEF NewVersion, bounds, store, index
<1>2. /\ u \in Updaters /\ \A v \in Updaters : v # u => up'[v] = up[v]
      /\ up'[u].pc = "clear" /\ up'[u].seen = up[u].seen /\ up'[u].start = up[u].start
  <2>1. PICK p \in UpPcs : p = "clear"
    BY DEF UpPcs
  <2>2. Moved(u, p, up[u].todo, up[u].seen, up[u].changed, up[u].start)
    BY <2>1, GotoMoves DEF Types, NewVersion
  <2> QED BY <2>1, <2>2 DEF Moved
<1>3. up[u].pc # "idle" /\ (up'[u].pc = "idle" \/ up'[u].start = up[u].start)
  BY <1>1, <1>2
<1>10. doubt'.index = doubt.index
  BY ShapeGives DEF NewVersion, DoubtType
<1>4. ~doubt'.index => ~doubt.index \/ Alone(u)
  BY <1>10
<1>5. Alone(u) =>
        /\ up'[u].pc = "create" => coll' = <<>>
        /\ up'[u].pc = "get" => coll' # <<>>
        /\ up'[u].pc \in {"ids", "corpus", "dump"} => up'[u].seen = coll' /\ coll' # <<>>
        /\ up'[u].pc \in {"corpus", "dump"} => ids' = coll'
        /\ up'[u].pc = "dump" => corpus' = coll' /\ ~doubt'.index
  BY <1>2
<1>6. ~doubt'.index => /\ ~up'[u].changed \/ up'[u].pc \in {"version", "clear"} => Whole'
                       /\ up'[u].pc # "corpus" => corpus' = ids'
  <2> SUFFICES ASSUME ~doubt'.index PROVE Whole' /\ corpus' = ids'
    OBVIOUS
  <2>1. Whole
    BY <1>1, <1>2, <1>10, SettledGives DEF Indexed
  <2> QED BY <1>1, <2>1 DEF Whole
<1>7. Lone'
  BY <1>1, <1>2, <1>3, <1>4, LoneKept DEF Indexed
<1>8. Rebuilding'
  BY <1>1, <1>2, <1>3, <1>5, RebuildingKept DEF Indexed
<1>9. Settled'
  BY <1>2, <1>6, SettledKept
<1> QED BY <1>7, <1>8, <1>9 DEF Indexed

LEMMA FailsIndexed ==
    ASSUME Types, Indexed, NEW u \in Updaters, Fails(u)
    PROVE  Indexed'
<1>1. up[u].pc = "add" /\ begun' = begun /\ UNCHANGED <<coll, corpus, ids, file>>
  BY DEF Fails, bounds, store, index
<1>2. /\ u \in Updaters /\ \A v \in Updaters : v # u => up'[v] = up[v]
      /\ up'[u].pc = "idle"
  BY RestMoves DEF Types, Moved, Fails, Aborts
<1>3. up[u].pc # "idle" /\ (up'[u].pc = "idle" \/ up'[u].start = up[u].start)
  BY <1>1, <1>2
<1>10. doubt'.index = (doubt.index \/ up[u].changed)
  BY DEF Fails, Aborts
<1>4. ~doubt'.index => ~doubt.index \/ Alone(u)
  BY <1>10
<1>5. Alone(u) =>
        /\ up'[u].pc = "create" => coll' = <<>>
        /\ up'[u].pc = "get" => coll' # <<>>
        /\ up'[u].pc \in {"ids", "corpus", "dump"} => up'[u].seen = coll' /\ coll' # <<>>
        /\ up'[u].pc \in {"corpus", "dump"} => ids' = coll'
        /\ up'[u].pc = "dump" => corpus' = coll' /\ ~doubt'.index
  BY <1>2
<1>6. ~doubt'.index => /\ ~up'[u].changed \/ up'[u].pc \in {"version", "clear"} => Whole'
                       /\ up'[u].pc # "corpus" => corpus' = ids'
  <2> SUFFICES ASSUME ~doubt'.index PROVE Whole' /\ corpus' = ids'
    OBVIOUS
  <2>1. Whole
    BY <1>1, <1>2, <1>10, SettledGives DEF Indexed
  <2> QED BY <1>1, <2>1 DEF Whole
<1>7. Lone'
  BY <1>1, <1>2, <1>3, <1>4, LoneKept DEF Indexed
<1>8. Rebuilding'
  BY <1>1, <1>2, <1>3, <1>5, RebuildingKept DEF Indexed
<1>9. Settled'
  BY <1>2, <1>6, SettledKept
<1> QED BY <1>7, <1>8, <1>9 DEF Indexed

LEMMA NoVersionIndexed ==
    ASSUME Types, Indexed, NEW u \in Updaters, NoVersion(u)
    PROVE  Indexed'
<1>1. up[u].pc = "version" /\ begun' = begun /\ UNCHANGED <<coll, corpus, ids, file>>
  BY DEF NoVersion, bounds, store, index
<1>2. /\ u \in Updaters /\ \A v \in Updaters : v # u => up'[v] = up[v]
      /\ up'[u].pc = "idle"
  BY RestMoves DEF Types, Moved, NoVersion, Aborts
<1>3. up[u].pc # "idle" /\ (up'[u].pc = "idle" \/ up'[u].start = up[u].start)
  BY <1>1, <1>2
<1>10. doubt'.index = (doubt.index \/ up[u].changed)
  BY DEF NoVersion, Aborts
<1>4. ~doubt'.index => ~doubt.index \/ Alone(u)
  BY <1>10
<1>5. Alone(u) =>
        /\ up'[u].pc = "create" => coll' = <<>>
        /\ up'[u].pc = "get" => coll' # <<>>
        /\ up'[u].pc \in {"ids", "corpus", "dump"} => up'[u].seen = coll' /\ coll' # <<>>
        /\ up'[u].pc \in {"corpus", "dump"} => ids' = coll'
        /\ up'[u].pc = "dump" => corpus' = coll' /\ ~doubt'.index
  BY <1>2
<1>6. ~doubt'.index => /\ ~up'[u].changed \/ up'[u].pc \in {"version", "clear"} => Whole'
                       /\ up'[u].pc # "corpus" => corpus' = ids'
  <2> SUFFICES ASSUME ~doubt'.index PROVE Whole' /\ corpus' = ids'
    OBVIOUS
  <2>1. Whole
    BY <1>1, <1>2, <1>10, SettledGives DEF Indexed
  <2> QED BY <1>1, <2>1 DEF Whole
<1>7. Lone'
  BY <1>1, <1>2, <1>3, <1>4, LoneKept DEF Indexed
<1>8. Rebuilding'
  BY <1>1, <1>2, <1>3, <1>5, RebuildingKept DEF Indexed
<1>9. Settled'
  BY <1>2, <1>6, SettledKept
<1> QED BY <1>7, <1>8, <1>9 DEF Indexed

LEMMA InvalidateIndexed ==
    ASSUME Types, Indexed, NEW u \in Updaters, InvalidateCache(u)
    PROVE  Indexed'
<1>1. up[u].pc = "clear" /\ begun' = begun /\ UNCHANGED <<coll, corpus, ids, file, doubt>>
  BY DEF InvalidateCache, bounds, store, index
<1>2. /\ u \in Updaters /\ \A v \in Updaters : v # u => up'[v] = up[v]
      /\ up'[u].pc = "idle"
  BY RestMoves DEF Types, Moved, InvalidateCache
<1>3. up[u].pc # "idle" /\ (up'[u].pc = "idle" \/ up'[u].start = up[u].start)
  BY <1>1, <1>2
<1>4. ~doubt'.index => ~doubt.index \/ Alone(u)
  BY <1>1
<1>5. Alone(u) =>
        /\ up'[u].pc = "create" => coll' = <<>>
        /\ up'[u].pc = "get" => coll' # <<>>
        /\ up'[u].pc \in {"ids", "corpus", "dump"} => up'[u].seen = coll' /\ coll' # <<>>
        /\ up'[u].pc \in {"corpus", "dump"} => ids' = coll'
        /\ up'[u].pc = "dump" => corpus' = coll' /\ ~doubt'.index
  BY <1>2
<1>6. ~doubt'.index => /\ ~up'[u].changed \/ up'[u].pc \in {"version", "clear"} => Whole'
                       /\ up'[u].pc # "corpus" => corpus' = ids'
  <2> SUFFICES ASSUME ~doubt'.index PROVE Whole' /\ corpus' = ids'
    OBVIOUS
  <2>1. Whole
    BY <1>1, <1>2, SettledGives DEF Indexed
  <2> QED BY <1>1, <2>1 DEF Whole
<1>7. Lone'
  BY <1>1, <1>2, <1>3, <1>4, LoneKept DEF Indexed
<1>8. Rebuilding'
  BY <1>1, <1>2, <1>3, <1>5, RebuildingKept DEF Indexed
<1>9. Settled'
  BY <1>2, <1>6, SettledKept
<1> QED BY <1>7, <1>8, <1>9 DEF Indexed

LEMMA RestartIndexed == Types /\ Indexed /\ Restart => Indexed'
<1> SUFFICES ASSUME Types, Indexed, Restart PROVE Indexed'
  OBVIOUS
<1>1. \A u \in Updaters : up'[u].pc = "idle" /\ ~up'[u].changed
  BY RestartFacts
<1>2. Lone' /\ Rebuilding'
  BY <1>1 DEF Lone, Rebuilding
<1>3. ~doubt'.index => Whole'
  <2>1. CASE corpus' = coll /\ ids' = coll /\ file' = FileOf(coll)
    BY <2>1, RestartFacts DEF Whole
  <2>2. CASE /\ corpus' = file.corpus /\ ids' = file.ids /\ file' = file /\ coll # <<>>
             /\ doubt'.index = (file.doubt \/ doubt.index \/ ~Quiet)
    <3>1. SUFFICES ASSUME ~doubt.index, Quiet PROVE Whole'
      BY <2>2
    <3>2. \A u \in Updaters : ~up[u].changed
      BY <3>1 DEF Quiet, Types, Shape
    <3>3. file = FileOf(coll)
      BY <2>2, <3>1, <3>2 DEF Indexed, Settled, Whole
    <3>4. file.corpus = coll /\ file.ids = coll
      BY <3>3 DEF FileOf
    <3> QED BY <2>2, <3>3, <3>4, RestartFacts DEF Whole
  <2> QED BY <2>1, <2>2 DEF Restart
<1>4. Settled'
  BY <1>3 DEF Settled, Whole
<1> QED BY <1>2, <1>4 DEF Indexed

LEMMA IndexedUnchanged ==
    ASSUME Indexed, up' = up, begun' = begun, doubt' = doubt, coll' = coll,
           UNCHANGED <<corpus, ids, file>>
    PROVE  Indexed'
BY DEF Indexed, Lone, Settled, Rebuilding, Whole, Alone

LEMMA InitIndexed == Init => Indexed
<1> SUFFICES ASSUME Init PROVE Indexed
  OBVIOUS
<1>1. \A u \in Updaters : up[u].pc = "idle"
  BY RestingFacts DEF Init
<1>2. corpus = coll /\ ids = coll /\ file = FileOf(coll)
  BY DEF Init
<1> QED BY <1>1, <1>2 DEF Indexed, Lone, Settled, Rebuilding, Whole

LEMMA NextIndexed == Types /\ Indexed /\ [Next]_vars => Indexed'
<1> SUFFICES ASSUME Types, Indexed, [Next]_vars PROVE Indexed'
  OBVIOUS
<1>1. ASSUME NEW u \in Updaters, Update(u) PROVE Indexed'
  BY <1>1, InsertIndexed, DeleteIndexed, FailsIndexed, CountIndexed, GetIndexed, SetIdsIndexed,
     SetCorpusIndexed, DumpIndexed, NewVersionIndexed, NoVersionIndexed, InvalidateIndexed DEF Update
<1>2. CASE \E s \in Searchers : Search(s)
  BY <1>2, SearchAlone, IndexedUnchanged DEF Types, store, index, bounds
<1>3. CASE \E v \in DOMAIN cache : Evict(v)
  BY <1>3, IndexedUnchanged DEF Evict, store, index, bounds
<1>4. CASE UNCHANGED vars
  BY <1>4, IndexedUnchanged DEF vars, store, index, bounds
<1>5. CASE Start
  BY <1>5, StartBegins, BeginIndexed
<1> QED BY <1>1, <1>2, <1>3, <1>4, <1>5, NextCases, DropIndexed, DropFailsIndexed, CreateIndexed, RestartIndexed

\* With the types, the invariant of the index holds in every reachable state.
THEOREM IndexHolds == Spec => []Indexed
<1>1. Init => Indexed
  BY InitIndexed
<1>2. Types /\ Indexed /\ [Next]_vars => Indexed'
  BY NextIndexed
<1> QED BY <1>1, <1>2, TypesHold, PTL DEF Spec

\* An index that is whole finds what matches.
LEMMA WholeDescribes == Types /\ Whole => Describes
<1> SUFFICES ASSUME Types, Whole PROVE Describes
  OBVIOUS
<1>1. corpus = ids /\ Positions \subseteq DOMAIN ids
  BY DEF Whole, Positions
<1>2. Hits = {corpus[p] : p \in Positions} \cap ToSet(coll)
  BY <1>1 DEF Hits
<1>3. CASE coll = <<>>
  BY <1>1, <1>2, <1>3, NothingIn DEF Describes, Exact
<1>4. CASE coll # <<>>
  <2>1. corpus = coll
    BY <1>4 DEF Whole
  <2>2. {corpus[p] : p \in Positions} = ToSet(coll) \cap Matching
    BY <2>1 DEF Positions, ToSet
  <2>3. Hits = ToSet(coll) \cap Matching
    BY <1>2, <2>2
  <2> QED BY <1>1, <2>3 DEF Describes, Exact
<1> QED BY <1>3, <1>4

\* Between updates the keyword index describes the collection, also after it was loaded from
\* its file, unless updates overlapped or one was not finished: for any number of updaters,
\* whatever raises and however often the process stops in the middle of an update.
THEOREM IndexStaysCurrent == Spec => []IndexIsCurrent
<1>1. Types /\ Indexed => IndexIsCurrent
  <2> SUFFICES ASSUME Types, Indexed, Quiet, ~doubt.index PROVE Describes
    BY DEF IndexIsCurrent
  <2>1. \A u \in Updaters : ~up[u].changed
    BY DEF Quiet, Types, Shape
  <2>2. Whole
    BY <2>1 DEF Indexed, Settled
  <2> QED BY <2>2, WholeDescribes
<1> QED BY <1>1, TypesHold, IndexHolds, PTL
-----------------------------------------------------------------------------
(* The cache of the searches.                                               *)

\* An update has changed something and made no version yet.
Dirty == \E u \in Updaters : up[u].changed /\ up[u].pc # "clear"

\* What a search would find now, and when the current version stands for it.
Now == [vec |-> ToSet(coll), words |-> Hits]
Current == ~Dirty /\ ~doubt.cache

\* No entry and no search is ahead of the version; a search has no words before it reads them.
Versions ==
    /\ \A v \in DOMAIN cache : v <= version
    /\ \A s \in Searchers :
          /\ th[s].key <= version
          /\ th[s].pc \in {"lookup", "vector", "score", "names"} => th[s].got.words = {}

\* What is cached for the current version is what there is.
Coherent == Current /\ version \in DOMAIN cache => cache[version] = Now

\* What a search that goes by the current version has read is what there is.
Read ==
    Current => \A s \in Searchers : th[s].key = version =>
        /\ th[s].pc \in {"score", "names", "fetch", "store"} => th[s].got.vec = ToSet(coll)
        /\ th[s].pc = "names" => th[s].at = Positions
        /\ th[s].pc = "fetch" =>
              Positions \subseteq DOMAIN ids /\ th[s].got.words = {ids[p] : p \in Positions}
        /\ th[s].pc = "store" => th[s].got.words = Hits

Fresh == Versions /\ Coherent /\ Read

\* Nothing that the cache and the searches are measured by changes.
LEMMA FreshKept ==
    ASSUME Fresh, Current' => Current, coll' = coll, corpus' = corpus, ids' = ids,
           version' = version, cache' = cache, th' = th
    PROVE  Fresh'
<1>1. Positions' = Positions /\ Hits' = Hits /\ Now' = Now
  BY DEF Positions, Hits, Now
<1>2. Versions'
  BY DEF Fresh, Versions
<1>3. Coherent'
  BY <1>1 DEF Fresh, Coherent
<1>4. Read'
  BY <1>1 DEF Fresh, Read
<1> QED BY <1>2, <1>3, <1>4 DEF Fresh

\* In the middle of an update nothing is said of the current version.
LEMMA FreshDirty ==
    ASSUME Fresh, NEW u \in Updaters, up'[u].changed, up'[u].pc # "clear",
           version' = version, cache' = cache, th' = th
    PROVE  Fresh'
<1>1. Dirty'
  BY DEF Dirty
<1>2. Versions'
  BY DEF Fresh, Versions
<1> QED BY <1>1, <1>2 DEF Fresh, Current, Coherent, Read

\* The steps that change the collection or the index leave their update dirty.
LEMMA ChangesShow ==
    ASSUME Types, NEW u \in Updaters,
           \/ DropCollection /\ u = Job
           \/ CreateCollection /\ u = Job
           \/ Insert(u) \/ DeleteDoc(u) \/ Count(u) \/ Get(u) \/ SetIds(u) \/ SetCorpus(u) \/ Dump(u)
    PROVE  /\ up'[u].changed /\ up'[u].pc # "clear"
           /\ version' = version /\ cache' = cache /\ th' = th
           /\ begun' = begun /\ up[u].pc # "idle"
           /\ \A v \in Updaters : v # u => up'[v] = up[v]
<1>1. CASE DropCollection /\ u = Job
  <2>1. Moved(Job, "create", up[Job].todo, up[Job].seen, TRUE, up[Job].start)
    BY <1>1, ChangeMoves DEF Types
  <2> QED BY <1>1, <2>1 DEF DropCollection, Moved, cached, bounds
<1>2. CASE Insert(u)
  <2>1. up[u].todo # <<>>
    BY <1>2, ShapeGives DEF Insert
  <2>2. Moved(u, IF Len(up[u].todo) = 1 THEN "count" ELSE "add", Tail(up[u].todo), up[u].seen, TRUE,
              up[u].start)
    BY <1>2, <2>1, ChangeMoves DEF Types
  <2> QED BY <1>2, <2>2 DEF Insert, Moved, cached, bounds
<1>3. CASE DeleteDoc(u)
  <2>1. Moved(u, "count", up[u].todo, up[u].seen, TRUE, up[u].start)
    BY <1>3, ChangeMoves DEF Types
  <2> QED BY <1>3, <2>1 DEF DeleteDoc, Moved, cached, bounds
<1>4. CASE Get(u)
  <2>1. Moved(u, IF gone THEN "version" ELSE "ids", up[u].todo, coll, up[u].changed, up[u].start)
    BY <1>4, ChangeMoves DEF Types
  <2>2. up[u].changed
    BY <1>4, ShapeGives DEF Get, Late
  <2> QED BY <1>4, <2>1, <2>2 DEF Get, Moved, cached, bounds
<1>5. ASSUME up[u].pc \in Late, NEW p \in UpPcs, p # "clear", Goto(u, p)
      PROVE  /\ up'[u].changed /\ up'[u].pc # "clear" /\ up[u].pc # "idle"
             /\ \A v \in Updaters : v # u => up'[v] = up[v]
  <2>1. Moved(u, p, up[u].todo, up[u].seen, up[u].changed, up[u].start)
    BY <1>5, GotoMoves DEF Types
  <2>2. up[u].changed
    BY <1>5, ShapeGives
  <2> QED BY <1>5, <2>1, <2>2 DEF Moved, Late
<1>6. CASE CreateCollection /\ u = Job
  <2>1. PICK p \in UpPcs : p = AfterCreation
    BY DEF UpPcs, AfterCreation
  <2>2. p # "clear" /\ up[u].pc \in Late /\ Goto(u, p)
    BY <1>6, <2>1 DEF CreateCollection, AfterCreation, Late
  <2> QED BY <1>5, <1>6, <2>2 DEF CreateCollection, cached, bounds
<1>7. CASE Count(u)
  <2>1. PICK p \in UpPcs : p = IF gone \/ coll = <<>> THEN "version" ELSE "get"
    BY DEF UpPcs
  <2>2. p # "clear" /\ up[u].pc \in Late /\ Goto(u, p)
    BY <1>7, <2>1 DEF Count, Late
  <2> QED BY <1>5, <1>7, <2>2 DEF Count, cached, bounds
<1>8. CASE SetIds(u)
  <2>1. PICK p \in UpPcs : p = IF up[u].seen = <<>> THEN "version" ELSE "corpus"
    BY DEF UpPcs
  <2>2. p # "clear" /\ up[u].pc \in Late /\ Goto(u, p)
    BY <1>8, <2>1 DEF SetIds, Late
  <2> QED BY <1>5, <1>8, <2>2 DEF SetIds, cached, bounds
<1>9. CASE SetCorpus(u)
  <2>1. PICK p \in UpPcs : p = "dump"
    BY DEF UpPcs
  <2>2. p # "clear" /\ up[u].pc \in Late /\ Goto(u, p)
    BY <1>9, <2>1 DEF SetCorpus, Late
  <2> QED BY <1>5, <1>9, <2>2 DEF SetCorpus, cached, bounds
<1>10. CASE Dump(u)
  <2>1. PICK p \in UpPcs : p = "version"
    BY DEF UpPcs
  <2>2. p # "clear" /\ up[u].pc \in Late /\ Goto(u, p)
    BY <1>10, <2>1 DEF Dump, Late
  <2> QED BY <1>5, <1>10, <2>2 DEF Dump, cached, bounds
<1> QED BY <1>1, <1>2, <1>3, <1>4, <1>6, <1>7, <1>8, <1>9, <1>10

\* An update that has changed nothing, or has its version, comes or goes.
LEMMA SameDirt ==
    ASSUME NEW u \in Updaters, \A v \in Updaters : v # u => up'[v] = up[v],
           ~up[u].changed \/ up[u].pc = "clear", Current', ~doubt.cache
    PROVE  Current
<1>1. SUFFICES ASSUME NEW v \in Updaters, up[v].changed, up[v].pc # "clear" PROVE FALSE
  BY DEF Current, Dirty
<1>2. up'[v] = up[v]
  BY <1>1
<1> QED BY <1>1, <1>2 DEF Current, Dirty

LEMMA DropFailsFresh ==
    ASSUME Types, Fresh, DropFails
    PROVE  Fresh'
<1>1. /\ Moved(Job, AfterCreation, up[Job].todo, up[Job].seen, up[Job].changed, up[Job].start)
      /\ Job \in Updaters /\ up[Job].pc = "drop"
      /\ UNCHANGED <<coll, corpus, ids, version, cache, th, doubt>>
  BY DropFailsMoves
<1>2. ~up[Job].changed
  BY <1>1 DEF Types, Shape
<1>3. \A v \in Updaters : v # Job => up'[v] = up[v]
  BY <1>1 DEF Moved
<1>4. Current' => Current
  <2>1. SUFFICES ASSUME Current' PROVE Current
    OBVIOUS
  <2>2. ~doubt.cache
    BY <1>1, <2>1 DEF Current
  <2> QED BY <1>1, <1>2, <1>3, <2>1, <2>2, SameDirt
<1> QED BY <1>1, <1>4, FreshKept

LEMMA BeginFresh ==
    ASSUME Types, Fresh, NEW u \in Updaters, NEW t \in Seq(Chunks),
           NEW p \in {"drop", "add", "remove"}, Begin(u, t, p)
    PROVE  Fresh'
<1>1. Moved(u, p, t, <<>>, FALSE, IF Quiet THEN begun + 1 ELSE 0)
  BY BeginMoves DEF Types, UpPcs
<1>2. ~up[u].changed
  BY DEF Types, Shape, Begin
<1>3. doubt'.cache = doubt.cache
  BY ShapeGives DEF Begin, DoubtType
<1>4. Current' => Current
  <2>1. SUFFICES ASSUME Current' PROVE Current
    OBVIOUS
  <2>2. ~doubt.cache
    BY <1>3, <2>1 DEF Current
  <2>3. \A v \in Updaters : v # u => up'[v] = up[v]
    BY <1>1 DEF Moved
  <2> QED BY <1>2, <2>1, <2>2, <2>3, SameDirt
<1> QED BY <1>4, FreshKept DEF Begin, index, cached

LEMMA AbortFresh ==
    ASSUME Types, Fresh, NEW u \in Updaters, Fails(u) \/ NoVersion(u)
    PROVE  Fresh'
<1>1. /\ Aborts(u) /\ coll' = coll /\ corpus' = corpus /\ ids' = ids /\ version' = version
      /\ cache' = cache /\ th' = th
  BY DEF Fails, NoVersion, store, index, cached
<1>2. doubt'.cache = (doubt.cache \/ up[u].changed)
  BY <1>1 DEF Aborts
<1>3. Moved(u, "idle", <<>>, <<>>, FALSE, 0)
  BY <1>1, RestMoves DEF Types, Aborts
<1>4. \A v \in Updaters : v # u => up'[v] = up[v]
  BY <1>3 DEF Moved
<1>5. Current' => Current
  <2>1. SUFFICES ASSUME Current' PROVE Current
    OBVIOUS
  <2>2. ~doubt.cache /\ ~up[u].changed
    BY <1>2, <2>1 DEF Current
  <2> QED BY <1>4, <2>1, <2>2, SameDirt
<1> QED BY <1>1, <1>5, FreshKept

LEMMA NewVersionFresh ==
    ASSUME Types, Fresh, NEW u \in Updaters, NewVersion(u)
    PROVE  Fresh'
<1>1. version' = version + 1 /\ cache' = cache /\ th' = th /\ version \in Nat
  BY TypesGive DEF NewVersion, Types
<1>2. /\ \A v \in DOMAIN cache : v <= version /\ v \in Nat
      /\ \A s \in Searchers : th[s].key <= version /\ th[s].key \in Nat
  BY ShapeGives, TypesGive DEF Types, Fresh, Versions, CacheType, ThState
<1>3. /\ \A v \in DOMAIN cache : v <= version' /\ v # version'
      /\ \A s \in Searchers : th[s].key <= version' /\ th[s].key # version'
  BY <1>1, <1>2
<1>4. Versions'
  BY <1>1, <1>3 DEF Fresh, Versions
<1>5. Coherent' /\ Read'
  BY <1>1, <1>3 DEF Coherent, Read
<1> QED BY <1>4, <1>5 DEF Fresh

LEMMA InvalidateFresh ==
    ASSUME Types, Fresh, NEW u \in Updaters, InvalidateCache(u)
    PROVE  Fresh'
<1>1. /\ cache' = <<>> /\ version' = version /\ th' = th /\ doubt' = doubt /\ up[u].pc = "clear"
      /\ coll' = coll /\ corpus' = corpus /\ ids' = ids
  BY DEF InvalidateCache, store, index
<1>2. DOMAIN cache' = {}
  BY <1>1
<1>3. \A v \in Updaters : v # u => up'[v] = up[v]
  BY RestMoves DEF Types, Moved, InvalidateCache
<1>4. Current' => Current
  <2>1. SUFFICES ASSUME Current' PROVE Current
    OBVIOUS
  <2>2. ~doubt.cache
    BY <1>1, <2>1 DEF Current
  <2> QED BY <1>1, <1>3, <2>1, <2>2, SameDirt
<1>5. Positions' = Positions /\ Hits' = Hits
  BY <1>1 DEF Positions, Hits
<1>6. Versions' /\ Coherent'
  BY <1>1, <1>2 DEF Fresh, Versions, Coherent
<1>7. Read'
  BY <1>1, <1>4, <1>5 DEF Fresh, Read
<1> QED BY <1>6, <1>7 DEF Fresh

LEMMA RestartFresh == Types /\ Restart => Fresh'
<1> SUFFICES ASSUME Types, Restart PROVE Fresh'
  OBVIOUS
<1>1. version \in Nat
  BY TypesGive DEF Types
<1>2. /\ DOMAIN cache' = {} /\ version' = version + 1
      /\ \A s \in Searchers : th'[s].pc = "idle" /\ th'[s].key = 0
  BY RestartFacts
<1>3. \A s \in Searchers : th'[s].key <= version' /\ th'[s].key # version'
  BY <1>1, <1>2
<1> QED BY <1>2, <1>3 DEF Fresh, Versions, Coherent, Read

LEMMA EvictFresh ==
    ASSUME Types, Fresh, NEW v \in DOMAIN cache, Evict(v)
    PROVE  Fresh'
<1>1. DOMAIN cache' = DOMAIN cache \ {v} /\ \A w \in DOMAIN cache' : cache'[w] = cache[w]
  BY EvictTypes
<1>2. /\ coll' = coll /\ corpus' = corpus /\ ids' = ids /\ version' = version /\ up' = up /\ th' = th
      /\ doubt' = doubt
  BY DEF Evict, store, index
<1>3. Positions' = Positions /\ Hits' = Hits /\ Now' = Now /\ (Current' <=> Current)
  BY <1>2 DEF Positions, Hits, Now, Current, Dirty
<1>4. Versions'
  BY <1>1, <1>2 DEF Fresh, Versions
<1>5. Coherent'
  BY <1>1, <1>2, <1>3 DEF Fresh, Coherent
<1>6. Read'
  BY <1>2, <1>3 DEF Fresh, Read
<1> QED BY <1>4, <1>5, <1>6 DEF Fresh

\* What the search s comes to know by a step.
LEMMA SearchVersions ==
    ASSUME Types, Fresh, NEW s \in Searchers, Search(s)
    PROVE  /\ th'[s].key <= version
           /\ th'[s].pc \in {"lookup", "vector", "score", "names"} => th'[s].got.words = {}
<1>1. /\ version \in Nat /\ th[s].key \in Nat /\ th[s].key <= version
      /\ th[s].pc \in {"lookup", "vector", "score", "names"} => th[s].got.words = {}
  BY TypesGive DEF Types, Fresh, Versions, ThState
<1>2. CASE CacheKey(s)
  BY <1>1, <1>2, KeyTurns DEF Types, Turned
<1>3. CASE GetCache(s)
  <2>1. CASE th[s].key \in DOMAIN cache
    BY <1>1, <1>3, <2>1, HitTurns DEF Types, Turned
  <2>2. CASE th[s].key \notin DOMAIN cache
    BY <1>1, <1>3, <2>2, MissTurns DEF Types, Turned, GetCache
  <2> QED BY <2>1, <2>2
<1>4. CASE SearchVector(s)
  <2>1. CASE gone
    BY <1>1, <1>4, <2>1, RaiseTurns DEF Types, SearchVector, Turned
  <2>2. CASE ~gone
    BY <1>1, <1>4, <2>2, VectorTurns DEF Types, SearchVector, Turned
  <2> QED BY <2>1, <2>2
<1>5. CASE Score(s)
  BY <1>1, <1>5, ScoreTurns DEF Types, Score, Turned
<1>6. CASE Names(s)
  <2>1. CASE th[s].at \subseteq DOMAIN ids
    BY <1>1, <1>6, <2>1, NamesTurns DEF Types, Turned
  <2>2. CASE ~(th[s].at \subseteq DOMAIN ids)
    BY <1>1, <1>6, <2>2, RaiseTurns DEF Types, Names, Turned
  <2> QED BY <2>1, <2>2
<1>7. CASE Fetch(s)
  <2>1. CASE gone
    BY <1>1, <1>7, <2>1, RaiseTurns DEF Types, Fetch, Turned
  <2>2. CASE ~gone
    BY <1>1, <1>7, <2>2, FetchTurns DEF Types, Turned
  <2> QED BY <2>1, <2>2
<1>8. CASE SetCache(s)
  BY <1>1, <1>8, StoreTurns DEF Types, Turned
<1> QED BY <1>2, <1>3, <1>4, <1>5, <1>6, <1>7, <1>8 DEF Search

LEMMA SearchReads ==
    ASSUME Types, Fresh, Current, NEW s \in Searchers, Search(s), th'[s].key = version
    PROVE  /\ th'[s].pc \in {"score", "names", "fetch", "store"} => th'[s].got.vec = ToSet(coll)
           /\ th'[s].pc = "names" => th'[s].at = Positions
           /\ th'[s].pc = "fetch" =>
                 Positions \subseteq DOMAIN ids /\ th'[s].got.words = {ids[p] : p \in Positions}
           /\ th'[s].pc = "store" => th'[s].got.words = Hits
<1>1. th[s].key = version =>
        /\ th[s].pc \in {"score", "names", "fetch", "store"} => th[s].got.vec = ToSet(coll)
        /\ th[s].pc = "names" => th[s].at = Positions
        /\ th[s].pc = "fetch" =>
              Positions \subseteq DOMAIN ids /\ th[s].got.words = {ids[p] : p \in Positions}
        /\ th[s].pc = "store" => th[s].got.words = Hits
  BY DEF Fresh, Read
<1>2. CASE CacheKey(s)
  BY <1>2, KeyTurns DEF Types, Turned
<1>3. CASE GetCache(s)
  <2>1. CASE th[s].key \in DOMAIN cache
    BY <1>3, <2>1, HitTurns DEF Types, Turned
  <2>2. CASE th[s].key \notin DOMAIN cache
    BY <1>3, <2>2, MissTurns DEF Types, Turned
  <2> QED BY <2>1, <2>2
<1>4. CASE SearchVector(s)
  <2>1. CASE gone
    BY <1>4, <2>1, RaiseTurns DEF Types, SearchVector, Turned
  <2>2. CASE ~gone
    BY <1>4, <2>2, VectorTurns DEF Types, Turned
  <2> QED BY <2>1, <2>2
<1>5. CASE Score(s)
  <2>1. /\ Turned(s, IF Positions = {} THEN "store" ELSE "names", th[s].key, Positions,
                  th[s].got.vec, th[s].got.words, th[s].start)
        /\ th[s].pc = "score"
    BY <1>5, ScoreTurns DEF Types, Score
  <2>2. /\ th[s].key = version /\ th[s].got.vec = ToSet(coll) /\ th[s].got.words = {}
        /\ th'[s].at = Positions /\ th'[s].got.vec = ToSet(coll) /\ th'[s].got.words = {}
        /\ th'[s].pc = IF Positions = {} THEN "store" ELSE "names"
    BY <1>1, <2>1 DEF Turned, Fresh, Versions
  <2>3. Positions = {} => Hits = {}
    BY DEF Hits
  <2> QED BY <2>2, <2>3
<1>6. CASE Names(s)
  <2>1. CASE th[s].at \subseteq DOMAIN ids
    <3>1. /\ Turned(s, "fetch", th[s].key, {}, th[s].got.vec, {ids[p] : p \in th[s].at}, th[s].start)
          /\ th[s].pc = "names"
      BY <1>6, <2>1, NamesTurns DEF Types, Names
    <3>2. th[s].key = version /\ th[s].at = Positions /\ th[s].got.vec = ToSet(coll)
      BY <1>1, <3>1 DEF Turned
    <3>3. th'[s].pc = "fetch" /\ th'[s].got.vec = ToSet(coll) /\ th'[s].got.words = {ids[p] : p \in Positions}
      BY <3>1, <3>2 DEF Turned
    <3> QED BY <2>1, <3>2, <3>3
  <2>2. CASE ~(th[s].at \subseteq DOMAIN ids)
    BY <1>6, <2>2, RaiseTurns DEF Types, Names, Turned
  <2> QED BY <2>1, <2>2
<1>7. CASE Fetch(s)
  <2>1. CASE gone
    BY <1>7, <2>1, RaiseTurns DEF Types, Fetch, Turned
  <2>2. CASE ~gone
    <3>1. /\ Turned(s, "store", th[s].key, th[s].at, th[s].got.vec,
                    th[s].got.words \cap ToSet(coll), th[s].start)
          /\ th[s].pc = "fetch"
      BY <1>7, <2>2, FetchTurns DEF Types, Fetch
    <3>2. /\ th[s].key = version /\ Positions \subseteq DOMAIN ids
          /\ th[s].got.words = {ids[p] : p \in Positions} /\ th[s].got.vec = ToSet(coll)
      BY <1>1, <3>1 DEF Turned
    <3>3. Hits = {ids[p] : p \in Positions} \cap ToSet(coll)
      BY <3>2 DEF Hits
    <3>4. th'[s].pc = "store" /\ th'[s].got.vec = ToSet(coll) /\ th'[s].got.words = Hits
      BY <3>1, <3>2, <3>3 DEF Turned
    <3> QED BY <3>4
  <2> QED BY <2>1, <2>2
<1>8. CASE SetCache(s)
  BY <1>8, StoreTurns DEF Types, Turned
<1> QED BY <1>2, <1>3, <1>4, <1>5, <1>6, <1>7, <1>8 DEF Search

\* What is stored for the current version is what there is.
LEMMA StoresNow ==
    ASSUME Types, Fresh, Current, NEW s \in Searchers, th[s].pc = "store", th[s].key = version
    PROVE  th[s].got = Now
<1>1. th[s].got.vec = ToSet(coll) /\ th[s].got.words = Hits
  BY DEF Fresh, Read
<1>2. th[s].got \in Result
  BY TypesGive DEF Types, ThState
<1> QED BY <1>1, <1>2, ResultParts DEF Now

LEMMA SearchFresh ==
    ASSUME Types, Fresh, NEW s \in Searchers, Search(s)
    PROVE  Fresh'
<1>1. /\ coll' = coll /\ corpus' = corpus /\ ids' = ids /\ version' = version /\ up' = up
      /\ doubt' = doubt /\ \A t \in Searchers : t # s => th'[t] = th[t]
      /\ SetCache(s) \/ cache' = cache
  BY SearchAlone DEF Types, store, index
<1>2. Positions' = Positions /\ Hits' = Hits /\ Now' = Now /\ (Current' <=> Current)
  BY <1>1 DEF Positions, Hits, Now, Current, Dirty
<1>3. version \in Nat /\ th[s].key \in Nat /\ th[s].key <= version /\ th[s].got \in Result
  BY TypesGive DEF Types, Fresh, Versions, ThState
<1>4. /\ \A v \in DOMAIN cache' : v <= version
      /\ Current /\ version \in DOMAIN cache' => cache'[version] = Now
  <2>1. CASE cache' = cache
    BY <2>1 DEF Fresh, Versions, Coherent
  <2>2. CASE SetCache(s)
    <3>1. Put(th[s].key, th[s].got) /\ th[s].pc = "store" /\ CacheType
      BY <2>2, ShapeGives, TypeParts DEF SetCache, Types
    <3>2. /\ DOMAIN cache' = DOMAIN cache \cup {th[s].key} /\ cache'[th[s].key] = th[s].got
          /\ \A v \in DOMAIN cache : v # th[s].key => cache'[v] = cache[v]
      BY <1>3, <3>1, PutFacts
    <3>3. \A v \in DOMAIN cache' : v <= version
      BY <1>3, <3>2 DEF Fresh, Versions
    <3>4. Current /\ th[s].key = version => cache'[version] = Now
      BY <3>1, <3>2, StoresNow
    <3>5. Current /\ th[s].key # version /\ version \in DOMAIN cache' => cache'[version] = Now
      BY <3>2 DEF Fresh, Coherent
    <3> QED BY <3>3, <3>4, <3>5
  <2> QED BY <1>1, <2>1, <2>2
<1>5. Versions'
  BY <1>1, <1>4, SearchVersions DEF Fresh, Versions
<1>6. Coherent'
  BY <1>1, <1>2, <1>4 DEF Coherent
<1>7. Read'
  <2>1. SUFFICES ASSUME Current, NEW t \in Searchers, th'[t].key = version
        PROVE  /\ th'[t].pc \in {"score", "names", "fetch", "store"} => th'[t].got.vec = ToSet(coll)
               /\ th'[t].pc = "names" => th'[t].at = Positions
               /\ th'[t].pc = "fetch" =>
                     Positions \subseteq DOMAIN ids /\ th'[t].got.words = {ids[p] : p \in Positions}
               /\ th'[t].pc = "store" => th'[t].got.words = Hits
    BY <1>1, <1>2 DEF Read
  <2>2. CASE t = s
    BY <2>1, <2>2, SearchReads
  <2>3. CASE t # s
    BY <1>1, <2>1, <2>3 DEF Fresh, Read
  <2> QED BY <2>2, <2>3
<1> QED BY <1>5, <1>6, <1>7 DEF Fresh

LEMMA InitFresh == Init => Fresh
<1> SUFFICES ASSUME Init PROVE Fresh
  OBVIOUS
<1>1. DOMAIN cache = {} /\ version = 0 /\ \A s \in Searchers : th[s] = Waiting
  BY DEF Init
<1>2. Waiting.key = 0 /\ Waiting.pc = "idle"
  BY DEF Waiting
<1> QED BY <1>1, <1>2 DEF Fresh, Versions, Coherent, Read

LEMMA NextFresh == Types /\ Fresh /\ [Next]_vars => Fresh'
<1> SUFFICES ASSUME Types, Fresh, [Next]_vars PROVE Fresh'
  OBVIOUS
<1>1. Job \in Updaters
  BY DEF Updaters
<1>2. CASE DropCollection \/ CreateCollection
  BY <1>1, <1>2, ChangesShow, FreshDirty
<1>8. CASE DropFails
  BY <1>8, DropFailsFresh
<1>3. ASSUME NEW u \in Updaters, Update(u) PROVE Fresh'
  <2>1. CASE Insert(u) \/ DeleteDoc(u) \/ Count(u) \/ Get(u) \/ SetIds(u) \/ SetCorpus(u) \/ Dump(u)
    BY <2>1, ChangesShow, FreshDirty
  <2> QED BY <1>3, <2>1, AbortFresh, NewVersionFresh, InvalidateFresh DEF Update
<1>4. CASE Start
  BY <1>4, StartBegins, BeginFresh
<1>5. CASE \E s \in Searchers : Search(s)
  BY <1>5, SearchFresh
<1>6. CASE \E v \in DOMAIN cache : Evict(v)
  BY <1>6, EvictFresh
<1>7. CASE UNCHANGED vars
  <2>1. Current' => Current
    BY <1>7 DEF vars, Current, Dirty
  <2> QED BY <1>7, <2>1, FreshKept DEF vars, store, index, cached
<1> QED BY <1>2, <1>3, <1>4, <1>5, <1>6, <1>7, <1>8, NextCases, RestartFresh

\* With the types, the invariant of the cache holds in every reachable state.
THEOREM FreshHolds == Spec => []Fresh
<1>1. Init => Fresh
  BY InitFresh
<1>2. Types /\ Fresh /\ [Next]_vars => Fresh'
  BY NextFresh
<1> QED BY <1>1, <1>2, TypesHold, PTL DEF Spec

\* Between updates nothing is dirty.
LEMMA QuietIsClean == Types /\ Quiet => ~Dirty
BY DEF Types, Shape, Quiet, Dirty

\* Between updates a result that is cached for the current version is the one a search would
\* compute now, unless an update raised after a change: for any number of searches and
\* updaters, wherever each of them is overtaken by the others.
THEOREM CacheStaysCoherent == Spec => []CacheIsCoherent
<1>1. Types /\ Fresh => CacheIsCoherent
  BY QuietIsClean DEF CacheIsCoherent, Fresh, Coherent, Current, Now
<1> QED BY <1>1, TypesHold, FreshHolds, PTL
-----------------------------------------------------------------------------
(* The searches that no update overlaps.                                    *)

\* The search s began between updates, and none has begun since.
Calm(s) == th[s].start = begun + 1

\* It goes by the current version, and so it ends with what there is.
Undisturbed(s) ==
    /\ Quiet
    /\ th[s].pc \in {"lookup", "vector", "score", "names", "fetch", "store"} => th[s].key = version
    /\ th[s].pc = "done" /\ ~doubt.cache => th[s].got = Now
    /\ th[s].pc = "raised" => doubt.cache \/ doubt.index

Searching ==
    \A s \in Searchers : th[s].start <= begun + 1 /\ (Calm(s) => Undisturbed(s))

\* An update that is under way, or begins, has no such search beside it.
LEMMA UpdateSearching ==
    ASSUME Types, Searching, NEW u \in Updaters, th' = th,
           (up[u].pc # "idle" /\ begun' = begun) \/ begun' = begun + 1
    PROVE  Searching'
<1> SUFFICES ASSUME NEW s \in Searchers
             PROVE  th'[s].start <= begun' + 1 /\ th'[s].start # begun' + 1
  BY DEF Searching, Calm
<1>1. th[s].start \in Nat /\ begun \in Nat /\ th[s].start <= begun + 1
  BY TypesGive DEF Types, ThState, Searching
<1>2. CASE up[u].pc # "idle" /\ begun' = begun
  <2>1. ~Quiet
    BY <1>2 DEF Quiet
  <2>2. th[s].start # begun + 1
    BY <2>1 DEF Searching, Calm, Undisturbed
  <2> QED BY <1>1, <1>2, <2>2
<1>3. CASE begun' = begun + 1
  BY <1>1, <1>3
<1> QED BY <1>2, <1>3

\* Nothing changes that such a search t is told by.
LEMMA CalmKept ==
    ASSUME Searching, NEW t \in Searchers, th'[t] = th[t], coll' = coll, corpus' = corpus,
           ids' = ids, version' = version, up' = up, doubt' = doubt, begun' = begun
    PROVE  th'[t].start <= begun' + 1 /\ (Calm(t)' => Undisturbed(t)')
<1>1. Now' = Now /\ (Quiet' <=> Quiet)
  BY DEF Now, Hits, Positions, Quiet
<1>2. th[t].start <= begun + 1 /\ (Calm(t) => Undisturbed(t))
  BY DEF Searching
<1>3. Calm(t)' => Calm(t)
  BY DEF Calm
<1>4. Undisturbed(t) => Undisturbed(t)'
  BY <1>1 DEF Undisturbed
<1> QED BY <1>2, <1>3, <1>4

\* Between updates there is a collection, and the positions that score have ids.
LEMMA QuietGives ==
    ASSUME Types, Indexed, Quiet
    PROVE  ~gone /\ ~Dirty /\ (~doubt.index => Positions \subseteq DOMAIN ids)
<1>1. ~gone
  BY ShapeGives DEF Quiet, Updaters
<1>2. ~Dirty
  BY QuietIsClean
<1>3. ~doubt.index => Whole
  BY DEF Indexed, Settled, Quiet, Types, Shape
<1> QED BY <1>1, <1>2, <1>3, WholeDescribes DEF Describes

\* A step of such a search s, whose updates are all at rest.
LEMMA CalmSearch ==
    ASSUME Types, Indexed, Fresh, Searching, NEW s \in Searchers, Search(s), th'[s].start = begun + 1
    PROVE  /\ Quiet
           /\ th'[s].pc \in {"lookup", "vector", "score", "names", "fetch", "store"}
                => th'[s].key = version
           /\ th'[s].pc = "done" /\ ~doubt.cache => th'[s].got = Now
           /\ th'[s].pc = "raised" => doubt.cache \/ doubt.index
<1>1. CASE CacheKey(s)
  <2>1. th'[s].pc = "lookup" /\ th'[s].key = version /\ th'[s].start = IF Quiet THEN begun + 1 ELSE 0
    BY <1>1, KeyTurns DEF Types, Turned
  <2>2. begun + 1 # 0
    BY TypesGive DEF Types
  <2> QED BY <2>1, <2>2
<1>2. ASSUME th'[s].start = th[s].start
      PROVE  Undisturbed(s) /\ ~gone /\ ~Dirty /\ (~doubt.index => Positions \subseteq DOMAIN ids)
  <2>1. Undisturbed(s)
    BY <1>2 DEF Searching, Calm
  <2> QED BY <2>1, QuietGives DEF Undisturbed
<1>3. CASE GetCache(s)
  <2>1. CASE th[s].key \in DOMAIN cache
    <3>1. /\ th[s].pc = "lookup" /\ th'[s].pc = "done" /\ th'[s].got = cache[th[s].key]
          /\ th'[s].start = th[s].start
      BY <1>3, <2>1, HitTurns DEF Types, Turned, GetCache
    <3>2. Quiet /\ th[s].key = version /\ ~Dirty
      BY <1>2, <3>1 DEF Undisturbed
    <3>3. ~doubt.cache => cache[version] = Now
      BY <2>1, <3>2 DEF Fresh, Coherent, Current
    <3> QED BY <3>1, <3>2, <3>3
  <2>2. CASE th[s].key \notin DOMAIN cache
    <3>1. /\ th[s].pc = "lookup" /\ th'[s].pc = "vector" /\ th'[s].key = th[s].key
          /\ th'[s].start = th[s].start
      BY <1>3, <2>2, MissTurns DEF Types, Turned, GetCache
    <3> QED BY <1>2, <3>1 DEF Undisturbed
  <2> QED BY <2>1, <2>2
<1>4. CASE SearchVector(s)
  <2>1. CASE gone
    BY <1>2, <1>4, <2>1, RaiseTurns DEF Types, SearchVector, Turned
  <2>2. CASE ~gone
    <3>1. /\ th[s].pc = "vector" /\ th'[s].pc = "score" /\ th'[s].key = th[s].key
          /\ th'[s].start = th[s].start
      BY <1>4, <2>2, VectorTurns DEF Types, Turned, SearchVector
    <3> QED BY <1>2, <3>1 DEF Undisturbed
  <2> QED BY <2>1, <2>2
<1>5. CASE Score(s)
  <2>1. /\ th[s].pc = "score" /\ th'[s].pc = (IF Positions = {} THEN "store" ELSE "names")
        /\ th'[s].key = th[s].key /\ th'[s].start = th[s].start
    BY <1>5, ScoreTurns DEF Types, Turned, Score
  <2> QED BY <1>2, <2>1 DEF Undisturbed
<1>6. CASE Names(s)
  <2>1. CASE th[s].at \subseteq DOMAIN ids
    <3>1. /\ th[s].pc = "names" /\ th'[s].pc = "fetch" /\ th'[s].key = th[s].key
          /\ th'[s].start = th[s].start
      BY <1>6, <2>1, NamesTurns DEF Types, Turned, Names
    <3> QED BY <1>2, <3>1 DEF Undisturbed
  <2>2. CASE ~(th[s].at \subseteq DOMAIN ids)
    <3>1. th[s].pc = "names" /\ th'[s].pc = "raised" /\ th'[s].start = th[s].start
      BY <1>6, <2>2, RaiseTurns DEF Types, Turned, Names
    <3>2. Quiet /\ th[s].key = version /\ ~Dirty /\ (~doubt.index => Positions \subseteq DOMAIN ids)
      BY <1>2, <3>1 DEF Undisturbed
    <3>3. ~doubt.cache => th[s].at = Positions
      BY <3>1, <3>2 DEF Fresh, Read, Current
    <3> QED BY <2>2, <3>1, <3>2, <3>3
  <2> QED BY <2>1, <2>2
<1>7. CASE Fetch(s)
  <2>1. CASE gone
    BY <1>2, <1>7, <2>1, RaiseTurns DEF Types, Fetch, Turned
  <2>2. CASE ~gone
    <3>1. /\ th[s].pc = "fetch" /\ th'[s].pc = "store" /\ th'[s].key = th[s].key
          /\ th'[s].start = th[s].start
      BY <1>7, <2>2, FetchTurns DEF Types, Turned, Fetch
    <3> QED BY <1>2, <3>1 DEF Undisturbed
  <2> QED BY <2>1, <2>2
<1>8. CASE SetCache(s)
  <2>1. /\ th[s].pc = "store" /\ th'[s].pc = "done" /\ th'[s].got = th[s].got
        /\ th'[s].start = th[s].start
    BY <1>8, StoreTurns DEF Types, Turned, SetCache
  <2>2. Quiet /\ th[s].key = version /\ ~Dirty
    BY <1>2, <2>1 DEF Undisturbed
  <2>3. ~doubt.cache => th[s].got = Now
    BY <2>1, <2>2, StoresNow DEF Current
  <2> QED BY <2>1, <2>2, <2>3
<1> QED BY <1>1, <1>3, <1>4, <1>5, <1>6, <1>7, <1>8 DEF Search

LEMMA SearchStart ==
    ASSUME Types, Searching, NEW s \in Searchers, Search(s)
    PROVE  th'[s].start <= begun + 1
<1>1. th[s].start <= begun + 1 /\ begun \in Nat
  BY TypesGive DEF Searching, Types
<1>2. th'[s].start = th[s].start \/ th'[s].start = begun + 1 \/ th'[s].start = 0
  BY KeyTurns, MissTurns, HitTurns, RaiseTurns, VectorTurns, ScoreTurns, NamesTurns, FetchTurns, StoreTurns
     DEF Search, Turned, Types, SearchVector, Names, Fetch
<1> QED BY <1>1, <1>2

LEMMA SearchSearching ==
    ASSUME Types, Indexed, Fresh, Searching, NEW s \in Searchers, Search(s)
    PROVE  Searching'
<1>1. /\ coll' = coll /\ corpus' = corpus /\ ids' = ids /\ version' = version /\ up' = up
      /\ doubt' = doubt /\ begun' = begun /\ \A t \in Searchers : t # s => th'[t] = th[t]
  BY SearchAlone DEF Types, store, index, bounds
<1>2. Now' = Now /\ (Quiet' <=> Quiet)
  BY <1>1 DEF Now, Hits, Positions, Quiet
<1>3. SUFFICES ASSUME NEW t \in Searchers
               PROVE  th'[t].start <= begun' + 1 /\ (Calm(t)' => Undisturbed(t)')
  BY DEF Searching
<1>4. CASE t # s
  BY <1>1, <1>4, CalmKept
<1>5. CASE t = s
  <2>1. th'[s].start <= begun' + 1
    BY <1>1, SearchStart
  <2>2. ASSUME Calm(s)' PROVE Undisturbed(s)'
    <3>1. th'[s].start = begun + 1
      BY <1>1, <2>2 DEF Calm
    <3> QED BY <1>1, <1>2, <3>1, CalmSearch DEF Undisturbed
  <2> QED BY <1>5, <2>1, <2>2
<1> QED BY <1>4, <1>5

LEMMA NextSearching == Types /\ Indexed /\ Fresh /\ Searching /\ [Next]_vars => Searching'
<1> SUFFICES ASSUME Types, Indexed, Fresh, Searching, [Next]_vars PROVE Searching'
  OBVIOUS
<1>1. Job \in Updaters
  BY DEF Updaters
<1>2. CASE DropCollection \/ CreateCollection
  BY <1>1, <1>2, ChangesShow, UpdateSearching
<1>10. CASE DropFails
  <2>1. up[Job].pc = "drop" /\ begun' = begun /\ th' = th
    BY <1>10, DropFailsMoves
  <2> QED BY <1>1, <2>1, UpdateSearching
<1>3. ASSUME NEW u \in Updaters, Update(u) PROVE Searching'
  <2>1. CASE Insert(u) \/ DeleteDoc(u) \/ Count(u) \/ Get(u) \/ SetIds(u) \/ SetCorpus(u) \/ Dump(u)
    BY <2>1, ChangesShow, UpdateSearching
  <2>2. CASE Fails(u) \/ NewVersion(u) \/ NoVersion(u) \/ InvalidateCache(u)
    <3>1. up[u].pc # "idle" /\ begun' = begun /\ th' = th
      BY <2>2 DEF Fails, NewVersion, NoVersion, InvalidateCache, bounds
    <3> QED BY <3>1, UpdateSearching
  <2> QED BY <1>3, <2>1, <2>2 DEF Update
<1>4. CASE Start
  <2>1. begun' = begun + 1 /\ th' = th
    BY <1>4, StartBegins DEF Begin
  <2> QED BY <1>1, <2>1, UpdateSearching
<1>5. CASE \E s \in Searchers : Search(s)
  BY <1>5, SearchSearching
<1>6. CASE (\E v \in DOMAIN cache : Evict(v)) \/ UNCHANGED vars
  <2>1. /\ coll' = coll /\ corpus' = corpus /\ ids' = ids /\ version' = version /\ up' = up /\ th' = th
        /\ doubt' = doubt /\ begun' = begun
    BY <1>6 DEF Evict, vars, store, index, bounds, cached
  <2> QED BY <2>1, CalmKept DEF Searching
<1>7. CASE Restart
  <2>1. begun' = begun /\ \A s \in Searchers : th'[s].start = 0
    BY <1>7, RestartFacts
  <2>2. begun \in Nat
    BY TypesGive DEF Types
  <2> QED BY <2>1, <2>2 DEF Searching, Calm
<1> QED BY <1>2, <1>3, <1>4, <1>5, <1>6, <1>7, <1>10, NextCases

LEMMA InitSearching == Init => Searching
<1> SUFFICES ASSUME Init PROVE Searching
  OBVIOUS
<1>1. begun = 0 /\ \A s \in Searchers : th[s] = Waiting
  BY DEF Init
<1>2. Waiting.start = 0
  BY DEF Waiting
<1> QED BY <1>1, <1>2 DEF Searching, Calm

\* A search that no update overlaps finds every chunk and exactly the matching ones by their
\* words, from the cache or not, and does not raise, where neither the index nor the cache is
\* in doubt: whatever the other searches do meanwhile.
THEOREM SearchesAreExact == Spec => []SearchIsExact
<1>1. Init => Searching
  BY InitSearching
<1>2. Types /\ Indexed /\ Fresh /\ Searching /\ [Next]_vars => Searching'
  BY NextSearching
<1>3. Types /\ Indexed /\ Searching => SearchIsExact
  <2> SUFFICES ASSUME Types, Indexed, Searching, NEW s \in Searchers, th[s].pc \in {"done", "raised"},
                      th[s].start = begun + 1, ~doubt.index, ~doubt.cache
               PROVE  th[s].pc = "done" /\ th[s].got = Exact
    BY DEF SearchIsExact
  <2>1. Undisturbed(s)
    BY DEF Searching, Calm
  <2>2. Quiet /\ th[s].pc = "done" /\ th[s].got = Now
    BY <2>1 DEF Undisturbed
  <2>3. Whole
    BY <2>2 DEF Indexed, Settled, Quiet, Types, Shape
  <2>4. Now = Exact
    BY <2>3, WholeDescribes DEF Describes, Now, Exact
  <2> QED BY <2>2, <2>4
<1> QED BY <1>1, <1>2, <1>3, TypesHold, IndexHolds, FreshHolds, PTL DEF Spec
=============================================================================
