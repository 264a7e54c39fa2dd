-------------------------- MODULE Sessions_proofs ---------------------------
(***************************************************************************)
(* Proofs about conversations, for any questions, sessions, limits and     *)
(* failures: the types, that a session's history holds what was asked in   *)
(* it, and that the short memory stays bounded.                            *)
(***************************************************************************)
EXTENDS Sessions, SequenceTheorems, WellFoundedInduction, TLAPS

-----------------------------------------------------------------------------
(* The operators of the model.                                              *)

Row == [q : Questions, late : BOOLEAN]

\* A set of natural numbers that is not empty has a least element.
LEMMA LeastNat ==
    ASSUME NEW T \in SUBSET Nat, T # {}
    PROVE  \E m \in T : \A k \in T : m <= k
<1> DEFINE R == OpToRel(<, Nat)
<1>1. IsWellFoundedOn(R, Nat)
  BY NatLessThanWellFounded
<1>2. \A a, b \in Nat : a < b => <<a, b>> \in R
  BY DEF OpToRel
<1> HIDE DEF R
<1>3. PICK m \in T : \A y \in T : ~(<<y, m>> \in R)
  BY <1>1, WFMin
<1>4. ASSUME NEW k \in T PROVE m <= k
  <2>1. ~(k < m)
    BY <1>2, <1>3
  <2> QED BY <2>1
<1> QED BY <1>4

LEMMA NewestFacts ==
    ASSUME NEW S, NEW t \in Seq(S), NEW n \in Nat \ {0}
    PROVE  /\ Newest(t, n) \in Seq(S) /\ Len(Newest(t, n)) <= n
           /\ \A i \in DOMAIN Newest(t, n) : \E j \in DOMAIN t : Newest(t, n)[i] = t[j]
           /\ t # <<>> => Newest(t, n) # <<>> /\ Last(Newest(t, n)) = Last(t)
<1>1. /\ Len(t) \in Nat /\ DOMAIN t = 1..Len(t) /\ \A i \in DOMAIN t : t[i] \in S
  BY LenProperties
<1>2. CASE Len(t) <= n
  BY <1>1, <1>2 DEF Newest
<1>3. CASE ~(Len(t) <= n)
  <2> DEFINE u == SubSeq(t, Len(t) - n + 1, Len(t))
  <2>1. Newest(t, n) = u
    BY <1>3 DEF Newest
  <2>2. \A i \in (Len(t) - n + 1)..Len(t) : t[i] \in S
    BY <1>1, <1>3
  <2>3. u \in Seq(S) /\ Len(u) = n /\ \A i \in 1..n : u[i] = t[Len(t) - n + i]
    BY <1>1, <1>3, <2>2, SubSeqProperties
  <2> HIDE DEF u
  <2>4. DOMAIN u = 1..n /\ u # <<>>
    BY <2>3, LenProperties
  <2>5. \A i \in DOMAIN u : Len(t) - n + i \in DOMAIN t
    BY <1>1, <1>3, <2>4
  <2>6. Last(u) = Last(t)
    BY <1>1, <2>3 DEF Last
  <2> QED BY <2>1, <2>3, <2>4, <2>5, <2>6
<1> QED BY <1>1, <1>2, <1>3

\* A row that is joined to others is the last of them, and brings no other in.
LEMMA JoinFacts ==
    ASSUME NEW acc \in Seq(Row), NEW r \in Row
    PROVE  /\ Join(acc, r) \in Seq(Row) /\ Join(acc, r) # <<>> /\ Last(Join(acc, r)) = r
           /\ \A i \in DOMAIN Join(acc, r) : \/ Join(acc, r)[i] = r
                                             \/ \E j \in DOMAIN acc : Join(acc, r)[i] = acc[j]
<1>1. ASSUME NEW s \in Seq(Row), \A i \in DOMAIN s : \E j \in DOMAIN acc : s[i] = acc[j]
      PROVE  /\ Append(s, r) \in Seq(Row) /\ Append(s, r) # <<>> /\ Last(Append(s, r)) = r
             /\ \A i \in DOMAIN Append(s, r) : \/ Append(s, r)[i] = r
                                               \/ \E j \in DOMAIN acc : Append(s, r)[i] = acc[j]
  <2>1. Len(s) \in Nat /\ DOMAIN s = 1..Len(s)
    BY LenProperties
  <2> DEFINE u == Append(s, r)
  <2>2. /\ u \in Seq(Row) /\ u # <<>> /\ Len(u) = Len(s) + 1
        /\ (\A i \in 1..Len(s) : u[i] = s[i]) /\ u[Len(s) + 1] = r
    BY AppendProperties
  <2> HIDE DEF u
  <2>3. DOMAIN u = 1..(Len(s) + 1)
    BY <2>1, <2>2, LenProperties
  <2>4. Last(u) = r
    BY <2>2 DEF Last
  <2>5. ASSUME NEW i \in DOMAIN u PROVE u[i] = r \/ \E j \in DOMAIN acc : u[i] = acc[j]
    <3>1. CASE i = Len(s) + 1
      BY <2>2, <3>1
    <3>2. CASE i # Len(s) + 1
      <4>1. i \in DOMAIN s /\ u[i] = s[i]
        BY <2>1, <2>2, <2>3, <3>2
      <4> QED BY <1>1, <4>1
    <3> QED BY <3>1, <3>2
  <2> QED BY <2>2, <2>4, <2>5 DEF u
<1>2. CASE acc # <<>> /\ IsDraft(Last(acc), r)
  <2>1. Len(acc) \in Nat \ {0} /\ DOMAIN acc = 1..Len(acc) /\ \A i \in DOMAIN acc : acc[i] \in Row
    BY <1>2, EmptySeq, LenProperties
  <2> DEFINE s == Front(acc)
  <2>2. s \in Seq(Row) /\ Len(s) = Len(acc) - 1 /\ \A i \in 1..(Len(acc) - 1) : s[i] = acc[i]
    BY <2>1, SubSeqProperties DEF Front
  <2> HIDE DEF s
  <2>3. DOMAIN s = 1..(Len(acc) - 1)
    BY <2>2, LenProperties
  <2>4. \A i \in DOMAIN s : i \in DOMAIN acc /\ s[i] = acc[i]
    BY <2>1, <2>2, <2>3
  <2>5. Join(acc, r) = Append(s, r)
    BY <1>2 DEF Join, s
  <2> QED BY <1>1, <2>2, <2>4, <2>5
<1>3. CASE ~(acc # <<>> /\ IsDraft(Last(acc), r))
  <2>1. Join(acc, r) = Append(acc, r)
    BY <1>3 DEF Join
  <2> QED BY <1>1, <2>1
<1> QED BY <1>2, <1>3

\* g has the messages after each of the first m rows of t.
Joins(g, t, m) ==
    g = [n \in 0..m |-> IF n = 0 THEN <<>> ELSE Join(g[n - 1], t[n])]

LEMMA JoinsExist ==
    ASSUME NEW t \in Seq(Row), NEW m \in Nat
    PROVE  \E g : Joins(g, t, m)
<1> DEFINE Bad == {k \in Nat : ~ \E g : Joins(g, t, k)}
<1> SUFFICES ASSUME Bad # {} PROVE FALSE
  OBVIOUS
<1>1. PICK k \in Bad : \A l \in Bad : k <= l
  BY LeastNat
<1>2. k # 0
  <2> DEFINE g == [n \in 0..0 |-> <<>>]
  <2>1. g = [n \in 0..0 |-> IF n = 0 THEN <<>> ELSE Join(g[n - 1], t[n])]
    OBVIOUS
  <2>2. Joins(g, t, 0)
    BY <2>1 DEF Joins
  <2> QED BY <2>2
<1>3. k - 1 \in Nat /\ k - 1 \notin Bad
  BY <1>1, <1>2
<1>4. PICK g : Joins(g, t, k - 1)
  BY <1>3
<1> DEFINE h == [n \in 0..k |-> IF n = k THEN Join(g[k - 1], t[k]) ELSE g[n]]
<1>5. DOMAIN h = 0..k /\ h[k] = Join(g[k - 1], t[k]) /\ \A n \in 0..(k - 1) : h[n] = g[n]
  BY <1>3
<1>6. \A n \in 0..(k - 1) : g[n] = IF n = 0 THEN <<>> ELSE Join(g[n - 1], t[n])
  BY <1>4 DEF Joins
<1>7. h = [n \in DOMAIN h |-> h[n]]
  OBVIOUS
<1> HIDE DEF h
<1>8. \A n \in 0..k : h[n] = IF n = 0 THEN <<>> ELSE Join(h[n - 1], t[n])
  <2> SUFFICES ASSUME NEW n \in 0..k PROVE h[n] = IF n = 0 THEN <<>> ELSE Join(h[n - 1], t[n])
    OBVIOUS
  <2>1. CASE n = k
    <3>1. k - 1 \in 0..(k - 1)
      BY <1>3
    <3>2. h[k - 1] = g[k - 1]
      BY <1>5, <3>1
    <3> QED BY <1>2, <1>5, <2>1, <3>2
  <2>2. CASE n = 0
    BY <1>2, <1>3, <1>5, <1>6, <2>2
  <2>3. CASE n # k /\ n # 0
    <3>1. n \in 0..(k - 1) /\ n - 1 \in 0..(k - 1)
      BY <2>3, <1>3
    <3> QED BY <1>5, <1>6, <2>3, <3>1
  <2> QED BY <2>1, <2>2, <2>3
<1>9. Joins(h, t, k)
  BY <1>5, <1>7, <1>8 DEF Joins
<1> QED BY <1>9

\* The messages are the rows of t, drafts left out; the newest is the last.
LEMMA CompactFacts ==
    ASSUME NEW t \in Seq(Row)
    PROVE  /\ \A i \in DOMAIN Compact(t) : \E j \in DOMAIN t : Compact(t)[i] = t[j]
           /\ t # <<>> => Compact(t) # <<>> /\ Last(Compact(t)) = Last(t)
<1> DEFINE m == Len(t)
<1>1. m \in Nat /\ DOMAIN t = 1..m /\ \A i \in 1..m : t[i] \in Row
  BY LenProperties
<1>2. PICK g : Joins(g, t, m) /\ Compact(t) = g[m]
  <2> DEFINE f == CHOOSE g : Joins(g, t, m)
  <2>1. Joins(f, t, m)
    BY <1>1, JoinsExist
  <2>2. Compact(t) = f[m]
    BY DEF Compact, Joins
  <2> QED BY <2>1, <2>2
<1>3. \A n \in 0..m : g[n] = IF n = 0 THEN <<>> ELSE Join(g[n - 1], t[n])
  BY <1>1, <1>2 DEF Joins
<1> DEFINE Good(n) ==
             /\ g[n] \in Seq(Row)
             /\ \A i \in DOMAIN g[n] : \E j \in DOMAIN t : g[n][i] = t[j]
             /\ n > 0 => g[n] # <<>> /\ Last(g[n]) = t[n]
           Bad == {n \in 0..m : ~Good(n)}
<1>4. Bad = {}
  <2> SUFFICES ASSUME Bad # {} PROVE FALSE
    OBVIOUS
  <2>1. Bad \in SUBSET Nat
    BY <1>1
  <2>2. PICK n \in Bad : \A l \in Bad : n <= l
    BY <2>1, LeastNat
  <2>3. n \in 0..m /\ ~Good(n)
    OBVIOUS
  <2>4. CASE n = 0
    <3>1. g[0] = <<>>
      BY <1>1, <1>3
    <3>2. <<>> \in Seq(Row) /\ DOMAIN <<>> = {}
      BY EmptySeq
    <3>3. Good(0)
      BY <3>1, <3>2
    <3> QED BY <2>3, <2>4, <3>3
  <2>5. CASE n # 0
    <3>1. n - 1 \in 0..m /\ n \in 1..m /\ ~(n <= n - 1)
      BY <1>1, <2>3, <2>5
    <3>2. Good(n - 1)
      BY <2>2, <3>1
    <3>3. g[n] = Join(g[n - 1], t[n])
      BY <1>3, <2>3, <2>5
    <3>4. PICK acc \in Seq(Row), r \in Row : acc = g[n - 1] /\ r = t[n]
      BY <1>1, <3>1, <3>2
    <3>5. PICK u : u = Join(acc, r)
      OBVIOUS
    <3>6. /\ u \in Seq(Row) /\ u # <<>> /\ Last(u) = r
          /\ \A i \in DOMAIN u : u[i] = r \/ \E j \in DOMAIN acc : u[i] = acc[j]
      BY <3>5, JoinFacts
    <3>7. g[n] = u
      BY <3>3, <3>4, <3>5
    <3>8. \A i \in DOMAIN u : \E j \in DOMAIN t : u[i] = t[j]
      BY <1>1, <3>1, <3>2, <3>4, <3>6
    <3>9. Good(n)
      BY <3>4, <3>6, <3>7, <3>8
    <3> QED BY <2>3, <3>9
  <2> QED BY <2>4, <2>5
<1>5. Good(m)
  BY <1>1, <1>4
<1>6. t # <<>> => m > 0
  BY <1>1, EmptySeq
<1> QED BY <1>2, <1>5, <1>6 DEF Last
-----------------------------------------------------------------------------
(* Types.                                                                   *)

Phases == {"new", "asked", "running", "done"}
Steps == {"idle", "answer", "graph", "store", "check", "summarise", "archive", "replace"}

TableType ==
    /\ Live \subseteq 1..seq /\ seq \in Ids /\ created \in Ids /\ current \in Ids
    /\ sessions \in [Live -> 1..created] /\ rows \in [Ids -> Seq(Row)] /\ seq = created
RequestType ==
    /\ phase \in [Questions -> Phases] /\ own \in [Questions -> 0..MaxSessions]
    /\ asked \in [Questions -> 0..NotGiven]
    /\ \A q \in Questions : phase[q] # "new" => own[q] # 0
RunType ==
    /\ runner \in Questions \cup {None} /\ (runner = None <=> step = "idle") /\ step \in Steps
    /\ runner # None => phase[runner] # "new"
MemoryType ==
    /\ short \in Seq(Questions) /\ summary \subseteq Questions
    /\ dialog \in Seq(Questions) /\ new \subseteq Questions
CountType == failures \in 0..MaxFailures /\ unsummed \in 0..failures

\* TypeOK, that every session has had a new id, and that the question of a run was asked.
Types == TableType /\ RequestType /\ RunType /\ MemoryType /\ CountType

LEMMA TypesGiveTypeOK == Types => TypeOK
BY DEF Types, TypeOK, TableType, RequestType, RunType, MemoryType, CountType, Row, Phases, Steps

\* What the bounds of the constants are.
LEMMA Bounds ==
    /\ MaxRounds \in Nat \ {0} /\ Loaded \in Nat \ {0} /\ Limit \in Nat \ {0}
    /\ MaxSessions \in Nat \ {0} /\ MaxFailures \in Nat /\ None \notin Questions
BY SessionsAssumption

LEMMA RecentFacts ==
    ASSUME TableType, NEW s \in Ids
    PROVE  Recent(s) \in Seq(Questions) /\ Len(Recent(s)) <= Loaded
<1> DEFINE r == Newest(rows[s], Loaded)
<1>1. r \in Seq(Row) /\ Len(r) <= Loaded
  BY Bounds, NewestFacts DEF TableType
<1>2. Recent(s) = [i \in DOMAIN r |-> r[i].q]
  BY DEF Recent
<1> HIDE DEF r
<1>3. Len(r) \in Nat /\ DOMAIN r = 1..Len(r) /\ \A i \in DOMAIN r : r[i] \in Row
  BY <1>1, LenProperties
<1>4. Recent(s) \in [1..Len(r) -> Questions]
  BY <1>2, <1>3 DEF Row
<1>5. Recent(s) \in Seq(Questions)
  BY <1>3, <1>4, SeqDef
<1>6. DOMAIN Recent(s) = 1..Len(r)
  BY <1>4
<1>7. Len(Recent(s)) = Len(r)
  BY <1>3, <1>5, <1>6, LenProperties
<1> QED BY <1>1, <1>5, <1>7

\* A new session, beside those of t.
LEMMA InsertFacts ==
    ASSUME TableType, NEW t, t \in [DOMAIN t -> 1..created], DOMAIN t \subseteq 1..seq, Insert(t),
           rows' \in [Ids -> Seq(Row)]
    PROVE  /\ TableType' /\ seq' = seq + 1 /\ created' = created + 1 /\ short' = <<>>
           /\ DOMAIN sessions' = DOMAIN t \cup {seq + 1}
           /\ \A i \in DOMAIN t : sessions'[i] = t[i]
<1>1. /\ seq \in Nat \ {0} /\ created \in Nat \ {0} /\ seq = created /\ created < MaxSessions
      /\ created' = created + 1 /\ current' = seq + 1 /\ short' = <<>>
      /\ sessions' = [i \in DOMAIN t \cup {seq + 1} |-> IF i \in DOMAIN t THEN t[i] ELSE created + 1]
      /\ seq' = Max({seq, seq + 1}) /\ MaxSessions \in Nat
  BY Bounds DEF TableType, Insert, NewId, Ids
<1>2. seq' = seq + 1
  <2>1. \E x \in {seq, seq + 1} : \A y \in {seq, seq + 1} : x >= y
    BY <1>1
  <2>2. Max({seq, seq + 1}) \in {seq, seq + 1} /\ \A y \in {seq, seq + 1} : Max({seq, seq + 1}) >= y
    BY <2>1 DEF Max
  <2> QED BY <1>1, <2>2
<1>3. DOMAIN sessions' = DOMAIN t \cup {seq + 1} /\ \A i \in DOMAIN t : sessions'[i] = t[i]
  BY <1>1
<1>4. seq + 1 \in 1..MaxSessions
  BY <1>1
<1>5. sessions' \in [DOMAIN sessions' -> 1..created']
  BY <1>1, <1>3
<1>6. DOMAIN sessions' \subseteq 1..seq'
  BY <1>1, <1>2, <1>3
<1> QED BY <1>1, <1>2, <1>3, <1>4, <1>5, <1>6 DEF TableType, Live, Ids

LEMMA IdsGiven ==
    TableType => /\ 1..seq \subseteq Ids /\ seq \in Nat /\ created \in Nat /\ created <= MaxSessions
                 /\ Ids \subseteq 0..MaxSessions /\ 0 \notin Ids /\ NotGiven \in Nat /\ NotGiven > MaxSessions
BY Bounds DEF TableType, Ids, NotGiven

\* Whether an id has a session, had one, or never had one.
LEMMA CreationFacts ==
    ASSUME TableType, NEW s \in Ids
    PROVE  /\ CreationOf(s) \in 0..NotGiven
           /\ s \in Live => CreationOf(s) = sessions[s]
           /\ s \notin 1..seq => CreationOf(s) = NotGiven
<1>1. s \in Nat \ {0} /\ seq \in Nat /\ Live \subseteq 1..seq /\ NotGiven \in Nat /\ NotGiven > MaxSessions
  BY IdsGiven, Bounds DEF TableType, Ids
<1>2. CASE s \in Live
  BY <1>1, <1>2, IdsGiven, Bounds DEF TableType, CreationOf
<1>3. CASE s \notin Live
  BY <1>1, <1>3 DEF CreationOf
<1> QED BY <1>2, <1>3

LEMMA AskTypes ==
    ASSUME Types, NEW s \in Ids, NEW q \in Questions, Ask(q, s)
    PROVE  Types'
<1>1. /\ phase' = [phase EXCEPT ![q] = "asked"] /\ own' = [own EXCEPT ![q] = s] /\ phase[q] = "new"
      /\ asked' = [asked EXCEPT ![q] = CreationOf(s)]
      /\ UNCHANGED <<tables, current, runner, step, memory, local, failures, unsummed>>
  BY DEF Ask
<1>2. TableType' /\ MemoryType' /\ CountType'
  BY <1>1 DEF Types, TableType, MemoryType, CountType, tables, memory, local, Live
<1>3. RunType'
  BY <1>1 DEF Types, RunType, RequestType
<1>4. CreationOf(s) \in 0..NotGiven /\ s \in 0..MaxSessions /\ s # 0
  BY CreationFacts, IdsGiven DEF Types
<1>5. PICK n \in 0..NotGiven : n = CreationOf(s)
  BY <1>4
<1>6. asked' = [asked EXCEPT ![q] = n]
  BY <1>1, <1>5
<1>7. RequestType'
  BY <1>1, <1>4, <1>6 DEF Types, RequestType, Phases
<1> QED BY <1>2, <1>3, <1>7 DEF Types

LEMMA CreateTypes == Types /\ Create => Types'
<1> SUFFICES ASSUME Types, Create PROVE Types'
  OBVIOUS
<1>1. /\ Insert(sessions) /\ summary' = {}
      /\ UNCHANGED <<rows, request, runner, step, dialog, new, failures, unsummed>>
  BY DEF Create
<1>2. TableType' /\ seq' = seq + 1 /\ created' = created + 1 /\ short' = <<>>
  BY <1>1, InsertFacts DEF Types, TableType, Live
<1>3. RequestType'
  BY <1>1, <1>2, IdsGiven DEF Types, RequestType, request
<1>4. RunType' /\ CountType'
  BY <1>1 DEF Types, RunType, CountType, request
<1>5. MemoryType'
  BY <1>1, <1>2, EmptySeq DEF Types, MemoryType
<1> QED BY <1>2, <1>3, <1>4, <1>5 DEF Types

LEMMA SwitchTypes ==
    ASSUME Types, NEW s \in Ids, Switch(s)
    PROVE  Types' /\ Len(short') <= Loaded
<1>1. /\ current' = s /\ short' = Recent(s) /\ summary' = {}
      /\ UNCHANGED <<tables, request, runner, step, dialog, new, failures, unsummed>>
  BY DEF Switch, Load
<1>2. s \in Ids
  BY IdsGiven DEF Types
<1>3. short' \in Seq(Questions) /\ Len(short') <= Loaded
  BY <1>1, <1>2, RecentFacts DEF Types
<1>4. TableType' /\ RequestType' /\ RunType' /\ CountType'
  BY <1>1 DEF Types, TableType, RequestType, RunType, CountType, tables, request, Live
<1>5. MemoryType'
  BY <1>1, <1>3 DEF Types, MemoryType
<1> QED BY <1>3, <1>4, <1>5 DEF Types

\* A session that is there was there before, or its id has never been given.
OnlyNewIds ==
    /\ 1..seq \subseteq 1..seq'
    /\ \A i \in DOMAIN sessions' : (i \in Live /\ sessions'[i] = sessions[i]) \/ i \notin 1..seq

\* A deletion empties a session, and may load another or make one.
LEMMA DeleteTypes ==
    ASSUME Types, NEW s \in Ids, Delete(s)
    PROVE  /\ Types' /\ rows' = [rows EXCEPT ![s] = <<>>] /\ OnlyNewIds
           /\ Len(short') <= Loaded \/ short' = short
           /\ UNCHANGED <<request, runner, step, dialog, new, failures, unsummed>>
<1> DEFINE left == [i \in Live \ {s} |-> sessions[i]]
<1>1. /\ rows' = [rows EXCEPT ![s] = <<>>]
      /\ IF current # s
         THEN sessions' = left /\ UNCHANGED <<seq, created, current, short, summary>>
         ELSE /\ summary' = {}
              /\ \/ /\ sessions' = left /\ UNCHANGED <<seq, created>>
                    /\ \E i \in DOMAIN left : Load(i)
                 \/ left = <<>> /\ Insert(left)
      /\ UNCHANGED <<request, runner, step, dialog, new, failures, unsummed>>
  BY DEF Delete
<1>2. /\ DOMAIN left = Live \ {s} /\ \A i \in Live \ {s} : left[i] = sessions[i]
      /\ left \in [Live \ {s} -> 1..created] /\ Live \subseteq 1..seq
  BY DEF Types, TableType
<1> HIDE DEF left
<1>3. rows' \in [Ids -> Seq(Row)]
  BY <1>1, EmptySeq DEF Types, TableType
<1>4. RunType' /\ CountType'
  BY <1>1 DEF Types, RunType, CountType, request
<1>5. 1..seq \subseteq Ids /\ seq \in Nat /\ created \in Nat
  BY IdsGiven DEF Types
<1>6. CASE current # s
  <2>1. TableType'
    BY <1>1, <1>2, <1>3, <1>6 DEF Types, TableType, Live
  <2>2. RequestType' /\ MemoryType'
    BY <1>1, <1>6 DEF Types, RequestType, MemoryType, request
  <2>3. OnlyNewIds
    BY <1>1, <1>2, <1>6 DEF OnlyNewIds
  <2> QED BY <1>1, <1>2, <1>4, <1>6, <2>1, <2>2, <2>3 DEF Types
<1>7. ASSUME NEW i \in DOMAIN left, sessions' = left, UNCHANGED <<seq, created>>, Load(i), summary' = {}
      PROVE  /\ TableType' /\ RequestType' /\ MemoryType' /\ Len(short') <= Loaded /\ OnlyNewIds
  <2>1. current' = i /\ short' = Recent(i) /\ i \in Ids
    BY <1>2, <1>5, <1>7 DEF Load
  <2>2. short' \in Seq(Questions) /\ Len(short') <= Loaded
    BY <2>1, RecentFacts DEF Types
  <2>3. TableType'
    BY <1>2, <1>3, <1>7, <2>1 DEF Types, TableType, Live
  <2>4. RequestType' /\ MemoryType'
    BY <1>1, <1>7, <2>2 DEF Types, RequestType, MemoryType, request
  <2>5. OnlyNewIds
    BY <1>2, <1>7 DEF OnlyNewIds
  <2> QED BY <2>2, <2>3, <2>4, <2>5
<1>8. ASSUME left = <<>>, Insert(left), summary' = {}
      PROVE  TableType' /\ RequestType' /\ MemoryType' /\ Len(short') <= Loaded /\ OnlyNewIds
  <2>1. /\ TableType' /\ seq' = seq + 1 /\ created' = created + 1 /\ short' = <<>>
        /\ DOMAIN sessions' = DOMAIN left \cup {seq + 1}
        /\ \A i \in DOMAIN left : sessions'[i] = left[i]
    BY <1>2, <1>3, <1>8, InsertFacts DEF Types
  <2>2. RequestType'
    BY <1>1, <1>5, <2>1 DEF Types, RequestType, request
  <2>3. MemoryType' /\ Len(short') <= Loaded
    BY <1>1, <1>8, <2>1, EmptySeq, Bounds DEF Types, MemoryType
  <2>4. OnlyNewIds
    BY <1>2, <1>5, <2>1 DEF OnlyNewIds
  <2> QED BY <2>1, <2>2, <2>3, <2>4
<1>9. CASE current = s
  <2>1. CASE left = <<>> /\ Insert(left)
    BY <1>1, <1>4, <1>8, <1>9, <2>1 DEF Types
  <2>2. CASE ~(left = <<>> /\ Insert(left))
    BY <1>1, <1>2, <1>4, <1>7, <1>9, <2>2 DEF Types
  <2> QED BY <2>1, <2>2
<1> QED BY <1>6, <1>9

\* A question that was asked stays so.
SameAsked == \A q \in Questions : phase'[q] = "new" <=> phase[q] = "new"

LEMMA FinishFacts ==
    ASSUME Types, step # "idle", Finish, Requested
    PROVE  /\ RequestType' /\ RunType' /\ SameAsked /\ step' = "idle"
           /\ dialog' = <<>> /\ new' = {} /\ dialog' \in Seq(Questions)
<1>1. /\ runner \in Questions /\ runner' = None /\ step' = "idle" /\ dialog' = <<>> /\ new' = {}
      /\ phase' = [phase EXCEPT ![runner] = "done"] /\ phase[runner] # "new"
      /\ UNCHANGED <<sessions, seq, created, current, own, asked>>
  BY DEF Types, RunType, Finish, Requested
<1>2. phase' \in [Questions -> Phases] /\ SameAsked
  BY <1>1 DEF Types, RequestType, Phases, SameAsked
<1>3. RequestType'
  BY <1>1, <1>2 DEF Types, RequestType, SameAsked
<1>4. RunType'
  BY <1>1, Bounds DEF RunType, Steps
<1> QED BY <1>1, <1>2, <1>3, <1>4, EmptySeq

LEMMA GoOnFacts ==
    ASSUME Types, step # "idle", NEW p \in Steps \ {"idle"}, GoOn(p), Requested
    PROVE  RequestType' /\ RunType' /\ SameAsked /\ step' = p
BY DEF Types, RequestType, RunType, GoOn, Requested, SameAsked

LEMMA EnterTypes ==
    ASSUME Types, NEW q \in Questions, Enter(q)
    PROVE  Types' /\ SameAsked
<1>1. /\ runner = None /\ phase[q] = "asked" /\ runner' = q /\ step' = "answer"
      /\ phase' = [phase EXCEPT ![q] = "running"]
      /\ UNCHANGED <<sessions, seq, created, current, own, asked>>
      /\ UNCHANGED <<rows, memory, local, failures, unsummed>>
  BY DEF Enter, Requested
<1>2. TableType' /\ MemoryType' /\ CountType'
  BY <1>1 DEF Types, TableType, MemoryType, CountType, memory, local, Live
<1>3. phase' \in [Questions -> Phases] /\ SameAsked
  BY <1>1 DEF Types, RequestType, Phases, SameAsked
<1>4. RequestType'
  BY <1>1, <1>3 DEF Types, RequestType, SameAsked
<1>5. RunType'
  BY <1>1, <1>3, Bounds DEF RunType, Steps, Types, RequestType
<1> QED BY <1>2, <1>3, <1>4, <1>5 DEF Types

LEMMA FailCounts ==
    ASSUME Types
    PROVE  /\ Fail => failures' \in 0..MaxFailures /\ failures' = failures + 1 /\ failures \in Nat
           /\ Fail /\ unsummed' = unsummed => CountType'
           /\ Raises => CountType' /\ unsummed' = unsummed + 1 /\ unsummed \in Nat
<1>1. failures \in Nat /\ unsummed \in Nat /\ unsummed <= failures /\ MaxFailures \in Nat
  BY Bounds DEF Types, CountType
<1> QED BY <1>1 DEF Fail, Raises, CountType

\* What a step of a run leaves, and what it makes of the rows and the memory.
LEMMA RunTypes ==
    ASSUME Types, Run
    PROVE  /\ Types' /\ SameAsked /\ step # "idle"
           /\ UNCHANGED <<sessions, seq, created, current, own, asked>>
           /\ \/ rows' = rows
              \/ \E late \in BOOLEAN :
                    rows' = [rows EXCEPT ![own[runner]] = Append(@, [q |-> runner, late |-> late])]
<1>1. ASSUME TableType', RequestType', RunType', MemoryType', CountType'
      PROVE  Types'
  BY <1>1 DEF Types
<1>2. ASSUME Requested, rows' = rows PROVE TableType'
  BY <1>2 DEF Types, TableType, Live, Requested
<1>3. CASE NoAnswer
  <2>1. /\ step # "idle" /\ Finish /\ Requested
        /\ rows' = rows /\ short' = short /\ summary' = summary /\ failures' = failures
        /\ unsummed' = unsummed
    BY <1>3 DEF NoAnswer, Answering, memory
  <2>2. RequestType' /\ RunType' /\ SameAsked /\ dialog' \in Seq(Questions) /\ new' = {}
    BY <2>1, FinishFacts
  <2>3. MemoryType' /\ CountType'
    BY <2>1, <2>2 DEF Types, MemoryType, CountType
  <2> QED BY <1>1, <1>2, <2>1, <2>2, <2>3 DEF Requested
<1>4. CASE Remember
  <2>1. /\ step # "idle" /\ GoOn("store") /\ short' = Append(short, runner) /\ Requested
        /\ rows' = rows /\ summary' = summary /\ dialog' = dialog /\ new' = new
        /\ failures' = failures /\ unsummed' = unsummed
    BY <1>4 DEF Remember, Answering, local
  <2>2. RequestType' /\ RunType' /\ SameAsked
    BY <2>1, GoOnFacts DEF Steps
  <2>3. runner \in Questions
    BY <2>1 DEF Types, RunType
  <2>4. MemoryType' /\ CountType'
    BY <2>1, <2>3, AppendProperties DEF Types, MemoryType, CountType
  <2> QED BY <1>1, <1>2, <2>1, <2>2, <2>4 DEF Requested
<1>5. CASE Store \/ AnswerAtOnce
  <2>1. /\ step # "idle" /\ AddRow /\ Requested
        /\ short' = short /\ summary' = summary /\ unsummed' = unsummed
        /\ \/ Finish
           \/ (GoOn("check") \/ GoOn("graph")) /\ dialog' = dialog /\ new' = new
    BY <1>5 DEF Store, AnswerAtOnce, memory, local
  <2>2. RequestType' /\ RunType' /\ SameAsked /\ dialog' \in Seq(Questions) /\ new' \subseteq Questions
    BY <2>1, GoOnFacts, FinishFacts DEF Steps, Types, MemoryType
  <2>3. MemoryType'
    BY <2>1, <2>2 DEF Types, MemoryType
  <2>4. runner \in Questions /\ own[runner] \in Ids
    BY <2>1, Bounds DEF Types, RunType, RequestType, Ids
  <2>5. CASE Fail /\ rows' = rows
    <3>1. CountType'
      BY <2>1, <2>5, FailCounts
    <3> QED BY <1>1, <1>2, <2>1, <2>2, <2>3, <2>5, <3>1 DEF Requested
  <2>6. ASSUME NEW late \in BOOLEAN, failures' = failures,
               rows' = [rows EXCEPT ![own[runner]] = Append(@, [q |-> runner, late |-> late])]
        PROVE  TableType' /\ CountType'
    <3>1. [q |-> runner, late |-> late] \in Row
      BY <2>4 DEF Row
    <3>2. rows[own[runner]] \in Seq(Row)
      BY <2>4 DEF Types, TableType
    <3>3. Append(rows[own[runner]], [q |-> runner, late |-> late]) \in Seq(Row)
      BY <3>1, <3>2, AppendProperties
    <3>4. rows' \in [Ids -> Seq(Row)]
      BY <2>6, <3>3 DEF Types, TableType
    <3> QED BY <2>1, <2>6, <3>4 DEF Types, TableType, CountType, Live, Requested
  <2>7. CASE \E late \in BOOLEAN : /\ failures' = failures
                                   /\ rows' = [rows EXCEPT ![own[runner]] =
                                                  Append(@, [q |-> runner, late |-> late])]
    BY <1>1, <2>1, <2>2, <2>3, <2>6, <2>7 DEF Requested
  <2> QED BY <2>1, <2>5, <2>7 DEF AddRow, ActiveSession
<1>6. CASE Check
  <2>1. /\ step = "check" /\ Requested /\ rows' = rows /\ short' = short /\ summary' = summary
        /\ failures' = failures /\ unsummed' = unsummed
        /\ (GoOn("summarise") /\ dialog' = short /\ new' = new) \/ Finish
    BY <1>6 DEF Check, memory
  <2>2. RequestType' /\ RunType' /\ SameAsked /\ dialog' \in Seq(Questions) /\ new' \subseteq Questions
    BY <2>1, GoOnFacts, FinishFacts DEF Steps, Types, MemoryType
  <2>3. MemoryType' /\ CountType'
    BY <2>1, <2>2 DEF Types, MemoryType, CountType
  <2> QED BY <1>1, <1>2, <2>1, <2>2, <2>3 DEF Requested
<1>7. ASSUME step # "idle", Raises, Requested, rows' = rows, short' = short, summary' = summary
      PROVE  RequestType' /\ RunType' /\ SameAsked /\ MemoryType' /\ CountType'
  <2>1. Finish
    BY <1>7 DEF Raises
  <2>2. RequestType' /\ RunType' /\ SameAsked /\ dialog' \in Seq(Questions) /\ new' = {}
    BY <1>7, <2>1, FinishFacts
  <2>3. MemoryType' /\ CountType'
    BY <1>7, <2>2, FailCounts DEF Types, MemoryType
  <2> QED BY <2>2, <2>3
<1>8. CASE Summarise
  <2>1. step = "summarise" /\ Requested /\ rows' = rows /\ short' = short /\ summary' = summary
    BY <1>8 DEF Summarise, memory
  <2>2. CASE /\ GoOn("archive") /\ new' = summary \cup Range(dialog)
             /\ UNCHANGED <<dialog, failures, unsummed>>
    <3>1. RequestType' /\ RunType' /\ SameAsked
      BY <2>1, <2>2, GoOnFacts DEF Steps
    <3>2. Range(dialog) \subseteq Questions
      BY LenProperties DEF Types, MemoryType, Range
    <3>3. MemoryType' /\ CountType'
      BY <2>1, <2>2, <3>2 DEF Types, MemoryType, CountType
    <3> QED BY <1>1, <1>2, <2>1, <3>1, <3>3 DEF Requested
  <2>3. CASE Raises
    BY <1>1, <1>2, <1>7, <2>1, <2>3 DEF Requested
  <2> QED BY <1>8, <2>2, <2>3 DEF Summarise
<1>9. CASE Archive
  <2>1. step = "archive" /\ Requested /\ rows' = rows /\ short' = short /\ summary' = summary
    BY <1>9 DEF Archive
  <2>2. CASE GoOn("replace") /\ UNCHANGED <<local, failures, unsummed>>
    <3>1. RequestType' /\ RunType' /\ SameAsked
      BY <2>1, <2>2, GoOnFacts DEF Steps
    <3>2. MemoryType' /\ CountType'
      BY <2>1, <2>2 DEF Types, MemoryType, CountType, local
    <3> QED BY <1>1, <1>2, <2>1, <3>1, <3>2 DEF Requested
  <2>3. CASE Raises
    BY <1>1, <1>2, <1>7, <2>1, <2>3 DEF Requested
  <2> QED BY <1>9, <2>2, <2>3 DEF Archive
<1>10. CASE Replace
  <2>1. /\ step = "replace" /\ Finish /\ Requested /\ rows' = rows /\ summary' = new /\ short' = <<>>
        /\ failures' = failures /\ unsummed' = unsummed
    BY <1>10 DEF Replace
  <2>2. RequestType' /\ RunType' /\ SameAsked /\ dialog' \in Seq(Questions) /\ new' = {}
    BY <2>1, FinishFacts
  <2>3. MemoryType' /\ CountType'
    BY <2>1, <2>2, EmptySeq DEF Types, MemoryType, CountType
  <2> QED BY <1>1, <1>2, <2>1, <2>2, <2>3 DEF Requested
<1> QED BY <1>3, <1>4, <1>5, <1>6, <1>8, <1>9, <1>10 DEF Run

LEMMA InitTypes == Init => Types
<1> SUFFICES ASSUME Init PROVE Types
  OBVIOUS
<1>1. 1 \in Ids /\ Ids \subseteq Nat
  BY Bounds DEF Ids
<1>2. TableType
  BY <1>1, EmptySeq DEF Init, TableType, Live
<1>3. RequestType /\ RunType
  BY <1>1, Bounds DEF Init, RequestType, RunType, Phases, Steps, NotGiven
<1>4. MemoryType /\ CountType
  BY Bounds, EmptySeq DEF Init, MemoryType, CountType
<1> QED BY <1>2, <1>3, <1>4 DEF Types

\* The steps there are.
LEMMA NextCases ==
    ASSUME [Next]_vars
    PROVE  \/ \E s \in Ids : Switch(s)
           \/ \E s \in Ids : Delete(s)
           \/ \E s \in Ids : \E q \in Questions : Ask(q, s)
           \/ Create \/ Run \/ (\E q \in Questions : Enter(q)) \/ UNCHANGED vars
BY DEF Next

LEMMA NextTypes == Types /\ [Next]_vars => Types'
<1> SUFFICES ASSUME Types, [Next]_vars PROVE Types'
  OBVIOUS
<1>1. CASE UNCHANGED vars
  BY <1>1 DEF vars, tables, request, memory, local, Types, TableType, RequestType, RunType, MemoryType,
              CountType, Live
<1> QED BY <1>1, NextCases, AskTypes, CreateTypes, SwitchTypes, DeleteTypes, EnterTypes, RunTypes

\* In every reachable state the variables have their types.
THEOREM TypesHold == Spec => []Types
<1>1. Init => Types
  BY InitTypes
<1>2. Types /\ [Next]_vars => Types'
  BY NextTypes
<1> QED BY <1>1, <1>2, PTL DEF Spec

\* Every variable has its type, and the execution lock is held exactly while a run is
\* somewhere: whatever is asked, switched, deleted and failing beside it.
THEOREM TypeCorrect == Spec => []TypeOK
<1>1. Types => TypeOK
  BY TypesGiveTypeOK
<1> QED BY <1>1, TypesHold, PTL

-----------------------------------------------------------------------------
(* Whose answers a history holds.                                           *)

\* A question whose session is there was asked in that session, not in one before it with the
\* same id, or when the id had not been given; and a row stands with the id of its question.
AskedThere ==
    \A q \in Questions :
        phase[q] # "new" =>
            /\ own[q] \in Live => asked[q] \in {sessions[own[q]], NotGiven}
            /\ own[q] \notin 1..seq => AskedBefore(q)
RowIsOwn(s, row) == phase[row.q] # "new" /\ own[row.q] = s
RowsAreOwn == \A s \in Ids : \A i \in DOMAIN rows[s] : RowIsOwn(s, rows[s][i])
Kept == AskedThere /\ RowsAreOwn

\* The question of a row.
LEMMA RowFacts ==
    ASSUME TableType, NEW s \in Ids, NEW i \in DOMAIN rows[s]
    PROVE  rows[s] \in Seq(Row) /\ rows[s][i] \in Row /\ rows[s][i].q \in Questions
<1>1. rows[s] \in Seq(Row)
  BY DEF TableType
<1>2. rows[s][i] \in Row
  BY <1>1, LenProperties
<1> QED BY <1>1, <1>2 DEF Row

\* What was asked somewhere stays so, whatever sessions are made and deleted.
LEMMA StillAskedThere ==
    ASSUME Types, AskedThere, SameAsked, UNCHANGED <<own, asked>>, OnlyNewIds
    PROVE  AskedThere'
<1> SUFFICES ASSUME NEW q \in Questions, phase[q] # "new"
             PROVE  /\ own[q] \in DOMAIN sessions' => asked[q] \in {sessions'[own[q]], NotGiven}
                    /\ own[q] \notin 1..seq' => asked[q] = NotGiven
  BY DEF AskedThere, AskedBefore, SameAsked, Live, NotGiven
<1>1. /\ own[q] \in Live => asked[q] \in {sessions[own[q]], NotGiven}
      /\ own[q] \notin 1..seq => asked[q] = NotGiven
  BY DEF AskedThere, AskedBefore
<1> QED BY <1>1 DEF OnlyNewIds

\* What a step that changes neither rows nor requests has to respect.
LEMMA SameRows ==
    ASSUME Types, Kept, SameAsked, UNCHANGED <<rows, own, asked>>, OnlyNewIds
    PROVE  Kept'
<1>1. AskedThere'
  BY StillAskedThere DEF Kept
<1>2. ASSUME NEW s \in Ids, NEW i \in DOMAIN rows[s]
      PROVE  phase'[rows[s][i].q] # "new" /\ own[rows[s][i].q] = s
  <2>1. rows[s][i].q \in Questions
    BY <1>2, RowFacts DEF Types
  <2> QED BY <1>2, <2>1 DEF Kept, RowsAreOwn, RowIsOwn, SameAsked
<1>3. RowsAreOwn'
  BY <1>2 DEF RowsAreOwn, RowIsOwn
<1> QED BY <1>1, <1>3 DEF Kept

LEMMA InitKept == Init => Kept
<1> SUFFICES ASSUME Init PROVE Kept
  OBVIOUS
<1>1. \A s \in Ids : rows[s] = <<>>
  BY DEF Init
<1>2. \A s \in Ids : DOMAIN rows[s] = {}
  BY <1>1
<1> QED BY <1>2 DEF Init, Kept, AskedThere, RowsAreOwn

LEMMA AskKept ==
    ASSUME Types, Kept, NEW s \in Ids, NEW q \in Questions, Ask(q, s)
    PROVE  Kept'
<1>1. /\ phase[q] = "new" /\ phase' = [phase EXCEPT ![q] = "asked"] /\ own' = [own EXCEPT ![q] = s]
      /\ asked' = [asked EXCEPT ![q] = CreationOf(s)]
      /\ sessions' = sessions /\ rows' = rows /\ seq' = seq
  BY DEF Ask, tables
<1>2. /\ own'[q] = s /\ asked'[q] = CreationOf(s) /\ phase'[q] = "asked" /\ seq' = seq
      /\ \A p \in Questions \ {q} : own'[p] = own[p] /\ asked'[p] = asked[p] /\ phase'[p] = phase[p]
  BY <1>1 DEF Types, RequestType
<1>3. AskedThere'
  BY <1>1, <1>2, CreationFacts DEF Types, Kept, AskedThere, AskedBefore, Live, NotGiven
<1>4. ASSUME NEW z \in Ids, NEW i \in DOMAIN rows[z]
      PROVE  phase'[rows[z][i].q] # "new" /\ own'[rows[z][i].q] = z
  <2>1. rows[z][i].q \in Questions
    BY <1>4, RowFacts DEF Types
  <2>2. phase[rows[z][i].q] # "new" /\ own[rows[z][i].q] = z
    BY <1>4 DEF Kept, RowsAreOwn, RowIsOwn
  <2> QED BY <1>1, <1>2, <2>1, <2>2
<1>5. RowsAreOwn'
  BY <1>1, <1>4 DEF RowsAreOwn, RowIsOwn
<1> QED BY <1>3, <1>5 DEF Kept

\* A new session gets an id that no question was asked with.
LEMMA CreateKept == Types /\ Kept /\ Create => Kept'
<1> SUFFICES ASSUME Types, Kept, Create PROVE Kept'
  OBVIOUS
<1>1. Insert(sessions) /\ UNCHANGED <<rows, phase, own, asked>>
  BY DEF Create, request
<1>2. Types'
  BY CreateTypes
<1>3. /\ DOMAIN sessions' = DOMAIN sessions \cup {seq + 1} /\ seq' = seq + 1
      /\ \A i \in DOMAIN sessions : sessions'[i] = sessions[i]
  BY <1>1, <1>2, InsertFacts DEF Types, TableType, Live
<1>4. OnlyNewIds
  BY <1>3, IdsGiven DEF Types, OnlyNewIds, Live
<1>5. SameAsked
  BY <1>1 DEF SameAsked
<1> QED BY <1>1, <1>4, <1>5, SameRows

LEMMA DeleteKept ==
    ASSUME Types, Kept, NEW s \in Ids, Delete(s)
    PROVE  Kept'
<1>1. rows' = [rows EXCEPT ![s] = <<>>] /\ UNCHANGED <<phase, own, asked>> /\ OnlyNewIds
  BY DeleteTypes DEF request
<1>2. SameAsked
  BY <1>1 DEF SameAsked
<1>3. AskedThere'
  BY <1>1, <1>2, StillAskedThere DEF Kept
<1>4. ASSUME NEW z \in Ids, NEW i \in DOMAIN rows'[z]
      PROVE  rows'[z] = rows[z]
  BY <1>1, <1>4 DEF Types, TableType
<1>5. RowsAreOwn'
  BY <1>1, <1>4 DEF Kept, RowsAreOwn, RowIsOwn
<1> QED BY <1>3, <1>5 DEF Kept

\* An answer is stored with the session of its own request.
LEMMA StoreKept ==
    ASSUME Types, Kept, SameAsked, runner \in Questions, phase[runner] # "new", NEW late \in BOOLEAN,
           rows' = [rows EXCEPT ![own[runner]] = Append(@, [q |-> runner, late |-> late])],
           own' = own
    PROVE  RowsAreOwn'
<1> DEFINE o == own[runner]
           new1 == [q |-> runner, late |-> late]
<1>1. o \in Ids /\ new1 \in Row /\ new1.q = runner
  BY Bounds DEF Types, RequestType, Row, Ids
<1>2. rows[o] \in Seq(Row) /\ Len(rows[o]) \in Nat /\ DOMAIN rows[o] = 1..Len(rows[o])
  BY <1>1, LenProperties DEF Types, TableType
<1> DEFINE u == Append(rows[o], new1)
<1>3. /\ u \in Seq(Row) /\ Len(u) = Len(rows[o]) + 1 /\ u[Len(rows[o]) + 1] = new1
      /\ \A i \in 1..Len(rows[o]) : u[i] = rows[o][i]
  BY <1>1, <1>2, AppendProperties
<1>4. rows'[o] = u /\ \A z \in Ids \ {o} : rows'[z] = rows[z]
  BY <1>1 DEF Types, TableType
<1>5. DOMAIN u = 1..(Len(rows[o]) + 1)
  BY <1>3, LenProperties
<1>6. ASSUME NEW z \in Ids, NEW i \in DOMAIN rows[z]
      PROVE  phase'[rows[z][i].q] # "new" /\ own'[rows[z][i].q] = z
  <2>1. rows[z][i].q \in Questions
    BY <1>6, RowFacts DEF Types
  <2> QED BY <1>6, <2>1 DEF Kept, RowsAreOwn, RowIsOwn, SameAsked
<1>7. phase'[runner] # "new" /\ own'[runner] = o
  BY DEF SameAsked
<1> HIDE DEF o, new1, u
<1>8. ASSUME NEW z \in Ids, NEW i \in DOMAIN rows'[z]
      PROVE  phase'[rows'[z][i].q] # "new" /\ own'[rows'[z][i].q] = z
  <2>1. CASE z # o
    <3>1. rows'[z] = rows[z]
      BY <1>4, <2>1
    <3>2. i \in DOMAIN rows[z]
      BY <1>8, <3>1
    <3>3. phase'[rows[z][i].q] # "new" /\ own'[rows[z][i].q] = z
      BY <1>6, <3>2
    <3> QED BY <3>1, <3>3
  <2>2. CASE z = o /\ i = Len(rows[o]) + 1
    BY <1>1, <1>3, <1>4, <1>7, <2>2
  <2>3. CASE z = o /\ i # Len(rows[o]) + 1
    <3>1. i \in DOMAIN rows[o] /\ rows'[z][i] = rows[o][i]
      BY <1>2, <1>3, <1>4, <1>5, <1>8, <2>3
    <3> QED BY <1>1, <1>6, <2>3, <3>1
  <2> QED BY <2>1, <2>2, <2>3
<1> QED BY <1>8 DEF RowsAreOwn, RowIsOwn

LEMMA RunKept == Types /\ Kept /\ Run => Kept'
<1> SUFFICES ASSUME Types, Kept, Run PROVE Kept'
  OBVIOUS
<1>1. /\ SameAsked /\ step # "idle" /\ UNCHANGED <<sessions, seq, own, asked>>
      /\ \/ rows' = rows
         \/ \E late \in BOOLEAN :
               rows' = [rows EXCEPT ![own[runner]] = Append(@, [q |-> runner, late |-> late])]
  BY RunTypes
<1>2. runner \in Questions /\ phase[runner] # "new"
  BY <1>1 DEF Types, RunType
<1>3. OnlyNewIds
  BY <1>1, RunTypes DEF OnlyNewIds, Live
<1>4. CASE rows' = rows
  BY <1>1, <1>3, <1>4, SameRows
<1>5. CASE rows' # rows
  <2>1. RowsAreOwn'
    BY <1>1, <1>2, <1>5, StoreKept
  <2>2. AskedThere'
    BY <1>1, <1>3, StillAskedThere DEF Kept
  <2> QED BY <2>1, <2>2 DEF Kept
<1> QED BY <1>4, <1>5

LEMMA NextKept == Types /\ Kept /\ [Next]_vars => Kept'
<1> SUFFICES ASSUME Types, Kept, [Next]_vars PROVE Kept'
  OBVIOUS
<1>1. ASSUME UNCHANGED <<sessions, seq, rows, own, asked>>, SameAsked PROVE Kept'
  BY <1>1, SameRows DEF OnlyNewIds, Live
<1>2. CASE UNCHANGED vars
  BY <1>1, <1>2 DEF vars, tables, request, SameAsked
<1>3. ASSUME NEW s \in Ids, Switch(s) PROVE Kept'
  BY <1>1, <1>3 DEF Switch, tables, request, SameAsked
<1>4. ASSUME NEW q \in Questions, Enter(q) PROVE Kept'
  <2>1. SameAsked /\ UNCHANGED <<sessions, seq, rows, own, asked>>
    BY <1>4, EnterTypes DEF Enter, Requested
  <2> QED BY <1>1, <2>1
<1> QED BY <1>2, <1>3, <1>4, NextCases, AskKept, CreateKept, DeleteKept, RunKept

LEMMA KeptGivesHistory == Types /\ Kept => HistoryIsOwn
<1> SUFFICES ASSUME Types, Kept, NEW s \in Live
             PROVE  LET shown == Shown(s)
                    IN  /\ \A i \in DOMAIN shown :
                              asked[shown[i].q] = sessions[s] \/ AskedBefore(shown[i].q)
                        /\ rows[s] # <<>> => shown # <<>> /\ Last(shown) = Last(rows[s])
  BY DEF HistoryIsOwn
<1> DEFINE t == Newest(rows[s], Limit)
           u == Compact(t)
<1>1. s \in Ids /\ rows[s] \in Seq(Row)
  BY IdsGiven DEF Types, TableType
<1>2. /\ t \in Seq(Row) /\ \A i \in DOMAIN t : \E j \in DOMAIN rows[s] : t[i] = rows[s][j]
      /\ rows[s] # <<>> => t # <<>> /\ Last(t) = Last(rows[s])
  BY <1>1, Bounds, NewestFacts
<1>3. Shown(s) = u
  BY DEF Shown
<1> HIDE DEF t
<1>4. /\ \A i \in DOMAIN u : \E j \in DOMAIN t : u[i] = t[j]
      /\ t # <<>> => u # <<>> /\ Last(u) = Last(t)
  BY <1>2, CompactFacts
<1> HIDE DEF u
<1>5. ASSUME NEW i \in DOMAIN u
      PROVE  asked[u[i].q] = sessions[s] \/ AskedBefore(u[i].q)
  <2>1. PICK j \in DOMAIN rows[s] : u[i] = rows[s][j]
    BY <1>2, <1>4, <1>5
  <2>2. u[i].q \in Questions
    BY <1>1, <2>1, RowFacts DEF Types
  <2>3. phase[u[i].q] # "new" /\ own[u[i].q] = s
    BY <1>1, <2>1 DEF Kept, RowsAreOwn, RowIsOwn
  <2> QED BY <2>2, <2>3 DEF Kept, AskedThere, AskedBefore
<1> QED BY <1>2, <1>3, <1>4, <1>5

\* What the page shows of a session was asked in that session and in none that had its place
\* before, or under its id before any session had it, and the newest answer is shown last: for any number of questions, sessions, rows
\* and drafts, wherever the agent is when an answer comes.
THEOREM HistoriesAreOwn == Spec => []HistoryIsOwn
<1>1. Init => Kept
  BY InitKept
<1>2. Types /\ Kept /\ [Next]_vars => Kept'
  BY NextKept
<1>3. Types /\ Kept => HistoryIsOwn
  BY KeptGivesHistory
<1> QED BY <1>1, <1>2, <1>3, TypesHold, PTL DEF Spec

-----------------------------------------------------------------------------
(* The short memory.                                                        *)

\* The answer that is being handled may be one too many.
Over == IF step \in {"idle", "answer", "graph"} THEN 0 ELSE 1
Bounded == Len(short) <= MemoryLimit + unsummed + Over

LEMMA LimitFacts ==
    ASSUME Types
    PROVE  /\ MemoryLimit \in Nat /\ Loaded <= MemoryLimit /\ MaxRounds - 1 <= MemoryLimit
           /\ Loaded \in Nat /\ MaxRounds \in Nat \ {0}
           /\ unsummed \in Nat /\ Len(short) \in Nat /\ Over \in {0, 1} /\ Len(<<>>) = 0
<1>1. Len(short) \in Nat
  BY LenProperties DEF Types, MemoryType
<1>2. unsummed \in Nat
  BY DEF Types, CountType
<1> QED BY <1>1, <1>2, Bounds, EmptySeq DEF MemoryLimit, Over

\* Between runs a session's start and its load make the memory as long as the limit at most.
LEMMA RequestBounded ==
    ASSUME Types, Bounded, UNCHANGED <<step, unsummed>>,
           Len(short') <= Loaded \/ short' = short, Len(short') \in Nat
    PROVE  Bounded'
BY LimitFacts DEF Bounded, Over, MemoryLimit

LEMMA RunBounded == Types /\ Bounded /\ Run => Bounded'
<1> SUFFICES ASSUME Types, Bounded, Run PROVE Bounded'
  OBVIOUS
<1> USE DEF Bounded, Over, MemoryLimit
<1>1. CASE NoAnswer
  BY <1>1, LimitFacts DEF NoAnswer, Answering, Finish, memory
<1>2. CASE Remember
  <2>1. /\ Answering /\ step' = "store" /\ short' = Append(short, runner) /\ unsummed' = unsummed
    BY <1>2 DEF Remember, GoOn
  <2>2. runner \in Questions /\ short \in Seq(Questions)
    BY <2>1 DEF Answering, Types, RunType, MemoryType
  <2>3. Len(short') = Len(short) + 1
    BY <2>1, <2>2, AppendProperties
  <2> QED BY <2>1, <2>3, LimitFacts DEF Answering
<1>3. CASE Store \/ AnswerAtOnce
  BY <1>3, LimitFacts DEF Store, AnswerAtOnce, GoOn, Finish, memory
<1>4. CASE Check
  BY <1>4, LimitFacts DEF Check, GoOn, Finish, memory
<1>5. ASSUME Raises, short' = short, step # "idle" PROVE Bounded'
  BY <1>5, LimitFacts DEF Raises, Finish
<1>6. CASE Summarise
  <2>1. step = "summarise" /\ short' = short
    BY <1>6 DEF Summarise, memory
  <2>2. CASE GoOn("archive") /\ unsummed' = unsummed
    BY <2>1, <2>2, LimitFacts DEF GoOn
  <2> QED BY <1>5, <1>6, <2>1, <2>2 DEF Summarise
<1>7. CASE Archive
  <2>1. step = "archive" /\ short' = short
    BY <1>7 DEF Archive
  <2>2. CASE GoOn("replace") /\ unsummed' = unsummed
    BY <2>1, <2>2, LimitFacts DEF GoOn
  <2> QED BY <1>5, <1>7, <2>1, <2>2 DEF Archive
<1>8. CASE Replace
  BY <1>8, LimitFacts DEF Replace, Finish
<1> QED BY <1>1, <1>2, <1>3, <1>4, <1>6, <1>7, <1>8 DEF Run

LEMMA NextBounded == Types /\ Bounded /\ [Next]_vars => Bounded'
<1> SUFFICES ASSUME Types, Bounded, [Next]_vars PROVE Bounded'
  OBVIOUS
<1>1. Types'
  BY NextTypes
<1>2. Len(short') \in Nat
  BY <1>1, LenProperties DEF Types, MemoryType
<1>3. ASSUME UNCHANGED <<step, unsummed>>, Len(short') <= Loaded \/ short' = short
      PROVE  Bounded'
  BY <1>2, <1>3, RequestBounded
<1>4. CASE UNCHANGED vars
  BY <1>3, <1>4 DEF vars, memory
<1>5. ASSUME NEW s \in Ids, Switch(s) PROVE Bounded'
  BY <1>3, <1>5, SwitchTypes DEF Switch
<1>6. ASSUME NEW s \in Ids, Delete(s) PROVE Bounded'
  BY <1>3, <1>6, DeleteTypes
<1>7. ASSUME NEW s \in Ids, NEW q \in Questions, Ask(q, s) PROVE Bounded'
  BY <1>3, <1>7 DEF Ask, memory
<1>8. CASE Create
  BY <1>3, <1>8, LimitFacts DEF Create, Insert
<1>9. ASSUME NEW q \in Questions, Enter(q) PROVE Bounded'
  BY <1>9, LimitFacts DEF Enter, memory, Bounded, Over, MemoryLimit, Types, RunType
<1> QED BY <1>4, <1>5, <1>6, <1>7, <1>8, <1>9, NextCases, RunBounded

\* The memory that every prompt carries never grows past its limit by more than the answer
\* in hand and the compressions that failed, for any limit, any number of rounds that a
\* switch loads, and any order of switches, deletions and answers.
THEOREM MemoryStaysBounded == Spec => []MemoryIsBounded
<1>1. Init => Bounded
  <2> SUFFICES ASSUME Init PROVE Bounded
    OBVIOUS
  <2>1. Len(short) = 0 /\ unsummed = 0 /\ step = "idle"
    BY EmptySeq DEF Init
  <2> QED BY <2>1, Bounds DEF Bounded, Over, MemoryLimit
<1>2. Types /\ Bounded /\ [Next]_vars => Bounded'
  BY NextBounded
<1>3. Types /\ Bounded => MemoryIsBounded
  BY LimitFacts DEF Bounded, MemoryIsBounded
<1> QED BY <1>1, <1>2, <1>3, TypesHold, PTL DEF Spec
=============================================================================
