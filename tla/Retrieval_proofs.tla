-------------------------- MODULE Retrieval_proofs --------------------------
(***************************************************************************)
(* Proofs about the ranking and the retrieval over it, for any collection, *)
(* any lists the two indexes return, any limits and thresholds.            *)
(***************************************************************************)
EXTENDS Retrieval, SequenceTheorems, FunctionTheorems, FiniteSetTheorems, WellFoundedInduction, TLAPS

-----------------------------------------------------------------------------
(* Sorting.                                                                 *)

LEMMA PrecedesIsTotal ==
    ASSUME NEW n \in Nat, NEW key \in [1..n -> Int]
    PROVE  /\ \A i \in 1..n : ~Precedes(key, i, i)
           /\ \A i, j \in 1..n : i # j => Precedes(key, i, j) \/ Precedes(key, j, i)
           /\ \A i, j, k \in 1..n : Precedes(key, i, j) /\ Precedes(key, j, k) => Precedes(key, i, k)
BY DEF Precedes

\* A place is given once, and each is.
LEMMA PlaceFacts ==
    ASSUME NEW n \in Nat, NEW key \in [1..n -> Int]
    PROVE  /\ \A j \in 1..n : Place(key, j) \in 1..n
           /\ \A i, j \in 1..n : Precedes(key, i, j) => Place(key, i) < Place(key, j)
           /\ \A p \in 1..n : \E j \in 1..n : Place(key, j) = p
<1> DEFINE Before(j) == {i \in 1..n : Precedes(key, i, j)}
<1>1. IsFiniteSet(1..n) /\ Cardinality(1..n) = n
  BY FS_Interval
<1>2. \A j \in 1..n : Place(key, j) = 1 + Cardinality(Before(j))
  BY DEF Place
<1>3. \A j \in 1..n : j \notin Before(j) /\ Before(j) \subseteq 1..n
  BY PrecedesIsTotal
<1>4. \A j \in 1..n : IsFiniteSet(Before(j)) /\ Cardinality(Before(j)) \in Nat
  BY <1>1, <1>3, FS_Subset, FS_CardinalityType
<1>5. ASSUME NEW j \in 1..n PROVE Place(key, j) \in 1..n
  <2>1. PICK B, N : B = Before(j) /\ N = 1..n
    OBVIOUS
  <2>2. B \in SUBSET N /\ B # N /\ IsFiniteSet(N) /\ Cardinality(N) = n
    BY <1>1, <1>3, <2>1
  <2>3. Cardinality(B) <= n /\ Cardinality(B) # n
    BY <2>2, FS_Subset
  <2>4. Cardinality(B) \in Nat /\ Place(key, j) = 1 + Cardinality(B)
    BY <1>2, <1>4, <2>1
  <2> HIDE DEF Before
  <2> QED BY <2>3, <2>4
<1>6. ASSUME NEW i \in 1..n, NEW j \in 1..n, Precedes(key, i, j)
      PROVE  Place(key, i) < Place(key, j)
  <2>1. PICK A, B : A = Before(i) /\ B = Before(j)
    OBVIOUS
  <2>2. A \in SUBSET B
    BY <1>6, <2>1, PrecedesIsTotal
  <2>3. i \in B /\ i \notin A
    BY <1>3, <1>6, <2>1
  <2>4. IsFiniteSet(B) /\ Cardinality(A) \in Nat /\ Cardinality(B) \in Nat
    BY <1>4, <2>1
  <2>5. Cardinality(A) <= Cardinality(B) /\ Cardinality(A) # Cardinality(B)
    BY <2>2, <2>3, <2>4, FS_Subset
  <2>6. Place(key, i) = 1 + Cardinality(A) /\ Place(key, j) = 1 + Cardinality(B)
    BY <1>2, <2>1
  <2> HIDE DEF Before
  <2> QED BY <2>4, <2>5, <2>6
<1> HIDE DEF Before
<1> DEFINE f == [j \in 1..n |-> Place(key, j)]
<1>7. f \in [1..n -> 1..n]
  BY <1>5
<1>8. ASSUME NEW i \in 1..n, NEW j \in 1..n, f[i] = f[j] PROVE i = j
  <2>1. Place(key, i) = Place(key, j) /\ Place(key, i) \in 1..n
    BY <1>5, <1>8
  <2>2. ~(Place(key, i) < Place(key, j)) /\ ~(Place(key, j) < Place(key, i))
    BY <2>1
  <2> QED BY <1>6, <2>2, PrecedesIsTotal
<1>9. f \in Injection(1..n, 1..n)
  BY <1>7, <1>8, Fun_IsInj
<1>10. \A p \in 1..n : \E j \in 1..n : f[j] = p
  <2> HIDE DEF f
  <2>1. f \in Surjection(1..n, 1..n)
    BY <1>1, <1>9, FS_Injection
  <2> QED BY <2>1 DEF Surjection
<1> QED BY <1>5, <1>6, <1>10

\* Descending is the sorted order: each index has its place in it, and a larger key, or an
\* equal one that was earlier, comes first.
LEMMA DescendingFacts ==
    ASSUME NEW n \in Nat, NEW key \in [1..n -> Int]
    PROVE  /\ Descending(key) \in [1..n -> 1..n]
           /\ \A p \in 1..n : Place(key, Descending(key)[p]) = p
           /\ \A j \in 1..n : Descending(key)[Place(key, j)] = j
<1>1. \A p \in 1..n : Descending(key)[p] = CHOOSE j \in 1..n : Place(key, j) = p
  BY DEF Descending
<1>2. \A p \in 1..n : Descending(key)[p] \in 1..n /\ Place(key, Descending(key)[p]) = p
  BY <1>1, PlaceFacts
<1>3. Descending(key) \in [1..n -> 1..n]
  BY <1>2 DEF Descending
<1>4. ASSUME NEW j \in 1..n PROVE Descending(key)[Place(key, j)] = j
  <2>1. PICK p \in 1..n : p = Place(key, j)
    BY PlaceFacts
  <2>2. PICK i \in 1..n : i = Descending(key)[p] /\ Place(key, i) = p
    BY <1>2
  <2>3. ~(Place(key, i) < Place(key, j)) /\ ~(Place(key, j) < Place(key, i))
    BY <2>1, <2>2
  <2>4. i = j
    BY <2>3, PlaceFacts, PrecedesIsTotal
  <2> QED BY <2>1, <2>2, <2>4
<1> QED BY <1>2, <1>3, <1>4

-----------------------------------------------------------------------------
(* Sequences that grow along another.                                       *)

\* A set of natural numbers that is not empty has a least element.
LEMMA LeastNat ==
    ASSUME NEW T \in SUBSET Nat, T # {}
    PROVE  \E m \in T : \A k \in T : m <= k
<1> DEFINE R == OpToRel(<, Nat)
<1>1. IsWellFoundedOn(R, Nat)
  BY NatLessThanWellFounded
<1>2. \A a, b \in Nat : a < b => <<a, b>> \in R
  BY DEF OpToRel
<1> HIDE DEF R
<1>3. PICK m \in T : \A y \in T : ~(<<y, m>> \in R)
  BY <1>1, WFMin
<1>4. ASSUME NEW k \in T PROVE m <= k
  <2>1. ~(k < m)
    BY <1>2, <1>3
  <2> QED BY <2>1
<1> QED BY <1>4

\* Induction up to a number.
LEMMA UpTo ==
    ASSUME NEW m \in Nat, NEW T \in SUBSET (0..m), 0 \in T, \A n \in 1..m : n - 1 \in T => n \in T
    PROVE  \A n \in 0..m : n \in T
<1> DEFINE Bad == (0..m) \ T
<1> SUFFICES ASSUME Bad # {} PROVE FALSE
  OBVIOUS
<1>1. Bad \in SUBSET Nat
  OBVIOUS
<1>2. PICK n \in Bad : \A k \in Bad : n <= k
  BY <1>1, LeastNat
<1>3. n \in 1..m /\ n - 1 \in 0..m /\ n - 1 \notin Bad
  BY <1>2
<1>4. n - 1 \in T
  BY <1>3
<1> QED BY <1>3, <1>4

LEMMA AppendFacts ==
    ASSUME NEW S, NEW s \in Seq(S), NEW c \in S
    PROVE  LET u == Append(s, c)
           IN  /\ u \in Seq(S) /\ u # <<>> /\ Len(u) = Len(s) + 1 /\ u[Len(s) + 1] = c
               /\ DOMAIN u = 1..(Len(s) + 1) /\ Range(u) = Range(s) \cup {c}
               /\ \A i \in 1..Len(s) : u[i] = s[i]
               /\ IsInjective(s) /\ c \notin Range(s) => IsInjective(u)
<1> DEFINE u == Append(s, c)
<1>1. Len(s) \in Nat /\ DOMAIN s = 1..Len(s)
  BY LenProperties
<1>2. /\ u \in Seq(S) /\ u # <<>> /\ Len(u) = Len(s) + 1
      /\ (\A i \in 1..Len(s) : u[i] = s[i]) /\ u[Len(s) + 1] = c
  BY AppendProperties
<1> HIDE DEF u
<1>3. DOMAIN u = 1..(Len(s) + 1)
  BY <1>2, LenProperties
<1>4. Range(u) = Range(s) \cup {c}
  <2>1. \A i \in DOMAIN u : u[i] \in Range(s) \cup {c}
    BY <1>1, <1>2, <1>3 DEF Range
  <2>2. c \in Range(u)
    BY <1>1, <1>2, <1>3 DEF Range
  <2>3. \A i \in DOMAIN s : i \in DOMAIN u /\ u[i] = s[i]
    BY <1>1, <1>2, <1>3
  <2> QED BY <2>1, <2>2, <2>3 DEF Range
<1>5. ASSUME IsInjective(s), c \notin Range(s) PROVE IsInjective(u)
  <2>1. \A i \in 1..Len(s) : u[i] # c
    BY <1>1, <1>2, <1>5 DEF Range
  <2>2. \A i, j \in 1..Len(s) : u[i] = u[j] => i = j
    BY <1>1, <1>2, <1>5 DEF IsInjective
  <2> QED BY <1>1, <1>2, <1>3, <2>1, <2>2 DEF IsInjective
<1> QED BY <1>2, <1>3, <1>4, <1>5 DEF u

\* What h makes of each further element of t, from s on.
Folds(g, A, s, t, h) ==
    /\ g \in [0..Len(t) -> A] /\ g[0] = s
    /\ \A n \in 1..Len(t) : g[n] = h[<<g[n - 1], t[n]>>]

LEMMA FoldExists ==
    ASSUME NEW A, NEW S, NEW s \in A, NEW t \in Seq(S), NEW h,
           \A a \in A : \A c \in S : h[<<a, c>>] \in A
    PROVE  \E g : Folds(g, A, s, t, h)
<1> DEFINE m == Len(t)
           Upto(g, k) == /\ g \in [0..k -> A] /\ g[0] = s
                         /\ \A n \in 1..k : g[n] = h[<<g[n - 1], t[n]>>]
           T == {k \in 0..m : \E g : Upto(g, k)}
<1>1. m \in Nat /\ \A n \in 1..m : t[n] \in S
  BY LenProperties
<1>2. 0 \in T
  <2>1. Upto([n \in 0..0 |-> s], 0)
    OBVIOUS
  <2>2. \E g : Upto(g, 0)
    BY <2>1
  <2> HIDE DEF Upto
  <2> QED BY <1>1, <2>2
<1>3. ASSUME NEW k \in 1..m, k - 1 \in T PROVE k \in T
  <2>1. PICK g : Upto(g, k - 1)
    BY <1>3
  <2>2. k - 1 \in 0..(k - 1) /\ k \in Nat
    BY <1>1
  <2>3. g[k - 1] \in A /\ t[k] \in S
    BY <1>1, <2>1, <2>2
  <2>4. PICK last \in A : last = h[<<g[k - 1], t[k]>>]
    BY <2>3
  <2> DEFINE f == [n \in 0..k |-> IF n = k THEN last ELSE g[n]]
  <2>5. \A n \in 0..k : n # k => n \in 0..(k - 1)
    BY <2>2
  <2>6. f \in [0..k -> A]
    BY <2>1, <2>5
  <2>7. f[0] = s
    BY <2>1, <2>2, <2>5
  <2>8. ASSUME NEW n \in 1..k PROVE f[n] = h[<<f[n - 1], t[n]>>]
    <3>1. n - 1 \in 0..k /\ n - 1 # k /\ n \in 0..k
      BY <2>2
    <3>2. f[n - 1] = g[n - 1]
      BY <3>1
    <3>3. CASE n = k
      BY <2>4, <3>1, <3>2, <3>3
    <3>4. CASE n # k
      <4>1. n \in 1..(k - 1) /\ f[n] = g[n]
        BY <2>2, <3>1, <3>4
      <4> QED BY <2>1, <3>2, <4>1
    <3> QED BY <3>3, <3>4
  <2> HIDE DEF f
  <2>9. Upto(f, k)
    BY <2>6, <2>7, <2>8
  <2>10. \E g1 : Upto(g1, k)
    BY <2>9
  <2> HIDE DEF Upto
  <2> QED BY <1>1, <2>10
<1>4. m \in T
  <2> HIDE DEF T
  <2>1. T \in SUBSET (0..m)
    BY DEF T
  <2>2. \A n \in 0..m : n \in T
    BY <1>1, <1>2, <1>3, <2>1, UpTo
  <2> QED BY <1>1, <2>2
<1>5. PICK g : Upto(g, m)
  BY <1>4
<1>6. Folds(g, A, s, t, h)
  BY <1>5 DEF Folds
<1> QED BY <1>6

\* Each element of t is added or not.
Grows(g, t) ==
    /\ g \in [0..Len(t) -> Seq(Chunks)]
    /\ \A n \in 1..Len(t) : g[n] = g[n - 1] \/ g[n] = Append(g[n - 1], t[n])

LEMMA GrowsFacts ==
    ASSUME NEW t \in Seq(Chunks), NEW g, Grows(g, t), NEW k \in 0..Len(t), NEW e \in 0..Len(t), k <= e
    PROVE  /\ Range(g[k]) \subseteq Range(g[e]) /\ Len(g[k]) <= Len(g[e])
           /\ \A i \in 1..Len(g[k]) : g[e][i] = g[k][i]
           /\ Range(g[e]) \subseteq Range(g[k]) \cup Range(t)
           /\ /\ IsInjective(g[k])
              /\ \A n \in 1..Len(t) : g[n] = Append(g[n - 1], t[n]) => t[n] \notin Range(g[n - 1])
              => IsInjective(g[e])
<1> DEFINE m == Len(t)
           Once == \A n \in 1..m : g[n] = Append(g[n - 1], t[n]) => t[n] \notin Range(g[n - 1])
           P(n) == /\ Range(g[k]) \subseteq Range(g[n]) /\ Len(g[k]) <= Len(g[n])
                   /\ \A i \in 1..Len(g[k]) : g[n][i] = g[k][i]
                   /\ Range(g[n]) \subseteq Range(g[k]) \cup Range(t)
                   /\ IsInjective(g[k]) /\ Once => IsInjective(g[n])
           T == {n \in 0..m : n >= k => P(n)}
<1>1. m \in Nat /\ DOMAIN t = 1..m /\ \A n \in 1..m : t[n] \in Chunks
  BY LenProperties
<1>2. \A n \in 0..m : g[n] \in Seq(Chunks) /\ Len(g[n]) \in Nat /\ DOMAIN g[n] = 1..Len(g[n])
  BY LenProperties DEF Grows
<1>3. P(k)
  BY <1>2
<1>4. 0 \in T
  <2>1. 0 \in 0..m /\ (0 >= k => k = 0)
    BY <1>1
  <2> QED BY <1>3, <2>1
<1>5. ASSUME NEW n \in 1..m, n - 1 \in T PROVE n \in T
  <2>1. n \in 0..m /\ n - 1 \in 0..m
    BY <1>1
  <2>2. CASE n <= k
    BY <1>3, <2>1, <2>2
  <2>3. CASE n > k
    <3>1. P(n - 1)
      <4>1. n - 1 >= k
        BY <1>1, <2>3
      <4> HIDE DEF P
      <4> QED BY <1>5, <4>1
    <3>2. CASE g[n] = g[n - 1]
      BY <2>1, <3>1, <3>2
    <3>3. CASE g[n] # g[n - 1]
      <4>1. PICK s, c, u : /\ s = g[n - 1] /\ c = t[n] /\ u = Append(s, c)
                        /\ s \in Seq(Chunks) /\ c \in Chunks
        BY <1>1, <1>2, <2>1
      <4>2. g[n] = u /\ g[n] = Append(g[n - 1], t[n])
        BY <3>3, <4>1 DEF Grows
      <4>3. /\ Len(u) = Len(s) + 1 /\ Range(u) = Range(s) \cup {c}
            /\ \A i \in 1..Len(s) : u[i] = s[i]
            /\ IsInjective(s) /\ c \notin Range(s) => IsInjective(u)
        BY <4>1, AppendFacts
      <4>4. c \in Range(t)
        BY <1>1, <4>1 DEF Range
      <4>5. /\ Range(g[k]) \subseteq Range(s) /\ Len(g[k]) <= Len(s)
            /\ \A i \in 1..Len(g[k]) : s[i] = g[k][i]
            /\ Range(s) \subseteq Range(g[k]) \cup Range(t)
            /\ IsInjective(g[k]) /\ Once => IsInjective(s)
        BY <3>1, <4>1
      <4>6. Len(s) \in Nat /\ Len(g[k]) \in Nat
        BY <1>2, <2>1, <4>1
      <4>7. /\ Range(g[k]) \subseteq Range(u) /\ Len(g[k]) <= Len(u)
            /\ Range(u) \subseteq Range(g[k]) \cup Range(t)
        BY <4>3, <4>4, <4>5, <4>6
      <4>8. \A i \in 1..Len(g[k]) : u[i] = g[k][i]
        BY <4>3, <4>5, <4>6
      <4>9. IsInjective(g[k]) /\ Once => IsInjective(u)
        BY <4>1, <4>2, <4>3, <4>5
      <4>10. P(n)
        BY <4>2, <4>7, <4>8, <4>9
      <4> QED BY <2>1, <4>10
    <3> QED BY <3>2, <3>3
  <2> QED BY <2>1, <2>2, <2>3
<1>6. e \in T
  <2> HIDE DEF T
  <2>1. T \in SUBSET (0..m)
    BY DEF T
  <2>2. \A n \in 0..m : n \in T
    BY <1>1, <1>4, <1>5, <2>1, UpTo
  <2> QED BY <2>2
<1>7. P(e)
  BY <1>6
<1> QED BY <1>7

-----------------------------------------------------------------------------
(* The fusion.                                                              *)

LEMMA Limits ==
    /\ RrfK \in Nat \ {0} /\ Multiplier \in Nat \ {0} /\ MaxPerDoc \in Nat \ {0}
    /\ MaxChunksPerDoc \in Nat \ {0} /\ MaxList \in Nat \ {0} /\ TopK \in Nat \ {0}
    /\ DOMAIN Doc = Chunks /\ DOMAIN Section = Chunks /\ DOMAIN Parent = Chunks
    /\ Matching \subseteq Chunks
BY RankingAssumption, RetrievalAssumption

LEMMA ListFacts ==
    ASSUME NEW S \in SUBSET Chunks, NEW l \in Lists(S)
    PROVE  /\ l \in Seq(Chunks) /\ Len(l) \in 0..MaxList /\ DOMAIN l = 1..Len(l)
           /\ IsInjective(l) /\ Range(l) \subseteq S
<1>1. PICK n \in 0..MaxList : l \in [1..n -> S] /\ IsInjective(l)
  BY DEF Lists
<1>2. n \in Nat /\ l \in [1..n -> Chunks]
  BY <1>1, Limits
<1>3. l \in Seq(Chunks)
  BY <1>2, SeqDef
<1>4. DOMAIN l = 1..n /\ DOMAIN l = 1..Len(l) /\ Len(l) \in Nat
  BY <1>2, <1>3, LenProperties
<1>5. Len(l) = n
  BY <1>2, <1>4
<1>6. Range(l) \subseteq S
  BY <1>1 DEF Range
<1> QED BY <1>1, <1>3, <1>4, <1>5, <1>6

LEMMA RankFacts ==
    ASSUME NEW l, IsInjective(l)
    PROVE  /\ \A c \in Range(l) : Rank(l, c) \in DOMAIN l /\ l[Rank(l, c)] = c
           /\ \A i \in DOMAIN l : Rank(l, l[i]) = i
<1>1. ASSUME NEW c \in Range(l) PROVE Rank(l, c) \in DOMAIN l /\ l[Rank(l, c)] = c
  BY DEF Rank, Range
<1>2. ASSUME NEW i \in DOMAIN l PROVE Rank(l, l[i]) = i
  <2>1. l[i] \in Range(l)
    BY DEF Range
  <2>2. PICK c, j : c = l[i] /\ j = Rank(l, c)
    OBVIOUS
  <2>3. j \in DOMAIN l /\ l[j] = c
    BY <1>1, <2>1, <2>2
  <2> QED BY <2>2, <2>3 DEF IsInjective
<1> QED BY <1>1, <1>2

\* Products and quotients of natural numbers.
LEMMA TimesGrows ==
    ASSUME NEW a \in Nat, NEW b \in Nat, NEW c \in Nat
    PROVE  /\ a <= b => a * c <= b * c
           /\ a < b /\ c > 0 => a * c < b * c
           /\ a * c \in Nat /\ a * c = c * a
OBVIOUS

LEMMA DivFacts ==
    ASSUME NEW a \in Nat, NEW d \in Nat \ {0}
    PROVE  /\ a \div d \in Nat /\ a % d \in 0..(d - 1) /\ a = d * (a \div d) + (a % d)
OBVIOUS

LEMMA DivExact ==
    ASSUME NEW q \in Nat, NEW d \in Nat \ {0}
    PROVE  (q * d) \div d = q
<1>1. PICK a \in Nat : a = q * d
  BY TimesGrows
<1>2. PICK p \in Nat, r \in 0..(d - 1) : p = a \div d /\ a = d * p + r
  BY DivFacts
<1>3. CASE p < q
  <2>1. (p + 1) * d <= q * d
    BY <1>3, TimesGrows
  <2>2. (p + 1) * d = d * p + d
    OBVIOUS
  <2>3. d * p \in Nat /\ a < d * p + d
    BY <1>2
  <2> QED BY <1>1, <2>1, <2>2, <2>3
<1>4. CASE q < p
  <2>1. (q + 1) * d <= p * d
    BY <1>4, TimesGrows
  <2>2. (q + 1) * d = q * d + d /\ p * d = d * p
    OBVIOUS
  <2> QED BY <1>1, <1>2, <2>1, <2>2
<1> QED BY <1>1, <1>2, <1>3, <1>4

\* Whole is a multiple of every divisor.
LEMMA WholeFacts == \A r \in 1..MaxList : \E q \in Nat \ {0} : Whole = q * (RrfK + r)
<1> DEFINE m == MaxList
           Is(p) == p = [n \in 0..m |-> IF n = 0 THEN 1 ELSE p[n - 1] * (RrfK + n)]
<1>1. m \in Nat /\ RrfK \in Nat
  BY Limits
<1>2. \E p : Is(p)
  <2> DEFINE t == [n \in 1..m |-> RrfK + n]
             h == [x \in Nat \X Nat |-> x[1] * x[2]]
  <2>1. t \in Seq(Nat) /\ Len(t) = m
    <3>1. t \in [1..m -> Nat]
      BY <1>1
    <3>2. t \in Seq(Nat)
      BY <1>1, <3>1, SeqDef
    <3>3. DOMAIN t = 1..m /\ DOMAIN t = 1..Len(t) /\ Len(t) \in Nat
      BY <3>2, LenProperties
    <3> QED BY <1>1, <3>2, <3>3
  <2>2. h \in [Nat \X Nat -> Nat]
    BY TimesGrows
  <2>3. \A n \in 1..m : t[n] = RrfK + n /\ t[n] \in Nat
    BY <1>1
  <2>4. \A a, d \in Nat : h[<<a, d>>] = a * d
    OBVIOUS
  <2> HIDE DEF t, h
  <2>5. PICK p : Folds(p, Nat, 1, t, h)
    <3>1. \A a \in Nat : \A c \in Nat : h[<<a, c>>] \in Nat
      BY <2>2
    <3> QED BY <2>1, <3>1, FoldExists
  <2>50. /\ p \in [0..Len(t) -> Nat] /\ p[0] = 1
         /\ \A n \in 1..Len(t) : p[n] = h[<<p[n - 1], t[n]>>]
    BY <2>5 DEF Folds
  <2>6. \A n \in 0..m : p[n] = IF n = 0 THEN 1 ELSE p[n - 1] * (RrfK + n)
    <3> SUFFICES ASSUME NEW n \in 0..m PROVE p[n] = IF n = 0 THEN 1 ELSE p[n - 1] * (RrfK + n)
      OBVIOUS
    <3>1. CASE n = 0
      BY <2>50, <3>1
    <3>2. CASE n # 0
      <4>1. n \in 1..Len(t) /\ n \in 1..m
        BY <1>1, <2>1, <3>2
      <4>2. PICK a \in Nat, d \in Nat : a = p[n - 1] /\ d = t[n]
        BY <1>1, <2>1, <2>3, <2>50, <4>1
      <4>3. p[n] = a * d
        BY <2>4, <2>50, <4>1, <4>2
      <4> QED BY <2>3, <3>2, <4>1, <4>2, <4>3
    <3> QED BY <3>1, <3>2
  <2>7. Is(p)
    BY <2>1, <2>50, <2>6
  <2> QED BY <2>7
<1>3. PICK p : Is(p) /\ Whole = p[m]
  <2> DEFINE f == CHOOSE p : Is(p)
  <2>1. Is(f)
    BY <1>2
  <2>2. Whole = f[m]
    BY DEF Whole
  <2> QED BY <2>1, <2>2
<1>4. \A n \in 0..m : p[n] = IF n = 0 THEN 1 ELSE p[n - 1] * (RrfK + n)
  BY <1>3
<1> DEFINE T == {n \in 0..m : /\ p[n] \in Nat \ {0}
                              /\ \A r \in 1..n : \E q \in Nat \ {0} : p[n] = q * (RrfK + r)}
<1>5. 0 \in T
  BY <1>1, <1>4
<1>6. ASSUME NEW n \in 1..m, n - 1 \in T PROVE n \in T
  <2>1. PICK a \in Nat \ {0}, d \in Nat \ {0} : a = p[n - 1] /\ d = RrfK + n
    BY <1>1, <1>6
  <2>2. n \in 0..m /\ n # 0 /\ p[n] = a * d
    BY <1>1, <1>4, <2>1
  <2>3. a * d \in Nat \ {0}
    OBVIOUS
  <2>4. ASSUME NEW r \in 1..n PROVE \E q \in Nat \ {0} : p[n] = q * (RrfK + r)
    <3>1. CASE r = n
      BY <2>1, <2>2, <3>1
    <3>2. CASE r # n
      <4>1. r \in 1..(n - 1)
        BY <3>2
      <4>2. PICK q \in Nat \ {0} : p[n - 1] = q * (RrfK + r)
        BY <1>6, <4>1
      <4>3. PICK e \in Nat : e = RrfK + r
        BY <1>1
      <4>4. a * d = (q * d) * e
        BY <2>1, <4>2, <4>3
      <4>5. q * d \in Nat \ {0}
        OBVIOUS
      <4> QED BY <2>2, <4>3, <4>4, <4>5
    <3> QED BY <3>1, <3>2
  <2> QED BY <2>2, <2>3, <2>4
<1>7. m \in T
  <2> HIDE DEF T
  <2>1. T \in SUBSET (0..m)
    BY DEF T
  <2>2. \A n \in 0..m : n \in T
    BY <1>1, <1>5, <1>6, <2>1, UpTo
  <2> QED BY <1>1, <2>2
<1> QED BY <1>3, <1>7

\* A better rank weighs more.
LEMMA WeightFalls ==
    ASSUME NEW r \in 1..MaxList
    PROVE  Weight(r) \in Nat \ {0} /\ \A k \in 1..MaxList : r < k => Weight(k) < Weight(r)
<1>1. RrfK \in Nat
  BY Limits
<1>2. \A k \in 1..MaxList : \E q \in Nat \ {0} : Weight(k) = q /\ Whole = q * (RrfK + k)
  <2> SUFFICES ASSUME NEW k \in 1..MaxList
               PROVE  \E q \in Nat \ {0} : Weight(k) = q /\ Whole = q * (RrfK + k)
    OBVIOUS
  <2>1. PICK q \in Nat \ {0} : Whole = q * (RrfK + k)
    BY WholeFacts
  <2>2. PICK d \in Nat \ {0} : d = RrfK + k
    BY <1>1
  <2>3. (q * d) \div d = q
    BY DivExact
  <2> QED BY <2>1, <2>2, <2>3 DEF Weight
<1>3. ASSUME NEW k \in 1..MaxList, r < k PROVE Weight(k) < Weight(r)
  <2>1. PICK q \in Nat \ {0}, p \in Nat \ {0} :
           Weight(r) = q /\ Weight(k) = p /\ q * (RrfK + r) = p * (RrfK + k)
    BY <1>2
  <2>2. PICK d \in Nat, e \in Nat : d = RrfK + r /\ e = RrfK + k /\ d < e
    BY <1>1, <1>3
  <2>3. q * d = p * e
    BY <2>1, <2>2
  <2>4. CASE q <= p
    <3>1. q * d <= p * d
      BY <2>4, TimesGrows
    <3>2. d * p < e * p
      BY <2>2, TimesGrows
    <3>3. p * d = d * p /\ p * e = e * p /\ p * d \in Nat /\ p * e \in Nat
      OBVIOUS
    <3> QED BY <2>3, <3>1, <3>2, <3>3
  <2> QED BY <2>1, <2>4
<1> QED BY <1>2, <1>3

-----------------------------------------------------------------------------
(* The loops over a list of chunks.                                         *)

\* What follows the definition of the fold, where it is in A, is the fold.
LEMMA FoldTyped ==
    ASSUME NEW A, NEW S, NEW s \in A, NEW t \in Seq(S), NEW h,
           \A a \in A : \A c \in S : h[<<a, c>>] \in A,
           NEW f, f = [n \in 0..Len(t) |-> f[n]], f[0] = s,
           \A n \in 1..Len(t) : f[n - 1] \in A => f[n] = h[<<f[n - 1], t[n]>>]
    PROVE  Folds(f, A, s, t, h)
<1> DEFINE m == Len(t)
           T == {n \in 0..m : f[n] \in A}
<1>1. m \in Nat /\ \A n \in 1..m : t[n] \in S
  BY LenProperties
<1>2. 0 \in T
  BY <1>1
<1>3. ASSUME NEW n \in 1..m, n - 1 \in T PROVE n \in T
  <2>1. n \in 0..m /\ f[n - 1] \in A /\ t[n] \in S
    BY <1>1, <1>3
  <2>2. PICK a \in A, c \in S : a = f[n - 1] /\ c = t[n]
    BY <2>1
  <2>3. f[n] = h[<<a, c>>]
    BY <2>1, <2>2
  <2> QED BY <2>1, <2>3
<1>4. \A n \in 0..m : n \in T
  <2> HIDE DEF T
  <2>1. T \in SUBSET (0..m)
    BY DEF T
  <2> QED BY <1>1, <1>2, <1>3, <2>1, UpTo
<1>5. \A n \in 0..m : f[n] \in A
  BY <1>4
<1>6. f \in [0..m -> A]
  BY <1>5
<1>7. \A n \in 1..m : n - 1 \in 0..m
  BY <1>1
<1> QED BY <1>5, <1>6, <1>7 DEF Folds

\* A chunk once more is left out.
Joining(g, s, t) ==
    /\ Grows(g, t) /\ g[0] = s
    /\ \A n \in 1..Len(t) : g[n] = Joined(g[n - 1], t[n])

LEMMA JoiningExists ==
    ASSUME NEW s \in Seq(Chunks), NEW t \in Seq(Chunks)
    PROVE  \E g : Joining(g, s, t) /\ AppendUnique(s, t) = g[Len(t)]
<1> DEFINE m == Len(t)
           Is(g) == g = [n \in 0..m |-> IF n = 0 THEN s ELSE Joined(g[n - 1], t[n])]
           h == [x \in Seq(Chunks) \X Chunks |-> Joined(x[1], x[2])]
<1>1. m \in Nat /\ \A n \in 1..m : t[n] \in Chunks
  BY LenProperties
<1>2. \A a \in Seq(Chunks) : \A c \in Chunks : h[<<a, c>>] = Joined(a, c) /\ Joined(a, c) \in Seq(Chunks)
  BY AppendProperties DEF Joined
<1>3. \A a \in Seq(Chunks) : \A c \in Chunks : h[<<a, c>>] \in Seq(Chunks)
  BY <1>2
<1> HIDE DEF h
<1>4. \E g : Is(g)
  <2>1. PICK g : Folds(g, Seq(Chunks), s, t, h)
    BY <1>3, FoldExists
  <2>2. /\ g \in [0..m -> Seq(Chunks)] /\ g[0] = s
        /\ \A n \in 1..m : g[n] = h[<<g[n - 1], t[n]>>]
    BY <2>1 DEF Folds
  <2>3. ASSUME NEW n \in 0..m, n # 0 PROVE g[n] = Joined(g[n - 1], t[n])
    <3>1. n \in 1..m /\ n - 1 \in 0..m
      BY <1>1, <2>3
    <3> QED BY <1>1, <1>2, <2>2, <3>1
  <2>4. g = [n \in 0..m |-> IF n = 0 THEN s ELSE Joined(g[n - 1], t[n])]
    BY <2>2, <2>3
  <2> QED BY <2>4
<1>5. PICK g : Is(g) /\ AppendUnique(s, t) = g[m]
  <2> DEFINE f == CHOOSE g : Is(g)
  <2>1. Is(f)
    BY <1>4
  <2>2. AppendUnique(s, t) = f[m]
    BY DEF AppendUnique
  <2> QED BY <2>1, <2>2
<1>6. \A n \in 0..m : g[n] = IF n = 0 THEN s ELSE Joined(g[n - 1], t[n])
  BY <1>5
<1>7. g = [n \in 0..m |-> g[n]] /\ g[0] = s
  BY <1>1, <1>5, <1>6
<1>8. \A n \in 1..m : g[n] = Joined(g[n - 1], t[n])
  BY <1>1, <1>6
<1>9. \A n \in 1..m : g[n - 1] \in Seq(Chunks) => g[n] = h[<<g[n - 1], t[n]>>]
  BY <1>1, <1>2, <1>8
<1>10. Folds(g, Seq(Chunks), s, t, h)
  BY <1>3, <1>7, <1>9, FoldTyped
<1>11. Grows(g, t)
  BY <1>8, <1>10 DEF Folds, Grows, Joined
<1> QED BY <1>5, <1>7, <1>8, <1>11 DEF Joining

\* One pass of the three.
Passing(g, s, t, target, p, c) ==
    /\ Grows(g, t) /\ g[0] = s
    /\ \A n \in 1..Len(t) : g[n] = Taken(g[n - 1], t[n], target, p, c)

LEMMA PassingExists ==
    ASSUME NEW s \in Seq(Chunks), NEW t \in Seq(Chunks), NEW top, NEW p, NEW c, NEW target, target = Target(t, top)
    PROVE  \E g : Passing(g, s, t, target, p, c) /\ Pass(s, t, top, p, c) = g[Len(t)]
<1> DEFINE m == Len(t)
           Is(g) == g = [n \in 0..m |-> IF n = 0 THEN s ELSE Taken(g[n - 1], t[n], target, p, c)]
           h == [x \in Seq(Chunks) \X Chunks |-> Taken(x[1], x[2], target, p, c)]
<1>1. m \in Nat /\ \A n \in 1..m : t[n] \in Chunks
  BY LenProperties
<1>2. \A a \in Seq(Chunks) : \A d \in Chunks : h[<<a, d>>] = Taken(a, d, target, p, c) /\ Taken(a, d, target, p, c) \in Seq(Chunks)
  BY AppendProperties DEF Taken
<1>3. \A a \in Seq(Chunks) : \A d \in Chunks : h[<<a, d>>] \in Seq(Chunks)
  BY <1>2
<1> HIDE DEF h
<1>4. \E g : Is(g)
  <2>1. PICK g : Folds(g, Seq(Chunks), s, t, h)
    BY <1>3, FoldExists
  <2>2. /\ g \in [0..m -> Seq(Chunks)] /\ g[0] = s
        /\ \A n \in 1..m : g[n] = h[<<g[n - 1], t[n]>>]
    BY <2>1 DEF Folds
  <2>3. ASSUME NEW n \in 0..m, n # 0 PROVE g[n] = Taken(g[n - 1], t[n], target, p, c)
    <3>1. n \in 1..m /\ n - 1 \in 0..m
      BY <1>1, <2>3
    <3> QED BY <1>1, <1>2, <2>2, <3>1
  <2>4. g = [n \in 0..m |-> IF n = 0 THEN s ELSE Taken(g[n - 1], t[n], target, p, c)]
    BY <2>2, <2>3
  <2> QED BY <2>4
<1>5. PICK g : Is(g) /\ Pass(s, t, top, p, c) = g[m]
  <2> DEFINE f == CHOOSE g : Is(g)
  <2>1. Is(f)
    BY <1>4
  <2>2. Pass(s, t, top, p, c) = f[m]
    BY DEF Pass
  <2> QED BY <2>1, <2>2
<1>6. \A n \in 0..m : g[n] = IF n = 0 THEN s ELSE Taken(g[n - 1], t[n], target, p, c)
  BY <1>5
<1>7. g = [n \in 0..m |-> g[n]] /\ g[0] = s
  BY <1>1, <1>5, <1>6
<1>8. \A n \in 1..m : g[n] = Taken(g[n - 1], t[n], target, p, c)
  BY <1>1, <1>6
<1>9. \A n \in 1..m : g[n - 1] \in Seq(Chunks) => g[n] = h[<<g[n - 1], t[n]>>]
  BY <1>1, <1>2, <1>8
<1>10. Folds(g, Seq(Chunks), s, t, h)
  BY <1>3, <1>7, <1>9, FoldTyped
<1>11. Grows(g, t)
  BY <1>8, <1>10 DEF Folds, Grows, Taken
<1> QED BY <1>5, <1>7, <1>8, <1>11 DEF Passing

\* The list that is returned.
Capping(g, t, top) ==
    /\ Grows(g, t) /\ g[0] = <<>>
    /\ \A n \in 1..Len(t) : g[n] = Listed(g[n - 1], t[n], top)

LEMMA CappingExists ==
    ASSUME NEW t \in Seq(Chunks), NEW top
    PROVE  \E g : Capping(g, t, top) /\ Cap(t, top) = g[Len(t)]
<1> DEFINE m == Len(t)
           Is(g) == g = [n \in 0..m |-> IF n = 0 THEN <<>> ELSE Listed(g[n - 1], t[n], top)]
           h == [x \in Seq(Chunks) \X Chunks |-> Listed(x[1], x[2], top)]
<1>1. <<>> \in Seq(Chunks) /\ m \in Nat /\ \A n \in 1..m : t[n] \in Chunks
  BY LenProperties, EmptySeq
<1>2. \A a \in Seq(Chunks) : \A c \in Chunks : h[<<a, c>>] = Listed(a, c, top) /\ Listed(a, c, top) \in Seq(Chunks)
  BY AppendProperties DEF Listed
<1>3. \A a \in Seq(Chunks) : \A c \in Chunks : h[<<a, c>>] \in Seq(Chunks)
  BY <1>2
<1> HIDE DEF h
<1>4. \E g : Is(g)
  <2>1. PICK g : Folds(g, Seq(Chunks), <<>>, t, h)
    BY <1>1, <1>3, FoldExists
  <2>2. /\ g \in [0..m -> Seq(Chunks)] /\ g[0] = <<>>
        /\ \A n \in 1..m : g[n] = h[<<g[n - 1], t[n]>>]
    BY <2>1 DEF Folds
  <2>3. ASSUME NEW n \in 0..m, n # 0 PROVE g[n] = Listed(g[n - 1], t[n], top)
    <3>1. n \in 1..m /\ n - 1 \in 0..m
      BY <1>1, <2>3
    <3> QED BY <1>1, <1>2, <2>2, <3>1
  <2>4. g = [n \in 0..m |-> IF n = 0 THEN <<>> ELSE Listed(g[n - 1], t[n], top)]
    BY <2>2, <2>3
  <2> QED BY <2>4
<1>5. PICK g : Is(g) /\ Cap(t, top) = g[m]
  <2> DEFINE f == CHOOSE g : Is(g)
  <2>1. Is(f)
    BY <1>4
  <2>2. Cap(t, top) = f[m]
    BY DEF Cap
  <2> QED BY <2>1, <2>2
<1>6. \A n \in 0..m : g[n] = IF n = 0 THEN <<>> ELSE Listed(g[n - 1], t[n], top)
  BY <1>5
<1>7. g = [n \in 0..m |-> g[n]] /\ g[0] = <<>>
  BY <1>1, <1>5, <1>6
<1>8. \A n \in 1..m : g[n] = Listed(g[n - 1], t[n], top)
  BY <1>1, <1>6
<1>9. \A n \in 1..m : g[n - 1] \in Seq(Chunks) => g[n] = h[<<g[n - 1], t[n]>>]
  BY <1>1, <1>2, <1>8
<1>10. Folds(g, Seq(Chunks), <<>>, t, h)
  BY <1>1, <1>3, <1>7, <1>9, FoldTyped
<1>11. Grows(g, t)
  BY <1>8, <1>10 DEF Folds, Grows, Listed
<1> QED BY <1>5, <1>7, <1>8, <1>11 DEF Capping

\* Those with the words of the question.
Filtering(g, t, words) ==
    /\ Grows(g, t) /\ g[0] = <<>>
    /\ \A n \in 1..Len(t) : g[n] = Kept(g[n - 1], t[n], words)

LEMMA FilteringExists ==
    ASSUME NEW t \in Seq(Chunks), NEW words
    PROVE  \E g : Filtering(g, t, words) /\ Filtered(t, words) = IF g[Len(t)] = <<>> THEN t ELSE g[Len(t)]
<1> DEFINE m == Len(t)
           Is(g) == g = [n \in 0..m |-> IF n = 0 THEN <<>> ELSE Kept(g[n - 1], t[n], words)]
           h == [x \in Seq(Chunks) \X Chunks |-> Kept(x[1], x[2], words)]
<1>1. <<>> \in Seq(Chunks) /\ m \in Nat /\ \A n \in 1..m : t[n] \in Chunks
  BY LenProperties, EmptySeq
<1>2. \A a \in Seq(Chunks) : \A c \in Chunks : h[<<a, c>>] = Kept(a, c, words) /\ Kept(a, c, words) \in Seq(Chunks)
  BY AppendProperties DEF Kept
<1>3. \A a \in Seq(Chunks) : \A c \in Chunks : h[<<a, c>>] \in Seq(Chunks)
  BY <1>2
<1> HIDE DEF h
<1>4. \E g : Is(g)
  <2>1. PICK g : Folds(g, Seq(Chunks), <<>>, t, h)
    BY <1>1, <1>3, FoldExists
  <2>2. /\ g \in [0..m -> Seq(Chunks)] /\ g[0] = <<>>
        /\ \A n \in 1..m : g[n] = h[<<g[n - 1], t[n]>>]
    BY <2>1 DEF Folds
  <2>3. ASSUME NEW n \in 0..m, n # 0 PROVE g[n] = Kept(g[n - 1], t[n], words)
    <3>1. n \in 1..m /\ n - 1 \in 0..m
      BY <1>1, <2>3
    <3> QED BY <1>1, <1>2, <2>2, <3>1
  <2>4. g = [n \in 0..m |-> IF n = 0 THEN <<>> ELSE Kept(g[n - 1], t[n], words)]
    BY <2>2, <2>3
  <2> QED BY <2>4
<1>5. PICK g : Is(g) /\ Filtered(t, words) = IF g[m] = <<>> THEN t ELSE g[m]
  <2> DEFINE f == CHOOSE g : Is(g)
  <2>1. Is(f)
    BY <1>4
  <2>2. Filtered(t, words) = IF f[m] = <<>> THEN t ELSE f[m]
    BY DEF Filtered
  <2> QED BY <2>1, <2>2
<1>6. \A n \in 0..m : g[n] = IF n = 0 THEN <<>> ELSE Kept(g[n - 1], t[n], words)
  BY <1>5
<1>7. g = [n \in 0..m |-> g[n]] /\ g[0] = <<>>
  BY <1>1, <1>5, <1>6
<1>8. \A n \in 1..m : g[n] = Kept(g[n - 1], t[n], words)
  BY <1>1, <1>6
<1>9. \A n \in 1..m : g[n - 1] \in Seq(Chunks) => g[n] = h[<<g[n - 1], t[n]>>]
  BY <1>1, <1>2, <1>8
<1>10. Folds(g, Seq(Chunks), <<>>, t, h)
  BY <1>1, <1>3, <1>7, <1>9, FoldTyped
<1>11. Grows(g, t)
  BY <1>8, <1>10 DEF Folds, Grows, Kept
<1> QED BY <1>5, <1>7, <1>8, <1>11 DEF Filtering

LEMMA UniqueFacts ==
    ASSUME NEW s \in Seq(Chunks), NEW t \in Seq(Chunks)
    PROVE  LET u == AppendUnique(s, t)
           IN  /\ u \in Seq(Chunks) /\ Range(u) = Range(s) \cup Range(t)
               /\ IsInjective(s) => IsInjective(u)
<1> DEFINE m == Len(t)
<1>1. m \in Nat /\ DOMAIN t = 1..m /\ \A n \in 1..m : t[n] \in Chunks
  BY LenProperties
<1>2. PICK g : Joining(g, s, t) /\ AppendUnique(s, t) = g[m]
  BY JoiningExists
<1>3. /\ Grows(g, t) /\ g[0] = s /\ g \in [0..m -> Seq(Chunks)]
      /\ \A n \in 1..m : g[n] = Joined(g[n - 1], t[n])
  BY <1>2 DEF Joining, Grows
<1>40. PICK k \in 0..m, e \in 0..m : k = 0 /\ e = m /\ k <= e
  <2>1. 0 \in 0..m /\ m \in 0..m /\ 0 <= m
    BY <1>1
  <2> QED BY <2>1
<1>41. PICK a, u : a = g[k] /\ u = g[e]
  OBVIOUS
<1>4. k = 0 /\ e = m /\ k <= e /\ a = g[k] /\ u = g[e]
  BY <1>40, <1>41
<1>5. /\ Range(a) \subseteq Range(u) /\ Range(u) \subseteq Range(a) \cup Range(t)
      /\ /\ IsInjective(a)
         /\ \A n \in 1..m : g[n] = Append(g[n - 1], t[n]) => t[n] \notin Range(g[n - 1])
         => IsInjective(u)
  BY <1>3, <1>4, GrowsFacts
<1>6. ASSUME NEW n \in 1..m, g[n] = Append(g[n - 1], t[n]) PROVE t[n] \notin Range(g[n - 1])
  <2>1. PICK w \in Seq(Chunks), c \in Chunks : w = g[n - 1] /\ c = t[n]
    BY <1>1, <1>3
  <2>2. Len(Append(w, c)) = Len(w) + 1 /\ Len(w) \in Nat
    BY AppendProperties, LenProperties
  <2>3. Append(w, c) # w
    BY <2>2
  <2> QED BY <1>3, <1>6, <2>1, <2>3 DEF Joined
<1>7. ASSUME NEW n \in 1..m PROVE t[n] \in Range(u)
  <2>0. n - 1 \in 0..m /\ n \in 0..m
    BY <1>1
  <2>1. PICK i \in 0..m, w \in Seq(Chunks), c \in Chunks : i = n /\ w = g[n - 1] /\ c = t[n]
    BY <1>1, <1>3, <2>0
  <2>2. c \in Range(g[i])
    <3>1. Range(Append(w, c)) = Range(w) \cup {c}
      BY AppendFacts
    <3>2. g[i] = Joined(w, c)
      BY <1>3, <2>1
    <3> QED BY <3>1, <3>2 DEF Joined
  <2>20. i <= e
    BY <1>1, <1>4, <2>1
  <2>3. Range(g[i]) \subseteq Range(g[e])
    BY <1>3, <2>20, GrowsFacts
  <2> QED BY <1>4, <2>1, <2>2, <2>3
<1>8. Range(t) \subseteq Range(u)
  BY <1>1, <1>7 DEF Range
<1> QED BY <1>2, <1>3, <1>4, <1>5, <1>6, <1>8

LEMMA WeightInFacts ==
    ASSUME NEW l \in Lists(Chunks), NEW x, NEW y
    PROVE  /\ WeightIn(l, x) \in Nat
           /\ x \in Range(l) /\ y \notin Range(l) => WeightIn(l, y) < WeightIn(l, x)
           /\ x \in Range(l) /\ y \in Range(l) /\ Rank(l, x) < Rank(l, y) => WeightIn(l, y) < WeightIn(l, x)
           /\ y \notin Range(l) => WeightIn(l, y) = 0
<1>1. /\ l \in Seq(Chunks) /\ Len(l) \in 0..MaxList /\ DOMAIN l = 1..Len(l) /\ IsInjective(l)
      /\ MaxList \in Nat
  BY ListFacts, Limits
<1>2. \A c \in Range(l) : Rank(l, c) \in 1..MaxList
  <2>1. \A c \in Range(l) : Rank(l, c) \in 1..Len(l)
    BY <1>1, RankFacts
  <2> QED BY <1>1, <2>1
<1>3. \A c \in Range(l) : WeightIn(l, c) = Weight(Rank(l, c)) /\ WeightIn(l, c) \in Nat \ {0}
  <2> SUFFICES ASSUME NEW c \in Range(l)
               PROVE  WeightIn(l, c) = Weight(Rank(l, c)) /\ WeightIn(l, c) \in Nat \ {0}
    OBVIOUS
  <2>1. PICK r \in 1..MaxList : r = Rank(l, c)
    BY <1>2
  <2>2. Weight(r) \in Nat \ {0}
    BY WeightFalls
  <2> QED BY <2>1, <2>2 DEF WeightIn
<1>4. \A c : c \notin Range(l) => WeightIn(l, c) = 0
  BY DEF WeightIn
<1>5. ASSUME x \in Range(l), y \in Range(l), Rank(l, x) < Rank(l, y) PROVE WeightIn(l, y) < WeightIn(l, x)
  <2>1. PICK r \in 1..MaxList, k \in 1..MaxList : r = Rank(l, x) /\ k = Rank(l, y) /\ r < k
    BY <1>2, <1>5
  <2>2. Weight(k) < Weight(r)
    BY <2>1, WeightFalls
  <2> QED BY <1>3, <1>5, <2>1, <2>2
<1>6. WeightIn(l, x) \in Nat
  BY <1>3, <1>4
<1> QED BY <1>3, <1>4, <1>5, <1>6

\* The fusion is a permutation of what both lists have, by the sum of the weights.
Sum(v, b, x) == WeightIn(v, x) + WeightIn(b, x)

LEMMA FuseFacts ==
    ASSUME NEW v \in Lists(Chunks), NEW b \in Lists(Chunks)
    PROVE  /\ Fuse(v, b) \in Seq(Chunks) /\ IsInjective(Fuse(v, b))
           /\ Range(Fuse(v, b)) = Range(v) \cup Range(b)
           /\ \A x, y \in Range(Fuse(v, b)) :
                 Sum(v, b, y) < Sum(v, b, x) => Rank(Fuse(v, b), x) < Rank(Fuse(v, b), y)
<1>1. v \in Seq(Chunks) /\ b \in Seq(Chunks) /\ IsInjective(v)
  BY ListFacts
<1>2. PICK met \in Seq(Chunks) : /\ met = AppendUnique(v, b) /\ IsInjective(met)
                                 /\ Range(met) = Range(v) \cup Range(b)
  BY <1>1, UniqueFacts
<1>3. PICK n \in Nat : n = Len(met) /\ DOMAIN met = 1..n /\ \A i \in 1..n : met[i] \in Chunks
  BY LenProperties
<1>4. PICK key : key = [i \in 1..n |-> Sum(v, b, met[i])]
  OBVIOUS
<1>5. key \in [1..n -> Int]
  <2>1. \A x : Sum(v, b, x) \in Nat
    BY WeightInFacts DEF Sum
  <2> QED BY <1>4, <2>1
<1>6. PICK order : /\ order = Descending(key) /\ order \in [1..n -> 1..n]
                   /\ \A p \in 1..n : Place(key, order[p]) = p
                   /\ \A j \in 1..n : order[Place(key, j)] = j
  BY <1>5, DescendingFacts
<1>7. PICK f : f = [i \in 1..n |-> met[order[i]]]
  OBVIOUS
<1>8. Fuse(v, b) = f
  BY <1>2, <1>3, <1>4, <1>6, <1>7 DEF Fuse, Sum
<1>9. f \in [1..n -> Chunks] /\ f \in Seq(Chunks) /\ DOMAIN f = 1..n
  <2>1. f \in [1..n -> Chunks]
    BY <1>3, <1>6, <1>7
  <2> QED BY <2>1, SeqDef
<1>10. IsInjective(f)
  <2>1. ASSUME NEW i \in 1..n, NEW j \in 1..n, f[i] = f[j] PROVE i = j
    <3>1. order[i] \in 1..n /\ order[j] \in 1..n /\ met[order[i]] = met[order[j]]
      BY <1>6, <1>7, <2>1
    <3>2. order[i] = order[j]
      BY <1>2, <1>3, <3>1 DEF IsInjective
    <3> QED BY <1>6, <3>2
  <2> QED BY <1>9, <2>1 DEF IsInjective
<1>11. \A j \in 1..n : Place(key, j) \in 1..n /\ f[Place(key, j)] = met[j]
  <2> SUFFICES ASSUME NEW j \in 1..n PROVE Place(key, j) \in 1..n /\ f[Place(key, j)] = met[j]
    OBVIOUS
  <2>1. Place(key, j) \in 1..n
    BY <1>5, PlaceFacts
  <2> QED BY <1>6, <1>7, <2>1
<1>12. Range(f) = Range(met)
  <2>1. \A i \in 1..n : f[i] \in Range(met)
    BY <1>3, <1>6, <1>7 DEF Range
  <2>2. \A j \in 1..n : met[j] \in Range(f)
    BY <1>9, <1>11 DEF Range
  <2> QED BY <1>3, <1>9, <2>1, <2>2 DEF Range
<1>13. ASSUME NEW x \in Range(f), NEW y \in Range(f), Sum(v, b, y) < Sum(v, b, x)
       PROVE  Rank(f, x) < Rank(f, y)
  <2>1. PICK i \in 1..n, j \in 1..n : x = met[i] /\ y = met[j]
    BY <1>3, <1>12 DEF Range
  <2>2. PICK p \in 1..n, q \in 1..n : /\ p = Place(key, i) /\ q = Place(key, j)
                                      /\ f[p] = x /\ f[q] = y
    BY <1>11, <2>1
  <2>3. Rank(f, x) = p /\ Rank(f, y) = q
    BY <1>9, <1>10, <2>2, RankFacts
  <2>4. key[i] > key[j]
    <3>1. key[i] = Sum(v, b, x) /\ key[j] = Sum(v, b, y)
      BY <1>4, <2>1
    <3>2. Sum(v, b, x) \in Nat /\ Sum(v, b, y) \in Nat
      BY WeightInFacts DEF Sum
    <3> QED BY <1>13, <3>1, <3>2
  <2>5. Place(key, i) < Place(key, j)
    BY <1>5, <2>4, PlaceFacts DEF Precedes
  <2> QED BY <2>2, <2>3, <2>5
<1> QED BY <1>2, <1>8, <1>9, <1>10, <1>12, <1>13

-----------------------------------------------------------------------------
(* The limits for the candidates of the reranker.                           *)

LEMMA FiniteRange == ASSUME NEW S, NEW s \in Seq(S) PROVE IsFiniteSet(Range(s))
<1>1. PICK n \in Nat : n = Len(s) /\ DOMAIN s = 1..n
  BY LenProperties
<1>2. s \in Surjection(1..n, Range(s))
  BY <1>1 DEF Surjection, Range
<1>3. IsFiniteSet(1..n)
  BY <1>1, FS_Interval
<1> QED BY <1>2, <1>3, FS_Surjection

LEMMA CutFacts ==
    ASSUME NEW s \in Seq(Chunks), NEW k \in 0..Len(s)
    PROVE  LET u == SubSeq(s, 1, k)
           IN  /\ u \in Seq(Chunks) /\ Len(u) = k /\ DOMAIN u = 1..k
               /\ \A i \in 1..k : u[i] = s[i]
               /\ Range(u) \subseteq Range(s) /\ (IsInjective(s) => IsInjective(u))
<1>1. PICK n \in Nat : n = Len(s) /\ DOMAIN s = 1..n /\ \A i \in 1..n : s[i] \in Chunks
  BY LenProperties
<1>2. k \in Nat /\ k <= n /\ \A i \in 1..k : s[i] \in Chunks /\ i \in 1..n
  BY <1>1
<1>3. PICK u \in Seq(Chunks) : /\ u = SubSeq(s, 1, k) /\ Len(u) = k
                               /\ \A i \in 1..k : u[i] = s[i]
  <2>1. /\ SubSeq(s, 1, k) \in Seq(Chunks)
        /\ Len(SubSeq(s, 1, k)) = IF 1 <= k THEN k - 1 + 1 ELSE 0
        /\ \A i \in 1..(k - 1 + 1) : SubSeq(s, 1, k)[i] = s[1 + i - 1]
    <3>1. PICK o \in Int, e \in Int : o = 1 /\ e = k
      BY <1>2
    <3>2. \A i \in o..e : s[i] \in Chunks
      BY <1>2, <3>1
    <3>3. /\ SubSeq(s, o, e) \in Seq(Chunks)
          /\ Len(SubSeq(s, o, e)) = IF o <= e THEN e - o + 1 ELSE 0
          /\ \A i \in 1..(e - o + 1) : SubSeq(s, o, e)[i] = s[o + i - 1]
      BY <3>2, SubSeqProperties
    <3> QED BY <3>1, <3>3
  <2>2. Len(SubSeq(s, 1, k)) = k
    BY <1>2, <2>1
  <2>3. \A i \in 1..k : SubSeq(s, 1, k)[i] = s[i]
    <3>1. \A i \in 1..k : i \in 1..(k - 1 + 1) /\ 1 + i - 1 = i
      BY <1>2
    <3> QED BY <2>1, <3>1
  <2> QED BY <2>1, <2>2, <2>3
<1>4. DOMAIN u = 1..k
  BY <1>3, LenProperties
<1>5. Range(u) \subseteq Range(s)
  BY <1>1, <1>2, <1>3, <1>4 DEF Range
<1>6. IsInjective(s) => IsInjective(u)
  BY <1>1, <1>2, <1>3, <1>4 DEF IsInjective
<1> QED BY <1>3, <1>4, <1>5, <1>6

LEMMA CandidatesFacts ==
    ASSUME NEW v \in Lists(Chunks), NEW b \in Lists(Chunks), NEW top \in Nat \ {0}
    PROVE  /\ Candidates(v, b, top) \in Seq(Chunks) /\ IsInjective(Candidates(v, b, top))
           /\ Range(Candidates(v, b, top)) \subseteq Range(v) \cup Range(b)
<1>1. PICK f \in Seq(Chunks) : /\ f = Fuse(v, b) /\ IsInjective(f) /\ Range(f) = Range(v) \cup Range(b)
  BY FuseFacts
<1>2. PICK wanted \in Nat : wanted = top * Multiplier
  BY Limits, TimesGrows
<1>3. PICK k \in 0..Len(f) : k = IF Len(f) < top * Multiplier THEN Len(f) ELSE top * Multiplier
  BY <1>2, LenProperties
<1>4. Candidates(v, b, top) = SubSeq(f, 1, k)
  BY <1>1, <1>3 DEF Candidates
<1>5. /\ SubSeq(f, 1, k) \in Seq(Chunks) /\ Range(SubSeq(f, 1, k)) \subseteq Range(f)
      /\ IsInjective(SubSeq(f, 1, k))
  BY <1>1, CutFacts
<1> QED BY <1>1, <1>4, <1>5

\* At most so many of a document, and no parent of it twice.
Fair(a) ==
    /\ \A d : Cardinality({c \in Range(a) : Doc[c] = d}) <= MaxPerDoc
    /\ \A x, y \in Range(a) :
          x # y /\ Doc[x] = Doc[y] /\ Parent[x] = Parent[y] => Parent[x] = NoParent

LEMMA TakenIsFair ==
    ASSUME NEW a \in Seq(Chunks), NEW c \in Chunks, Fair(a),
           NEW target, NEW preferNew, NEW cover
    PROVE  Fair(Taken(a, c, target, preferNew, cover))
<1>1. PICK r : r = Taken(a, c, target, preferNew, cover)
  OBVIOUS
<1>2. CASE r = a
  BY <1>1, <1>2
<1>3. CASE r # a
  <2>1. r = Append(a, c) /\ c \notin Range(a) /\ CanTake(a, c, preferNew, cover)
    BY <1>1, <1>3 DEF Taken
  <2>2. Range(r) = Range(a) \cup {c}
    BY <2>1, AppendFacts
  <2>3. PICK same : same = {x \in Range(a) : Doc[x] = Doc[c]}
    OBVIOUS
  <2>4. /\ Cardinality(same) < MaxPerDoc
        /\ Parent[c] = NoParent \/ Parent[c] \notin {Parent[x] : x \in same}
    BY <2>1, <2>3 DEF CanTake
  <2>5. IsFiniteSet(same) /\ Cardinality(same) \in Nat /\ MaxPerDoc \in Nat
    <3>1. IsFiniteSet(Range(a)) /\ same \in SUBSET Range(a)
      BY <2>3, FiniteRange
    <3>2. IsFiniteSet(same)
      BY <3>1, FS_Subset
    <3> QED BY <3>2, FS_CardinalityType, Limits
  <2>6. ASSUME NEW d PROVE Cardinality({x \in Range(r) : Doc[x] = d}) <= MaxPerDoc
    <3>1. CASE d = Doc[c]
      <4>1. PICK now : now = {x \in Range(r) : Doc[x] = d}
        OBVIOUS
      <4>2. now = same \cup {c}
        BY <2>2, <2>3, <3>1, <4>1
      <4>3. c \notin same
        BY <2>1, <2>3
      <4>4. Cardinality(now) = Cardinality(same) + 1
        BY <2>5, <4>2, <4>3, FS_AddElement
      <4>5. Cardinality(now) <= MaxPerDoc
        BY <2>4, <2>5, <4>4
      <4> QED BY <4>1, <4>5
    <3>2. CASE d # Doc[c]
      <4>1. {x \in Range(r) : Doc[x] = d} = {x \in Range(a) : Doc[x] = d}
        BY <2>2, <3>2
      <4> QED BY <4>1 DEF Fair
    <3> QED BY <3>1, <3>2
  <2>7. ASSUME NEW x \in Range(r), NEW y \in Range(r),
               x # y, Doc[x] = Doc[y], Parent[x] = Parent[y]
        PROVE  Parent[x] = NoParent
    <3>1. CASE x \in Range(a) /\ y \in Range(a)
      BY <2>7, <3>1 DEF Fair
    <3>2. CASE x = c
      <4>1. y \in same
        BY <2>2, <2>3, <2>7, <3>2
      <4> QED BY <2>4, <2>7, <3>2, <4>1
    <3>3. CASE y = c
      <4>1. x \in same
        BY <2>2, <2>3, <2>7, <3>3
      <4> QED BY <2>4, <2>7, <3>3, <4>1
    <3> QED BY <2>2, <3>1, <3>2, <3>3
  <2>8. Fair(r)
    BY <2>6, <2>7 DEF Fair
  <2> QED BY <1>1, <2>8
<1> QED BY <1>1, <1>2, <1>3

\* Without the two preferences what may be taken now could have been taken before.
LEMMA CanTakeFalls ==
    ASSUME NEW a \in Seq(Chunks), NEW r \in Seq(Chunks), Range(a) \subseteq Range(r), NEW c,
           CanTake(r, c, FALSE, FALSE)
    PROVE  CanTake(a, c, FALSE, FALSE)
<1>1. PICK before, now : /\ before = {x \in Range(a) : Doc[x] = Doc[c]}
                         /\ now = {x \in Range(r) : Doc[x] = Doc[c]}
  OBVIOUS
<1>2. /\ Cardinality(now) < MaxPerDoc
      /\ Parent[c] = NoParent \/ Parent[c] \notin {Parent[x] : x \in now}
  BY <1>1 DEF CanTake
<1>3. before \in SUBSET now
  BY <1>1
<1>4. IsFiniteSet(now)
  <2>1. IsFiniteSet(Range(r)) /\ now \in SUBSET Range(r)
    BY <1>1, FiniteRange
  <2> QED BY <2>1, FS_Subset
<1>5. IsFiniteSet(before) /\ Cardinality(before) <= Cardinality(now)
  BY <1>3, <1>4, FS_Subset
<1>6. Cardinality(before) \in Nat /\ Cardinality(now) \in Nat /\ MaxPerDoc \in Nat
  BY <1>4, <1>5, FS_CardinalityType, Limits
<1>7. Cardinality(before) < MaxPerDoc
  BY <1>2, <1>5, <1>6
<1>8. Parent[c] = NoParent \/ Parent[c] \notin {Parent[x] : x \in before}
  BY <1>2, <1>3
<1> QED BY <1>1, <1>7, <1>8 DEF CanTake

\* A list goes on as it was, with some of t; it begins with the best; no more can be added to it.
Goes(s, t, r) ==
    /\ r \in Seq(Chunks) /\ Range(r) \subseteq Range(s) \cup Range(t)
    /\ Len(s) <= Len(r) /\ \A i \in 1..Len(s) : r[i] = s[i]
Leads(t, r) == t # <<>> => r # <<>> /\ r[1] = t[1]
Full(r, t, top) ==
    Len(r) < Target(t, top) => \A x \in Range(t) \ Range(r) : ~CanTake(r, x, FALSE, FALSE)

LEMMA PassFacts ==
    ASSUME NEW s \in Seq(Chunks), NEW t \in Seq(Chunks), NEW top \in Nat \ {0},
           NEW preferNew, NEW cover, NEW r, r = Pass(s, t, top, preferNew, cover)
    PROVE  /\ Goes(s, t, r) /\ (Fair(s) => Fair(r)) /\ (s = <<>> => Leads(t, r))
           /\ preferNew = FALSE /\ cover = FALSE => Full(r, t, top)
<1>1. PICK m \in Nat : m = Len(t) /\ DOMAIN t = 1..m /\ \A n \in 1..m : t[n] \in Chunks
  BY LenProperties
<1>2. PICK target \in Nat : target = Target(t, top) /\ (t # <<>> => target > 0)
  <2>1. PICK wanted \in Nat : wanted = top * Multiplier /\ wanted > 0
    <3>1. PICK a \in Nat \ {0} : a = Multiplier
      BY Limits
    <3>2. top * a \in Nat /\ 0 < top * a
      BY TimesGrows
    <3> QED BY <3>1, <3>2
  <2>2. t # <<>> => m > 0
    BY <1>1, EmptySeq, LenProperties
  <2>3. Target(t, top) = IF m < wanted THEN m ELSE wanted
    BY <1>1, <2>1 DEF Target
  <2> QED BY <1>1, <2>1, <2>2, <2>3
<1>3. PICK g : Passing(g, s, t, target, preferNew, cover) /\ r = g[m]
  BY <1>1, <1>2, PassingExists
<1>40. Grows(g, t)
  BY <1>3 DEF Passing
<1>4. /\ g[0] = s /\ g \in [0..m -> Seq(Chunks)]
      /\ \A n \in 1..m : g[n] = Taken(g[n - 1], t[n], target, preferNew, cover)
  BY <1>1, <1>3 DEF Passing, Grows
<1>5. ASSUME NEW k \in 0..m
      PROVE  /\ Range(g[k]) \subseteq Range(r) /\ Len(g[k]) <= Len(r)
             /\ \A i \in 1..Len(g[k]) : r[i] = g[k][i]
             /\ Range(r) \subseteq Range(g[k]) \cup Range(t)
  <2>1. PICK j \in 0..Len(t), e \in 0..Len(t) : j = k /\ e = m /\ j <= e
    BY <1>1
  <2>2. PICK a, u : a = g[j] /\ u = g[e]
    OBVIOUS
  <2>3. Range(a) \subseteq Range(u) /\ Len(a) <= Len(u) /\ Range(u) \subseteq Range(a) \cup Range(t)
    BY <1>40, <2>1, <2>2, GrowsFacts
  <2>4. \A i \in 1..Len(a) : u[i] = a[i]
    BY <1>40, <2>1, <2>2, GrowsFacts
  <2> QED BY <1>3, <2>1, <2>2, <2>3, <2>4
<1>60. 0 \in 0..m /\ m \in 0..m
  BY <1>1
<1>6. r \in Seq(Chunks) /\ 0 \in 0..m
  BY <1>3, <1>4, <1>60
<1>7. /\ Range(r) \subseteq Range(s) \cup Range(t)
      /\ Len(s) <= Len(r) /\ \A i \in 1..Len(s) : r[i] = s[i]
  BY <1>4, <1>5, <1>6
<1>8. ASSUME Fair(s) PROVE Fair(r)
  <2> DEFINE T == {n \in 0..m : Fair(g[n])}
  <2>1. 0 \in T
    BY <1>4, <1>6, <1>8
  <2>2. ASSUME NEW n \in 1..m, n - 1 \in T PROVE n \in T
    <3>1. n \in 0..m /\ n - 1 \in 0..m
      BY <1>1
    <3>2. PICK a \in Seq(Chunks), c \in Chunks : a = g[n - 1] /\ c = t[n]
      BY <1>1, <1>4, <3>1
    <3>3. Fair(a)
      BY <2>2, <3>2
    <3>4. Fair(Taken(a, c, target, preferNew, cover))
      BY <3>3, TakenIsFair
    <3> QED BY <1>4, <3>1, <3>2, <3>4
  <2>3. m \in T
    <3> HIDE DEF T
    <3>1. T \in SUBSET (0..m)
      BY DEF T
    <3>2. \A n \in 0..m : n \in T
      BY <1>1, <2>1, <2>2, <3>1, UpTo
    <3> QED BY <1>1, <3>2
  <2> QED BY <1>3, <2>3
<1>9. ASSUME s = <<>>, t # <<>> PROVE r # <<>> /\ r[1] = t[1]
  <2>1. 1 \in 1..m /\ 1 \in 0..m
    BY <1>1, <1>9, EmptySeq, LenProperties
  <2>2. PICK c \in Chunks : c = t[1]
    BY <1>1, <2>1
  <2>3. g[1] = Taken(<<>>, c, target, preferNew, cover)
    BY <1>4, <1>9, <2>1, <2>2
  <2>4. Len(<<>>) = 0 /\ Range(<<>>) = {}
    BY EmptySeq, LenProperties DEF Range
  <2>5. CanTake(<<>>, c, preferNew, cover)
    <3>1. PICK same : same = {x \in Range(<<>>) : Doc[x] = Doc[c]} /\ same = {}
      BY <2>4
    <3>2. Cardinality(same) = 0 /\ MaxPerDoc \in Nat \ {0}
      BY <3>1, FS_EmptySet, Limits
    <3>3. /\ Cardinality(same) < MaxPerDoc
          /\ Parent[c] \notin {Parent[x] : x \in same}
          /\ Section[c] \notin {Section[x] : x \in same}
      BY <3>1, <3>2
    <3> QED BY <3>1, <3>3, Zenon DEF CanTake
  <2>6. g[1] = Append(<<>>, c)
    BY <1>2, <1>9, <2>3, <2>4, <2>5 DEF Taken
  <2>7. PICK u \in Seq(Chunks) : u = g[1] /\ Len(u) = 1 /\ u[1] = c
    <3>1. PICK e \in Seq(Chunks) : e = <<>>
      BY EmptySeq
    <3>2. /\ Append(e, c) \in Seq(Chunks) /\ Len(Append(e, c)) = Len(e) + 1
          /\ Append(e, c)[Len(e) + 1] = c
      BY AppendFacts
    <3>3. PICK u : u = Append(e, c)
      OBVIOUS
    <3>4. u \in Seq(Chunks) /\ Len(u) = 1 /\ u[1] = c
      BY <2>4, <3>1, <3>2, <3>3
    <3> QED BY <2>6, <3>1, <3>3, <3>4
  <2>8. Len(u) <= Len(r) /\ r[1] = u[1]
    BY <1>5, <2>1, <2>7
  <2> QED BY <1>6, <2>2, <2>4, <2>7, <2>8
<1>10. ASSUME preferNew = FALSE, cover = FALSE, Len(r) < target,
              NEW x \in Range(t) \ Range(r), CanTake(r, x, FALSE, FALSE)
       PROVE  FALSE
  <2>1. PICK n \in 1..m : x = t[n]
    BY <1>1 DEF Range
  <2>2. n \in 0..m /\ n - 1 \in 0..m
    BY <1>1
  <2>3. PICK a \in Seq(Chunks), c \in Chunks : a = g[n - 1] /\ c = x
    BY <1>1, <1>4, <2>1, <2>2
  <2>4. Range(a) \subseteq Range(r) /\ Len(a) <= Len(r)
    BY <1>5, <2>2, <2>3
  <2>5. CanTake(a, c, FALSE, FALSE)
    BY <1>6, <1>10, <2>3, <2>4, CanTakeFalls
  <2>6. Len(a) < target
    BY <1>6, <1>10, <2>4, LenProperties
  <2>7. g[n] = Append(a, c)
    BY <1>4, <1>10, <2>1, <2>3, <2>4, <2>5, <2>6 DEF Taken
  <2>8. c \in Range(g[n])
    BY <2>7, AppendFacts
  <2> QED BY <1>5, <1>10, <2>2, <2>3, <2>8
<1>11. preferNew = FALSE /\ cover = FALSE /\ Len(r) < Target(t, top) =>
          \A x \in Range(t) \ Range(r) : ~CanTake(r, x, FALSE, FALSE)
  BY <1>2, <1>10
<1> QED BY <1>3, <1>6, <1>7, <1>8, <1>9, <1>11 DEF Goes, Leads, Full

LEMMA ConstrainFacts ==
    ASSUME NEW t \in Seq(Chunks), NEW top \in Nat \ {0}, NEW r, r = Constrain(t, top)
    PROVE  /\ r \in Seq(Chunks) /\ Range(r) \subseteq Range(t) /\ Fair(r)
           /\ Leads(t, r) /\ Full(r, t, top)
<1>1. PICK s \in Seq(Chunks) : s = <<>>
  BY EmptySeq
<1>2. Range(s) = {} /\ Fair(s)
  <2>1. Range(s) = {}
    BY <1>1, LenProperties DEF Range
  <2>2. \A d : {c \in Range(s) : Doc[c] = d} = {}
    BY <2>1
  <2>3. Cardinality({}) = 0 /\ MaxPerDoc \in Nat
    BY FS_EmptySet, Limits
  <2> QED BY <2>1, <2>2, <2>3 DEF Fair
<1>3. PICK yes, no : yes = TRUE /\ no = FALSE
  OBVIOUS
<1>4. PICK a : a = Pass(s, t, top, yes, yes)
  OBVIOUS
<1>5. Goes(s, t, a) /\ Fair(a) /\ Leads(t, a)
  <2>1. Goes(s, t, a)
    BY <1>4, PassFacts
  <2>2. Fair(s) => Fair(a)
    BY <1>4, PassFacts
  <2>3. s = <<>> => Leads(t, a)
    BY <1>4, PassFacts
  <2> QED BY <1>1, <1>2, <2>1, <2>2, <2>3
<1>6. PICK b : b = Pass(a, t, top, no, yes)
  OBVIOUS
<1>7. a \in Seq(Chunks) /\ Goes(a, t, b) /\ Fair(b)
  <2>1. a \in Seq(Chunks)
    BY <1>5 DEF Goes
  <2>2. Goes(a, t, b)
    BY <1>6, <2>1, PassFacts
  <2>3. Fair(a) => Fair(b)
    BY <1>6, <2>1, PassFacts
  <2> QED BY <1>5, <2>1, <2>2, <2>3
<1>8. PICK c : c = Pass(b, t, top, no, no)
  OBVIOUS
<1>9. b \in Seq(Chunks) /\ Goes(b, t, c) /\ Fair(c)
  <2>1. b \in Seq(Chunks)
    BY <1>7 DEF Goes
  <2>2. Goes(b, t, c)
    BY <1>8, <2>1, PassFacts
  <2>3. Fair(b) => Fair(c)
    BY <1>8, <2>1, PassFacts
  <2> QED BY <1>7, <2>1, <2>2, <2>3
<1>10. Full(c, t, top)
  BY <1>3, <1>8, <1>9, PassFacts
<1>11. c = r
  BY <1>1, <1>3, <1>4, <1>6, <1>8 DEF Constrain
<1>12. Leads(t, c)
  <2> SUFFICES ASSUME t # <<>> PROVE c # <<>> /\ c[1] = t[1]
    BY DEF Leads
  <2>1. a # <<>> /\ a[1] = t[1]
    BY <1>5 DEF Leads
  <2>2. Len(a) \in Nat \ {0} /\ Len(b) \in Nat /\ Len(c) \in Nat
    BY <1>5, <1>7, <1>9, <2>1, EmptySeq, LenProperties DEF Goes
  <2>3. 1 \in 1..Len(a) /\ 1 \in 1..Len(b) /\ Len(c) > 0
    BY <1>7, <1>9, <2>2 DEF Goes
  <2>4. c[1] = t[1]
    BY <1>7, <1>9, <2>1, <2>3 DEF Goes
  <2>5. c # <<>>
    BY <2>3, LenProperties, EmptySeq
  <2> QED BY <2>4, <2>5
<1>13. c \in Seq(Chunks) /\ Range(c) \subseteq Range(t)
  BY <1>2, <1>5, <1>7, <1>9 DEF Goes
<1> QED BY <1>9, <1>10, <1>11, <1>12, <1>13

\* Ahead in one list and not behind in the other: the sum is larger.
LEMMA AheadWeighsMore ==
    ASSUME NEW v \in Lists(Chunks), NEW b \in Lists(Chunks), NEW x, NEW y,
           x \in Range(v), y \in Range(v) => Rank(v, x) < Rank(v, y),
           y \in Range(b) => x \in Range(b) /\ Rank(b, x) < Rank(b, y)
    PROVE  Sum(v, b, y) < Sum(v, b, x) /\ Sum(b, v, y) < Sum(b, v, x)
<1>1. PICK vx \in Nat, vy \in Nat : vx = WeightIn(v, x) /\ vy = WeightIn(v, y) /\ vy < vx
  BY WeightInFacts
<1>2. PICK bx \in Nat, by \in Nat : bx = WeightIn(b, x) /\ by = WeightIn(b, y) /\ by <= bx
  <2>1. WeightIn(b, x) \in Nat /\ WeightIn(b, y) \in Nat
    BY WeightInFacts
  <2>2. CASE y \in Range(b)
    <3>1. WeightIn(b, y) < WeightIn(b, x)
      BY <2>2, WeightInFacts
    <3> QED BY <2>1, <3>1
  <2>3. CASE y \notin Range(b)
    <3>1. WeightIn(b, y) = 0
      BY <2>3, WeightInFacts
    <3> QED BY <2>1, <3>1
  <2> QED BY <2>2, <2>3
<1> QED BY <1>1, <1>2 DEF Sum

\* SearchIsFair, of two results.
RankedFairly(v, b) ==
    LET fused == Fuse(v, b)
        cands == Candidates(v, b, TopK)
        taken == Constrain(cands, TopK)
        Ahead(l, x, y) == x \in Range(l) /\ (y \in Range(l) => Rank(l, x) < Rank(l, y))
        NotBehind(l, x, y) == y \in Range(l) => Ahead(l, x, y)
    IN  /\ IsInjective(fused) /\ Range(fused) = Range(v) \cup Range(b)
        /\ \A x, y \in Range(fused) :
              (Ahead(v, x, y) /\ NotBehind(b, x, y)) \/ (Ahead(b, x, y) /\ NotBehind(v, x, y))
                  => Rank(fused, x) < Rank(fused, y)
        /\ \A d \in Range(Doc) : Cardinality({c \in Range(taken) : Doc[c] = d}) <= MaxPerDoc
        /\ \A x, y \in Range(taken) :
              x # y /\ Doc[x] = Doc[y] /\ Parent[x] = Parent[y] => Parent[x] = NoParent
        /\ cands # <<>> => taken # <<>> /\ taken[1] = cands[1]
        /\ Len(taken) < Target(cands, TopK) =>
              \A c \in Range(cands) \ Range(taken) : ~CanTake(taken, c, FALSE, FALSE)

LEMMA AlwaysFair == ASSUME NEW v \in Lists(Chunks), NEW b \in Lists(Chunks) PROVE RankedFairly(v, b)
<1>1. TopK \in Nat \ {0}
  BY Limits
<1>2. PICK fused : fused = Fuse(v, b) /\ IsInjective(fused) /\ Range(fused) = Range(v) \cup Range(b)
  BY FuseFacts
<1>3. ASSUME NEW x \in Range(fused), NEW y \in Range(fused), Sum(v, b, y) < Sum(v, b, x)
      PROVE  Rank(fused, x) < Rank(fused, y)
  BY <1>2, <1>3, FuseFacts
<1>4. ASSUME NEW x \in Range(fused), NEW y \in Range(fused),
             x \in Range(v), y \in Range(v) => Rank(v, x) < Rank(v, y),
             y \in Range(b) => x \in Range(b) /\ Rank(b, x) < Rank(b, y)
      PROVE  Rank(fused, x) < Rank(fused, y)
  <2>1. Sum(v, b, y) < Sum(v, b, x)
    BY <1>4, AheadWeighsMore
  <2> QED BY <1>3, <2>1
<1>5. ASSUME NEW x \in Range(fused), NEW y \in Range(fused),
             x \in Range(b), y \in Range(b) => Rank(b, x) < Rank(b, y),
             y \in Range(v) => x \in Range(v) /\ Rank(v, x) < Rank(v, y)
      PROVE  Rank(fused, x) < Rank(fused, y)
  <2>1. Sum(v, b, y) < Sum(v, b, x)
    BY <1>5, AheadWeighsMore
  <2> QED BY <1>3, <2>1
<1>6. PICK cands \in Seq(Chunks) : cands = Candidates(v, b, TopK)
  BY <1>1, CandidatesFacts
<1>7. PICK taken : taken = Constrain(cands, TopK) /\ Fair(taken)
                   /\ Leads(cands, taken) /\ Full(taken, cands, TopK)
  BY <1>1, ConstrainFacts
<1>8. \A d \in Range(Doc) : Cardinality({c \in Range(taken) : Doc[c] = d}) <= MaxPerDoc
  BY <1>7 DEF Fair
<1>9. \A x, y \in Range(taken) :
         x # y /\ Doc[x] = Doc[y] /\ Parent[x] = Parent[y] => Parent[x] = NoParent
  BY <1>7 DEF Fair
<1> QED BY <1>2, <1>4, <1>5, <1>6, <1>7, <1>8, <1>9 DEF RankedFairly, Leads, Full

\* For every collection and whatever the two indexes return the fusion never puts a chunk
\* behind one that it precedes, and the candidates respect the limits, keep the best and
\* are as many as may be (_rrf_fusion, _apply_pre_rerank_constraints).
THEOREM RankingIsFair == Spec => []SearchIsFair
<1>1. SearchIsFair /\ SearchIsFair'
  BY AlwaysFair DEF SearchIsFair, RankedFairly
<1> QED BY <1>1, PTL DEF Spec

-----------------------------------------------------------------------------
(* What a search returns.                                                   *)

LEMMA CapFacts ==
    ASSUME NEW t \in Seq(Chunks), NEW top, NEW r, r = Cap(t, top)
    PROVE  r \in Seq(Chunks) /\ Range(r) \subseteq Range(t)
<1>1. PICK m \in Nat : m = Len(t)
  BY LenProperties
<1>2. PICK g : Capping(g, t, top) /\ r = g[Len(t)]
  BY CappingExists
<1>3. PICK k \in 0..Len(t), e \in 0..Len(t) : k = 0 /\ e = Len(t) /\ k <= e
  BY <1>1
<1>4. Grows(g, t) /\ g[0] = <<>> /\ g \in [0..Len(t) -> Seq(Chunks)]
  BY <1>2 DEF Capping, Grows
<1>5. PICK a : a = g[k]
  OBVIOUS
<1>6. Range(r) \subseteq Range(a) \cup Range(t)
  BY <1>2, <1>3, <1>4, <1>5, GrowsFacts
<1>7. Range(a) = {}
  BY <1>3, <1>4, <1>5, EmptySeq, LenProperties DEF Range
<1>8. r \in Seq(Chunks)
  BY <1>2, <1>3, <1>4
<1> QED BY <1>6, <1>7, <1>8

LEMMA FilteredFacts ==
    ASSUME NEW t \in Seq(Chunks), NEW words, NEW r, r = Filtered(t, words)
    PROVE  r \in Seq(Chunks) /\ Range(r) \subseteq Range(t)
<1>1. PICK m \in Nat : m = Len(t)
  BY LenProperties
<1>2. PICK g : Filtering(g, t, words) /\ r = IF g[Len(t)] = <<>> THEN t ELSE g[Len(t)]
  BY FilteringExists
<1>3. PICK k \in 0..Len(t), e \in 0..Len(t) : k = 0 /\ e = Len(t) /\ k <= e
  BY <1>1
<1>4. Grows(g, t) /\ g[0] = <<>> /\ g \in [0..Len(t) -> Seq(Chunks)]
  BY <1>2 DEF Filtering, Grows
<1>5. PICK a, u : a = g[k] /\ u = g[e]
  OBVIOUS
<1>6. Range(u) \subseteq Range(a) \cup Range(t)
  BY <1>3, <1>4, <1>5, GrowsFacts
<1>7. Range(a) = {}
  BY <1>3, <1>4, <1>5, EmptySeq, LenProperties DEF Range
<1>8. u \in Seq(Chunks)
  BY <1>3, <1>4, <1>5
<1>9. r = t \/ r = u
  BY <1>2, <1>3, <1>5
<1> QED BY <1>6, <1>7, <1>8, <1>9

LEMMA OrdersFacts ==
    ASSUME NEW s \in Seq(Chunks), NEW t \in Orders(s)
    PROVE  t \in Seq(Chunks) /\ Range(t) \subseteq Range(s)
<1>1. PICK n \in Nat : DOMAIN s = 1..n /\ \A i \in 1..n : s[i] \in Chunks
  BY LenProperties
<1>2. t \in [1..n -> Range(s)]
  BY <1>1 DEF Orders
<1>3. Range(s) \subseteq Chunks
  BY <1>1 DEF Range
<1>4. t \in [1..n -> Chunks]
  BY <1>2, <1>3
<1>5. t \in Seq(Chunks)
  BY <1>4, SeqDef
<1> QED BY <1>2, <1>5 DEF Range

LEMMA ResultsFacts ==
    ASSUME NEW S \in SUBSET Chunks, NEW v \in Lists(S), NEW b \in Lists(S), NEW top \in Nat \ {0},
           NEW out \in Results(v, b, top)
    PROVE  out \in Seq(Chunks) /\ Range(out) \subseteq S
<1>1. ASSUME NEW l \in Lists(S) PROVE l \in Lists(Chunks) /\ Range(l) \subseteq S
  <2>1. PICK n \in 0..MaxList : l \in [1..n -> S] /\ IsInjective(l)
    BY DEF Lists
  <2>2. l \in [1..n -> Chunks]
    BY <2>1
  <2>3. l \in Lists(Chunks)
    BY <2>1, <2>2 DEF Lists
  <2> QED BY <2>3, ListFacts
<1>2. v \in Lists(Chunks) /\ b \in Lists(Chunks) /\ Range(v) \subseteq S /\ Range(b) \subseteq S
  BY <1>1
<1>3. PICK cands \in Seq(Chunks) : /\ cands = Candidates(v, b, top)
                                   /\ Range(cands) \subseteq Range(v) \cup Range(b)
  BY <1>2, CandidatesFacts
<1>4. PICK taken : taken = Constrain(cands, top)
  OBVIOUS
<1>5. taken \in Seq(Chunks) /\ Range(taken) \subseteq Range(cands)
  BY <1>4, ConstrainFacts
<1>6. PICK t \in Orders(taken) : out = Cap(t, top)
  BY <1>3, <1>4 DEF Results
<1>7. t \in Seq(Chunks) /\ Range(t) \subseteq Range(taken)
  BY <1>5, OrdersFacts
<1>8. out \in Seq(Chunks) /\ Range(out) \subseteq Range(t)
  BY <1>6, <1>7, CapFacts
<1> QED BY <1>2, <1>3, <1>5, <1>7, <1>8

LEMMA FoundFacts ==
    ASSUME NEW within \in BOOLEAN, NEW top \in {TopK, ExpansionTopK}, NEW out \in Found[within][top]
    PROVE  /\ out \in Seq(Chunks)
           /\ within => Range(out) \subseteq Matching
<1>1. top \in Nat \ {0} /\ Matching \in SUBSET Chunks /\ Chunks \in SUBSET Chunks
  <2>1. TopK \in Nat \ {0} /\ ExpansionTopK \in Nat \ {0}
    BY RetrievalAssumption
  <2>2. Matching \subseteq Chunks
    BY RetrievalAssumption
  <2> QED BY <2>1, <2>2
<1>2. PICK S \in SUBSET Chunks : S = IF within THEN Matching ELSE Chunks
  BY <1>1
<1>3. Found[within][top] = UNION {Results(v, b, top) : v \in Lists(S), b \in Lists(S)}
  <2>1. Found[within][top] = LET lists == Lists(IF within THEN Matching ELSE Chunks)
                             IN  UNION {Results(v, b, top) : v \in lists, b \in lists}
    BY DEF Found
  <2> QED BY <1>2, <2>1
<1>4. PICK v \in Lists(S), b \in Lists(S) : out \in Results(v, b, top)
  BY <1>3
<1>5. out \in Seq(Chunks) /\ Range(out) \subseteq S
  BY <1>1, <1>4, ResultsFacts
<1> QED BY <1>2, <1>5

-----------------------------------------------------------------------------
(* The score of a result.                                                   *)

LEMMA QuotientFalls ==
    ASSUME NEW a \in Nat, NEW b \in Nat, NEW t \in Nat \ {0}, NEW e \in Nat \ {0}, b * t <= a * e
    PROVE  b \div e <= a \div t
<1>1. PICK p \in Nat, m \in 0..(t - 1) : p = a \div t /\ a = t * p + m
  BY DivFacts
<1>2. PICK q \in Nat, n \in 0..(e - 1) : q = b \div e /\ b = e * q + n
  BY DivFacts
<1>3. ASSUME p < q PROVE FALSE
  <2>1. PICK k \in Nat : k = p + 1 /\ k <= q
    BY <1>3
  <2>2. PICK tk \in Nat : tk = t * k /\ tk = t * p + t
    <3>1. t * k \in Nat /\ t * (p + 1) = t * p + t
      BY TimesGrows
    <3> QED BY <2>1, <3>1
  <2>3. a < tk
    BY <1>1, <2>2, TimesGrows
  <2>4. a * e < tk * e
    BY <2>3, TimesGrows
  <2>5. PICK ke \in Nat, qe \in Nat : ke = k * e /\ qe = q * e
    BY TimesGrows
  <2>6. ke <= qe /\ qe <= b
    <3>1. k * e <= q * e
      BY <2>1, TimesGrows
    <3>2. q * e = e * q
      OBVIOUS
    <3>3. e * q <= b
      <4>1. PICK w \in Nat : w = e * q
        BY TimesGrows
      <4>2. n \in Nat /\ b = w + n
        BY <1>2, <4>1
      <4> QED BY <4>1, <4>2
    <3> QED BY <2>5, <3>1, <3>2, <3>3
  <2>7. ke <= b
    BY <2>6
  <2>8. ke * t <= b * t
    BY <2>7, TimesGrows
  <2>9. ke * t = tk * e
    BY <2>2, <2>5
  <2>10. a * e \in Nat /\ b * t \in Nat /\ tk * e \in Nat
    BY TimesGrows
  <2> QED BY <2>4, <2>8, <2>9, <2>10
<1> QED BY <1>1, <1>2, <1>3

LEMMA ScoreFacts ==
    ASSUME NEW h \in Nat, NEW d \in Nat, NEW sim \in Nat, NEW t \in Nat \ {0}
    PROVE  /\ Score(h, d, sim, t) \in Nat
           /\ \A e \in Nat : t <= e => Score(h, d, sim, e) <= Score(h, d, sim, t)
<1>1. CASE h = 0
  BY <1>1 DEF Score
<1>2. CASE h # 0
  <2>1. PICK v \in Nat : v = (180 * d) \div h
    BY <1>2, DivFacts
  <2>2. ASSUME NEW k \in Nat \ {0}
        PROVE  \E f \in Nat, q \in Nat :
                  /\ f = (IF h < k THEN h ELSE k) /\ q = (540 * f) \div k
                  /\ Score(h, d, sim, k) = q + 240 * sim + v
    <3>1. PICK f \in Nat : f = (IF h < k THEN h ELSE k)
      OBVIOUS
    <3>2. PICK g \in Nat : g = 540 * f
      OBVIOUS
    <3>3. PICK q \in Nat : q = g \div k
      BY DivFacts
    <3>4. Score(h, d, sim, k) = q + 240 * sim + v
      BY <1>2, <2>1, <3>1, <3>2, <3>3 DEF Score
    <3> QED BY <3>1, <3>2, <3>3, <3>4
  <2>3. PICK f \in Nat, q \in Nat :
           /\ f = (IF h < t THEN h ELSE t) /\ q = (540 * f) \div t
           /\ Score(h, d, sim, t) = q + 240 * sim + v
    BY <2>2
  <2>4. ASSUME NEW e \in Nat, t <= e PROVE Score(h, d, sim, e) <= Score(h, d, sim, t)
    <3>1. e \in Nat \ {0}
      BY <2>4
    <3>2. PICK g \in Nat, p \in Nat :
             /\ g = (IF h < e THEN h ELSE e) /\ p = (540 * g) \div e
             /\ Score(h, d, sim, e) = p + 240 * sim + v
      BY <2>2, <3>1
    <3>3. g * t <= f * e
      <4>1. CASE h < t
        <5>1. f = h /\ g = h
          BY <2>3, <2>4, <3>2, <4>1
        <5>2. t * h <= e * h
          BY <2>4, TimesGrows
        <5> QED BY <5>1, <5>2
      <4>2. CASE h >= t
        <5>1. f = t /\ g <= e
          BY <2>3, <3>2, <4>2
        <5>2. g * t <= e * t
          BY <5>1, TimesGrows
        <5> QED BY <5>1, <5>2
      <4> QED BY <4>1, <4>2
    <3>4. PICK a \in Nat, b \in Nat : a = 540 * f /\ b = 540 * g
      OBVIOUS
    <3>5. b * t <= a * e
      <4>1. PICK x \in Nat, y \in Nat : x = g * t /\ y = f * e
        BY TimesGrows
      <4>2. b * t = 540 * x /\ a * e = 540 * y
        BY <3>4, <4>1
      <4> QED BY <3>3, <4>1, <4>2
    <3>6. b \div e <= a \div t
      BY <3>1, <3>5, QuotientFalls
    <3>7. p <= q
      BY <2>3, <3>2, <3>4, <3>6
    <3> QED BY <2>3, <3>2, <3>7
  <2>5. Score(h, d, sim, t) \in Nat
    BY <2>3
  <2> QED BY <2>4, <2>5
<1> QED BY <1>1, <1>2

LEMMA MeasureFacts ==
    ASSUME NEW s \in Seq(Chunks), NEW sim \in 0..2, NEW t \in Nat \ {0}, NEW q, q = Measure(s, sim, t)
    PROVE  /\ q.score \in Nat
           /\ \A e \in Nat : t <= e => Measure(s, sim, e).score <= q.score
           /\ q.sim = IF s = <<>> THEN 0 ELSE sim
           /\ s # <<>> => q.sim = sim
           /\ \A x : s = <<>> => Measure(s, x, t).score = 0
<1>1. PICK d : d = Cardinality({Doc[c] : c \in Range(s)})
  OBVIOUS
<1>2. d \in Nat
  <2>1. PICK f : f = [c \in Range(s) |-> Doc[c]]
    OBVIOUS
  <2>2. f \in Surjection(Range(s), {Doc[c] : c \in Range(s)})
    BY <2>1 DEF Surjection
  <2>3. IsFiniteSet({Doc[c] : c \in Range(s)})
    BY <2>2, FiniteRange, FS_Surjection
  <2> QED BY <1>1, <2>3, FS_CardinalityType
<1>3. PICK h \in Nat : h = Len(s) /\ (h = 0 <=> s = <<>>)
  BY LenProperties, EmptySeq
<1>4. \A x, e : Measure(s, x, e) = [score |-> Score(h, d, x, e), hits |-> h, docs |-> d,
                                    sim |-> IF s = <<>> THEN 0 ELSE x]
  BY <1>1, <1>3 DEF Measure
<1>5. \A x, e : Measure(s, x, e).score = Score(h, d, x, e)
  BY <1>4
<1>6. q.sim = IF s = <<>> THEN 0 ELSE sim
  BY <1>4
<1>7. Score(h, d, sim, t) \in Nat /\ \A e \in Nat : t <= e => Score(h, d, sim, e) <= Score(h, d, sim, t)
  <2>1. PICK n \in Nat : n = sim
    OBVIOUS
  <2>2. Score(h, d, n, t) \in Nat
    BY <1>2, ScoreFacts
  <2>3. \A e \in Nat : t <= e => Score(h, d, n, e) <= Score(h, d, n, t)
    BY <1>2, ScoreFacts
  <2> QED BY <2>1, <2>2, <2>3
<1>8. \A x : s = <<>> => Measure(s, x, t).score = 0
  BY <1>3, <1>5 DEF Score
<1> QED BY <1>5, <1>6, <1>7, <1>8

\* What the fast path takes is not low.
LEMMA GoodIsNotLow ==
    ASSUME NEW q, q.score \in Nat, GoodEnough(q)
    PROVE  ~IsLow(q)
<1>1. Threshold \in Int /\ Margin \in Int
  BY RetrievalAssumption
<1>2. FastTarget \in Int /\ FastTarget >= Threshold
  BY <1>1 DEF FastTarget
<1> QED BY <1>1, <1>2 DEF GoodEnough, IsLow

-----------------------------------------------------------------------------
(* The inductive invariant: what holds in each phase of the pipeline.       *)

Phases == {"idle", "fast", "queries", "sub", "merged", "rewrite", "expand", "end", "raised"}
Searching == {"fast", "sub", "expand"}

Typed ==
    /\ pc \in Phases
    /\ filter \in BOOLEAN /\ dropped \in BOOLEAN /\ inside \in BOOLEAN /\ expanded \in BOOLEAN
    /\ chunks \in Seq(Chunks) /\ quality.score \in Nat

\* A result is waiting to be looked at only while something is searched, and it is a list.
Waiting ==
    /\ pc \notin Searching => hits = NoHits
    /\ hits # NoHits => hits[1] \in Seq(Chunks)

\* What is known at the start of a phase.
Phased ==
    /\ pc \in {"idle", "fast", "queries"} => chunks = <<>>
    /\ pc \in {"idle", "queries"} => ~dropped /\ ~inside
    /\ pc \in {"idle", "fast", "queries", "sub", "merged", "rewrite"} => ~expanded
    /\ pc = "expand" => expanded

\* A phase that has a filter and did not drop it holds only what the filter selects.
Selected ==
    filter /\ ~dropped =>
        /\ hits # NoHits => Range(hits[1]) \subseteq Matching
        /\ pc \in {"sub", "merged"} => Range(chunks) \subseteq Matching

\* The filter is dropped only by a phase that found nothing within it.
DroppedForNothing ==
    /\ pc \in {"fast", "sub", "merged", "expand"} /\ filter /\ dropped => ~inside
    /\ pc \in {"fast", "expand"} /\ inside /\ ~dropped => hits # NoHits /\ hits[1] # <<>>
    /\ pc \in {"sub", "merged"} /\ inside /\ ~dropped =>
          chunks # <<>> \/ (hits # NoHits /\ hits[1] # <<>>)

\* What the expansion may fall back to is as the first phases left it.
Remembered ==
    pc \in {"rewrite", "expand"} =>
        /\ first.chunks = chunks /\ first.quality = quality
        /\ first.dropped \in BOOLEAN /\ first.inside \in BOOLEAN
        /\ filter /\ ~(Range(chunks) \subseteq Matching) => first.dropped = TRUE /\ first.inside = FALSE

RInv == /\ Typed /\ Waiting /\ Phased /\ Selected /\ DroppedForNothing /\ Remembered
        /\ FilterHonoured /\ QualityIsPursued

LEMMA RInit == Init => RInv
<1> SUFFICES ASSUME Init PROVE RInv
  OBVIOUS
<1>1. <<>> \in Seq(Chunks) /\ quality.score = 0
  BY EmptySeq DEF Init, NoQuality
<1>2. Typed
  <2>1. pc \in Phases /\ chunks \in Seq(Chunks) /\ quality.score \in Nat
    BY <1>1 DEF Init, Phases
  <2>2. filter \in BOOLEAN /\ dropped \in BOOLEAN /\ inside \in BOOLEAN /\ expanded \in BOOLEAN
    BY DEF Init
  <2> QED BY <2>1, <2>2 DEF Typed
<1>3. Waiting /\ Phased /\ Selected /\ DroppedForNothing /\ Remembered
  BY DEF Init, Waiting, Phased, Selected, DroppedForNothing, Remembered, Searching
<1>4. FilterHonoured /\ QualityIsPursued
  BY DEF Init, FilterHonoured, QualityIsPursued
<1> QED BY <1>2, <1>3, <1>4 DEF RInv

\* The steps that look at no result.
LEMMA RPlain ==
    ASSUME RInv, \/ \E f, complex \in BOOLEAN : Begin(f, complex)
                 \/ \E n \in 1..2 : Queries(n) \/ Fallback(n)
                 \/ SearchFails \/ Rewrite \/ Return
    PROVE  RInv'
<1>1. <<>> \in Seq(Chunks) /\ NoQuality.score = 0
  BY EmptySeq DEF NoQuality
<1>2. CASE \E f, complex \in BOOLEAN : Begin(f, complex)
  <2>1. pc' # "end"
    BY <1>2 DEF Begin
  <2>2. Typed'
    BY <1>2 DEF Begin, RInv, Typed, Phases
  <2>3. (Waiting /\ Phased /\ Selected /\ DroppedForNothing /\ Remembered)'
    BY <1>2 DEF Begin, RInv, Typed, Waiting, Phased, Selected, DroppedForNothing, Remembered, Searching
  <2> QED BY <2>1, <2>2, <2>3 DEF RInv, FilterHonoured, QualityIsPursued
<1>3. ASSUME NEW n \in 1..2, Queries(n) PROVE RInv'
  <2>1. pc' # "end"
    BY <1>3 DEF Queries
  <2>2. Typed'
    BY <1>3 DEF Queries, RInv, Typed, Phases
  <2>3. Range(<<>>) = {}
    BY EmptySeq, LenProperties DEF Range
  <2>4. (Waiting /\ Phased /\ Selected /\ DroppedForNothing /\ Remembered)'
    BY <1>3, <2>3 DEF Queries, RInv, Typed, Waiting, Phased, Selected, DroppedForNothing, Remembered, Searching
  <2> QED BY <2>1, <2>2, <2>4 DEF RInv, FilterHonoured, QualityIsPursued
<1>4. ASSUME NEW n \in 1..2, Fallback(n) PROVE RInv'
  <2>1. pc' # "end"
    BY <1>4 DEF Fallback
  <2>2. Typed'
    BY <1>4 DEF Fallback, RInv, Typed, Phases
  <2>3. (Waiting /\ Phased /\ Selected /\ DroppedForNothing /\ Remembered)'
    BY <1>4 DEF Fallback, RInv, Typed, Waiting, Phased, Selected, DroppedForNothing, Remembered, Searching
  <2> QED BY <2>1, <2>2, <2>3 DEF RInv, FilterHonoured, QualityIsPursued
<1>5. CASE SearchFails
  <2>1. pc' # "end"
    BY <1>5 DEF SearchFails, Raise
  <2>2. Typed'
    BY <1>1, <1>5 DEF SearchFails, Raise, RInv, Typed, Phases
  <2>3. (Waiting /\ Phased)'
    BY <1>5 DEF SearchFails, Raise, RInv, Waiting, Phased, Searching
  <2>4. (Selected /\ DroppedForNothing /\ Remembered)'
    BY <1>5 DEF SearchFails, Raise, RInv, Typed, Waiting, Selected, DroppedForNothing, Remembered
  <2> QED BY <2>1, <2>2, <2>3, <2>4 DEF RInv, FilterHonoured, QualityIsPursued
<1>6. CASE Rewrite
  <2>1. pc' # "end"
    BY <1>6 DEF Rewrite, Raise
  <2>2. Typed'
    BY <1>1, <1>6 DEF Rewrite, Raise, RInv, Typed, Phases
  <2>3. (Waiting /\ Phased)'
    BY <1>6 DEF Rewrite, Raise, RInv, Waiting, Phased, Searching, NoHits
  <2>4. (Selected /\ DroppedForNothing /\ Remembered)'
    BY <1>6 DEF Rewrite, Raise, RInv, Typed, Waiting, Selected, DroppedForNothing, Remembered, Searching
  <2> QED BY <2>1, <2>2, <2>3, <2>4 DEF RInv, FilterHonoured, QualityIsPursued
<1>7. CASE Return
  <2>1. pc' # "end"
    BY <1>7 DEF Return
  <2>2. Typed'
    <3>1. (pc \in Phases /\ chunks \in Seq(Chunks) /\ quality.score \in Nat)'
      BY <1>1, <1>7 DEF Return, Phases
    <3>2. (filter \in BOOLEAN /\ dropped \in BOOLEAN /\ inside \in BOOLEAN /\ expanded \in BOOLEAN)'
      BY <1>7 DEF Return
    <3> QED BY <3>1, <3>2 DEF Typed
  <2>3. (Waiting /\ Phased /\ Selected /\ DroppedForNothing /\ Remembered)'
    BY <1>7 DEF Return, RInv, Typed, Waiting, Phased, Selected, DroppedForNothing, Remembered, Searching
  <2> QED BY <2>1, <2>2, <2>3 DEF RInv, FilterHonoured, QualityIsPursued
<1> QED BY <1>2, <1>3, <1>4, <1>5, <1>6, <1>7

LEMMA RSearch == ASSUME RInv, Search PROVE RInv'
<1>1. PICK within \in BOOLEAN, top \in {TopK, ExpansionTopK} :
         within = (filter /\ ~dropped) /\ top = IF pc = "expand" THEN ExpansionTopK ELSE TopK
  BY DEF RInv, Typed
<1>2. PICK out \in Found[within][top] :
         hits' = <<out>> /\ inside' = (inside \/ (filter /\ ~dropped /\ out # <<>>))
  BY <1>1 DEF Search
<1>3. out \in Seq(Chunks) /\ (within => Range(out) \subseteq Matching)
  BY FoundFacts
<1>4. hits'[1] = out /\ hits' # NoHits
  BY <1>2 DEF NoHits
<1>5. /\ pc \in Searching /\ hits = NoHits
      /\ UNCHANGED <<pc, async, filter, left, dropped, chunks, quality, first, expanded, fast>>
  BY DEF Search, Searching
<1>6. pc' # "end"
  BY <1>5 DEF Searching
<1>7. Typed'
  BY <1>2, <1>5 DEF RInv, Typed
<1>8. Waiting' /\ Phased'
  BY <1>3, <1>4, <1>5 DEF RInv, Waiting, Phased, Searching
<1>9. Selected'
  BY <1>1, <1>3, <1>4, <1>5 DEF RInv, Selected
<1>10. DroppedForNothing'
  BY <1>2, <1>4, <1>5 DEF RInv, Typed, DroppedForNothing
<1>11. Remembered'
  BY <1>5 DEF RInv, Remembered
<1> QED BY <1>6, <1>7, <1>8, <1>9, <1>10, <1>11 DEF RInv, FilterHonoured, QualityIsPursued

LEMMA RAgain == ASSUME RInv, ExpandAgain PROVE RInv'
<1>1. /\ pc = "expand" /\ pc' = pc /\ hits = <<<<>>>> /\ filter /\ ~dropped /\ dropped' = TRUE
      /\ hits' = NoHits /\ UNCHANGED <<inside, filter, chunks, quality, first, expanded>>
  BY DEF ExpandAgain, Retry
<1>2. Typed' /\ Waiting' /\ Phased' /\ Selected'
  BY <1>1 DEF RInv, Typed, Waiting, Phased, Selected, Searching, Phases
<1>3. ~inside
  BY <1>1 DEF RInv, DroppedForNothing
<1>4. DroppedForNothing' /\ Remembered'
  BY <1>1, <1>3 DEF RInv, DroppedForNothing, Remembered
<1> QED BY <1>1, <1>2, <1>4 DEF RInv, FilterHonoured, QualityIsPursued

LEMMA RMerge == ASSUME RInv, Merge PROVE RInv'
<1>1. PICK s \in Seq(Chunks) : s = hits[1]
  BY DEF Merge, RInv, Waiting
<1>2. PICK u : u = AppendUnique(chunks, s)
  OBVIOUS
<1>3. u \in Seq(Chunks) /\ Range(u) = Range(chunks) \cup Range(s)
  BY <1>2, UniqueFacts DEF RInv, Typed
<1>4. /\ pc = "sub" /\ hits # NoHits /\ chunks' = u /\ hits' = NoHits /\ pc' \in {"merged", "sub"}
      /\ UNCHANGED <<filter, dropped, inside, quality, first, expanded>>
  BY <1>1, <1>2 DEF Merge
<1>5. Typed'
  BY <1>3, <1>4 DEF RInv, Typed, Phases
<1>6. Waiting' /\ Phased'
  BY <1>4 DEF RInv, Waiting, Phased, Searching
<1>7. Selected'
  BY <1>1, <1>3, <1>4 DEF RInv, Selected
<1>8. DroppedForNothing'
  <2>1. Range(<<>>) = {}
    BY EmptySeq, LenProperties DEF Range
  <2>2. ASSUME NEW l \in Seq(Chunks), l # <<>> PROVE Range(l) # {}
    <3>1. Len(l) \in Nat \ {0} /\ DOMAIN l = 1..Len(l)
      BY <2>2, EmptySeq, LenProperties
    <3>2. 1 \in DOMAIN l
      BY <3>1
    <3> QED BY <3>2 DEF Range
  <2>3. chunks # <<>> \/ s # <<>> => u # <<>>
    <3>1. chunks \in Seq(Chunks)
      BY DEF RInv, Typed
    <3> QED BY <1>3, <2>1, <2>2, <3>1
  <2> QED BY <1>1, <1>4, <2>3 DEF RInv, DroppedForNothing
<1> QED BY <1>4, <1>5, <1>6, <1>7, <1>8 DEF RInv, Remembered, FilterHonoured, QualityIsPursued

LEMMA RFast == ASSUME RInv, NEW words, NEW sim \in 0..2, TryFast(words, sim) PROVE RInv'
<1>1. PICK s \in Seq(Chunks) : s = hits[1] /\ pc = "fast" /\ hits # NoHits
  BY DEF TryFast, RInv, Waiting
<1>2. UNCHANGED <<filter, first, expanded>> /\ hits' = NoHits
  BY DEF TryFast, Retry
<1>3. CASE s = <<>> /\ filter /\ ~dropped
  <2>1. dropped' = TRUE /\ UNCHANGED <<inside, pc, chunks, quality>>
    BY <1>1, <1>3 DEF TryFast, Retry
  <2>2. ~inside
    BY <1>1, <1>3 DEF RInv, DroppedForNothing
  <2>3. Typed' /\ Waiting' /\ Phased' /\ Selected'
    BY <1>1, <1>2, <2>1 DEF RInv, Typed, Waiting, Phased, Selected, Searching
  <2>4. DroppedForNothing' /\ Remembered'
    BY <1>1, <1>2, <2>1, <2>2 DEF DroppedForNothing, Remembered
  <2> QED BY <1>1, <2>1, <2>3, <2>4 DEF RInv, FilterHonoured, QualityIsPursued
<1>4. CASE ~(s = <<>> /\ filter /\ ~dropped)
  <2>1. PICK found, q : found = Filtered(s, words) /\ q = Measure(found, sim, TopK)
    OBVIOUS
  <2>2. IF GoodEnough(q)
        THEN pc' = "end" /\ chunks' = found /\ quality' = q /\ UNCHANGED <<dropped, inside>>
        ELSE pc' = "queries" /\ dropped' = FALSE /\ inside' = FALSE /\ UNCHANGED <<chunks, quality>>
    BY <1>1, <1>4, <2>1 DEF TryFast
  <2>3. found \in Seq(Chunks) /\ Range(found) \subseteq Range(s)
    BY <2>1, FilteredFacts
  <2>4. q.score \in Nat
    BY <2>1, <2>3, Limits, MeasureFacts
  <2>5. CASE GoodEnough(q)
    <3>1. pc' = "end" /\ chunks' = found /\ quality' = q /\ UNCHANGED <<dropped, inside>>
      BY <2>2, <2>5
    <3>2. Typed'
      BY <1>2, <2>3, <2>4, <3>1 DEF RInv, Typed, Phases
    <3>3. Waiting' /\ Phased' /\ Selected' /\ DroppedForNothing' /\ Remembered'
      BY <1>2, <3>1 DEF Waiting, Phased, Selected, DroppedForNothing, Remembered
    <3>4. FilterHonoured'
      <4>1. CASE filter /\ ~dropped
        BY <1>1, <1>2, <2>3, <3>1, <4>1 DEF RInv, Selected, FilterHonoured
      <4>2. CASE filter /\ dropped
        BY <1>1, <1>2, <3>1, <4>2 DEF RInv, DroppedForNothing, FilterHonoured
      <4>3. CASE ~filter
        BY <1>2, <4>3 DEF FilterHonoured
      <4> QED BY <4>1, <4>2, <4>3
    <3>5. ~expanded' /\ ~IsLow(q)
      BY <1>1, <1>2, <2>4, <2>5, GoodIsNotLow DEF RInv, Phased
    <3>6. IsLow(quality)' <=> IsLow(q)
      BY <3>1 DEF IsLow, Weak
    <3>7. QualityIsPursued'
      BY <3>5, <3>6 DEF QualityIsPursued
    <3> QED BY <3>2, <3>3, <3>4, <3>7 DEF RInv
  <2>6. CASE ~GoodEnough(q)
    <3>1. pc' = "queries" /\ dropped' = FALSE /\ inside' = FALSE /\ UNCHANGED <<chunks, quality>>
      BY <2>2, <2>6
    <3>2. Typed'
      BY <1>2, <3>1 DEF RInv, Typed, Phases
    <3>3. Waiting' /\ Phased' /\ Selected' /\ DroppedForNothing' /\ Remembered'
      BY <1>1, <1>2, <3>1 DEF RInv, Waiting, Phased, Selected, DroppedForNothing, Remembered
    <3> QED BY <3>1, <3>2, <3>3 DEF RInv, FilterHonoured, QualityIsPursued
  <2> QED BY <2>5, <2>6
<1> QED BY <1>3, <1>4

\* A list cut to so many is a list of some of its chunks.
LEMMA ShortFacts ==
    ASSUME NEW t \in Seq(Chunks), NEW n \in Nat, NEW u, u = CutTo(t, n)
    PROVE  u \in Seq(Chunks) /\ Range(u) \subseteq Range(t)
<1>1. Len(t) \in Nat
  BY LenProperties
<1>2. PICK k \in 0..Len(t) : k = IF Len(t) < n THEN Len(t) ELSE n
  BY <1>1
<1>3. u = SubSeq(t, 1, k)
  BY <1>2 DEF CutTo
<1> QED BY <1>3, CutFacts

LEMMA REvaluate ==
    ASSUME RInv, NEW words, NEW sim \in 0..2, NEW order \in Orders(chunks), Evaluate(order, words, sim)
    PROVE  RInv'
<1>1. PICK cut : cut = CutTo(order, 2 * TopK)
  OBVIOUS
<1>2. PICK kept, q : kept = Filtered(cut, words) /\ q = Measure(kept, sim, TopK)
  OBVIOUS
<1>3. /\ pc = "merged" /\ chunks' = kept /\ quality' = q
      /\ UNCHANGED <<filter, hits, dropped, inside, expanded>>
  BY <1>1, <1>2 DEF Evaluate
<1>4. IF IsLow(q)
      THEN pc' = "rewrite" /\ first' = [chunks |-> kept, quality |-> q, dropped |-> dropped, inside |-> inside]
      ELSE pc' = "end"
  BY <1>1, <1>2 DEF Evaluate
<1>5. cut \in Seq(Chunks) /\ Range(cut) \subseteq Range(chunks)
  <2>1. 2 * TopK \in Nat /\ chunks \in Seq(Chunks)
    BY Limits DEF RInv, Typed
  <2>2. order \in Seq(Chunks) /\ Range(order) \subseteq Range(chunks)
    BY <2>1, OrdersFacts
  <2> QED BY <1>1, <2>1, <2>2, ShortFacts
<1>6. kept \in Seq(Chunks) /\ Range(kept) \subseteq Range(cut)
  BY <1>2, <1>5, FilteredFacts
<1>7. q.score \in Nat
  BY <1>2, <1>6, Limits, MeasureFacts
<1>8. hits = NoHits /\ ~expanded
  BY <1>3 DEF RInv, Waiting, Phased, Searching
<1>9. filter /\ ~(Range(kept) \subseteq Matching) => dropped /\ ~inside
  <2>1. CASE filter /\ ~dropped
    BY <1>3, <1>5, <1>6, <2>1 DEF RInv, Selected
  <2>2. CASE filter /\ dropped
    BY <1>3, <2>2 DEF RInv, DroppedForNothing
  <2> QED BY <2>1, <2>2
<1>10. Typed'
  BY <1>3, <1>4, <1>6, <1>7 DEF RInv, Typed, Phases
<1>11. Waiting' /\ Phased' /\ Selected' /\ DroppedForNothing'
  BY <1>3, <1>4, <1>8 DEF Waiting, Phased, Selected, DroppedForNothing
<1>12. Remembered'
  <2> SUFFICES ASSUME IsLow(q)
               PROVE  (/\ first.chunks = chunks /\ first.quality = quality
                       /\ first.dropped \in BOOLEAN /\ first.inside \in BOOLEAN
                       /\ filter /\ ~(Range(chunks) \subseteq Matching) =>
                             first.dropped = TRUE /\ first.inside = FALSE)'
    BY <1>4 DEF Remembered
  <2>1. /\ first'.chunks = kept /\ first'.quality = q
        /\ first'.dropped = dropped /\ first'.inside = inside
    BY <1>4
  <2>2. filter /\ ~(Range(kept) \subseteq Matching) => first'.dropped = TRUE /\ first'.inside = FALSE
    BY <1>9, <2>1 DEF RInv, Typed
  <2>3. first'.dropped \in BOOLEAN /\ first'.inside \in BOOLEAN
    BY <2>1 DEF RInv, Typed
  <2> QED BY <1>3, <2>1, <2>2, <2>3
<1>13. FilterHonoured'
  BY <1>3, <1>9 DEF FilterHonoured
<1>14. QualityIsPursued'
  <2>1. IsLow(quality)' <=> IsLow(q)
    BY <1>3 DEF IsLow, Weak
  <2> QED BY <1>3, <1>4, <1>8, <2>1 DEF QualityIsPursued
<1> QED BY <1>10, <1>11, <1>12, <1>13, <1>14 DEF RInv

LEMMA RExpand ==
    ASSUME RInv, NEW words, NEW sim \in 0..2, hits # NoHits, NEW order \in Orders(hits[1]),
           Expand(order, words, sim)
    PROVE  RInv'
<1>1. PICK s \in Seq(Chunks) : s = hits[1]
  BY DEF RInv, Waiting
<1>2. PICK some : some = Filtered(order, words)
  OBVIOUS
<1>3. PICK kept, q : kept = CutTo(some, ExpansionTopK) /\ q = Measure(kept, sim, ExpansionTopK)
  OBVIOUS
<1>4. /\ pc = "expand" /\ ~(hits[1] = <<>> /\ filter /\ ~dropped) /\ pc' = "end" /\ hits' = NoHits
      /\ UNCHANGED <<filter, first, expanded>>
  BY DEF Expand
<1>5. IF q.score >= quality.score + MinImprovement
      THEN chunks' = kept /\ quality' = q /\ UNCHANGED <<dropped, inside>>
      ELSE dropped' = first.dropped /\ inside' = first.inside /\ UNCHANGED <<chunks, quality>>
  BY <1>2, <1>3 DEF Expand
<1>6. /\ TopK \in Nat \ {0} /\ ExpansionTopK \in Nat \ {0}
      /\ MinImprovement \in Nat
  <2>1. TopK \in Nat \ {0} /\ ExpansionTopK \in Nat \ {0}
    BY RetrievalAssumption
  <2>2. MinImprovement \in Nat
    BY RetrievalAssumption
  <2> QED BY <2>1, <2>2
<1>7. some \in Seq(Chunks) /\ Range(some) \subseteq Range(s)
  <2>1. order \in Seq(Chunks) /\ Range(order) \subseteq Range(s)
    BY <1>1, OrdersFacts
  <2>2. some \in Seq(Chunks) /\ Range(some) \subseteq Range(order)
    BY <1>2, <2>1, FilteredFacts
  <2> QED BY <2>1, <2>2
<1>8. kept \in Seq(Chunks) /\ Range(kept) \subseteq Range(some)
  BY <1>3, <1>6, <1>7, ShortFacts
<1>9. q.score \in Nat
  BY <1>3, <1>6, <1>8, MeasureFacts
<1>10. /\ expanded /\ first.chunks = chunks /\ first.quality = quality
       /\ filter /\ ~(Range(chunks) \subseteq Matching) => first.dropped = TRUE /\ first.inside = FALSE
  BY <1>4 DEF RInv, Phased, Remembered
<1>11. CASE q.score >= quality.score + MinImprovement
  <2>1. chunks' = kept /\ quality' = q /\ UNCHANGED <<dropped, inside>>
    BY <1>5, <1>11
  <2>2. Typed'
    BY <1>4, <1>8, <1>9, <2>1 DEF RInv, Typed, Phases
  <2>3. Waiting' /\ Phased' /\ Selected' /\ DroppedForNothing' /\ Remembered'
    BY <1>4, <2>1 DEF Waiting, Phased, Selected, DroppedForNothing, Remembered
  <2>4. FilterHonoured'
    <3>1. CASE filter /\ ~dropped
      BY <1>1, <1>4, <1>7, <1>8, <2>1, <3>1 DEF RInv, Selected, FilterHonoured
    <3>2. CASE filter /\ dropped
      BY <1>4, <2>1, <3>2 DEF RInv, DroppedForNothing, FilterHonoured
    <3>3. CASE ~filter
      BY <1>4, <3>3 DEF FilterHonoured
    <3> QED BY <3>1, <3>2, <3>3
  <2>5. ASSUME TopK <= ExpansionTopK
        PROVE  Measure(kept, q.sim, TopK).score >= first.quality.score + MinImprovement
    <3>1. quality.score \in Nat /\ first.quality.score = quality.score
      BY <1>10 DEF RInv, Typed
    <3>2. CASE kept = <<>>
      <4>1. q.score = 0
        BY <1>3, <1>6, <1>8, <3>2, MeasureFacts
      <4>2. Measure(kept, q.sim, TopK).score = 0
        BY <1>6, <1>8, <3>2, MeasureFacts
      <4> QED BY <1>6, <1>11, <3>1, <4>1, <4>2
    <3>3. CASE kept # <<>>
      <4>1. q.sim = sim
        BY <1>3, <1>6, <1>8, <3>3, MeasureFacts
      <4>2. PICK p : p = Measure(kept, sim, TopK)
        OBVIOUS
      <4>3. p.score \in Nat
        BY <1>6, <1>8, <4>2, MeasureFacts
      <4>4. \A e \in Nat : TopK <= e => Measure(kept, sim, e).score <= p.score
        BY <1>6, <1>8, <4>2, MeasureFacts
      <4>5. q.score <= p.score
        BY <1>3, <1>6, <2>5, <4>4
      <4> QED BY <1>6, <1>9, <1>11, <3>1, <4>1, <4>2, <4>3, <4>5
    <3> QED BY <3>2, <3>3
  <2>6. QualityIsPursued'
    <3>1. ExpansionTopK >= TopK <=> TopK <= ExpansionTopK
      BY <1>6
    <3> QED BY <1>4, <1>10, <2>1, <2>5, <3>1 DEF QualityIsPursued
  <2> QED BY <2>2, <2>3, <2>4, <2>6 DEF RInv
<1>12. CASE ~(q.score >= quality.score + MinImprovement)
  <2>1. dropped' = first.dropped /\ inside' = first.inside /\ UNCHANGED <<chunks, quality>>
    BY <1>5, <1>12
  <2>2. Typed'
    <3>1. dropped' \in BOOLEAN /\ inside' \in BOOLEAN
      BY <1>4, <2>1 DEF RInv, Remembered
    <3> QED BY <1>4, <2>1, <3>1 DEF RInv, Typed, Phases
  <2>3. Waiting' /\ Phased' /\ Selected' /\ DroppedForNothing' /\ Remembered'
    BY <1>4, <2>1 DEF Waiting, Phased, Selected, DroppedForNothing, Remembered
  <2>4. FilterHonoured'
    BY <1>4, <1>10, <2>1 DEF FilterHonoured
  <2>5. QualityIsPursued'
    BY <1>4, <1>10, <2>1 DEF QualityIsPursued
  <2> QED BY <2>2, <2>3, <2>4, <2>5 DEF RInv
<1> QED BY <1>11, <1>12

LEMMA RNext == ASSUME RInv, [Next]_vars PROVE RInv'
<1>1. CASE UNCHANGED vars
  <2>1. pc' = pc /\ UNCHANGED <<filter, hits, dropped, inside, chunks, quality, first, expanded>>
    BY <1>1 DEF vars
  <2>2. Typed' /\ Waiting' /\ Phased' /\ Selected' /\ DroppedForNothing' /\ Remembered'
    BY <2>1 DEF RInv, Typed, Waiting, Phased, Selected, DroppedForNothing, Remembered
  <2>3. FilterHonoured' /\ QualityIsPursued'
    BY <2>1 DEF RInv, FilterHonoured, QualityIsPursued, IsLow, Weak
  <2> QED BY <2>2, <2>3 DEF RInv
<1>2. CASE \/ \E f, complex \in BOOLEAN : Begin(f, complex)
           \/ \E n \in 1..2 : Queries(n) \/ Fallback(n)
           \/ SearchFails \/ Rewrite \/ Return
  BY <1>2, RPlain
<1>3. CASE Search
  BY <1>3, RSearch
<1>4. CASE Merge
  BY <1>4, RMerge
<1>5. CASE ExpandAgain
  BY <1>5, RAgain
<1>6. ASSUME NEW words \in SUBSET Chunks, NEW sim \in 0..2, TryFast(words, sim) PROVE RInv'
  BY <1>6, RFast
<1>7. ASSUME NEW words \in SUBSET Chunks, NEW sim \in 0..2,
             NEW order \in Orders(chunks), Evaluate(order, words, sim)
      PROVE  RInv'
  BY <1>7, REvaluate
<1>8. ASSUME NEW words \in SUBSET Chunks, NEW sim \in 0..2, hits # NoHits,
             NEW order \in Orders(hits[1]), Expand(order, words, sim)
      PROVE  RInv'
  BY <1>8, RExpand
<1> QED BY <1>1, <1>2, <1>3, <1>4, <1>5, <1>6, <1>7, <1>8 DEF Next

THEOREM RInvariant == Spec => []RInv
<1>1. Init => RInv
  BY RInit
<1>2. RInv /\ [Next]_vars => RInv'
  BY RNext
<1> QED BY <1>1, <1>2, PTL DEF Spec

\* A chunk outside of the filter is returned only if the searches that led to the result
\* found nothing within it, whatever the searches and the model answer and whichever of
\* them fail (RagRetrievalPipeline.run, run_async).
THEOREM FilterIsHonoured == Spec => []FilterHonoured
<1>1. RInv => FilterHonoured
  BY DEF RInv
<1> QED BY <1>1, RInvariant, PTL

\* A weak result was tried to be improved, and one that replaced another is better than it
\* on the scale of the first too, for all thresholds and limits (RagRetrievalPipeline.run, run_async).
THEOREM PoorIsPursued == Spec => []QualityIsPursued
<1>1. RInv => QualityIsPursued
  BY DEF RInv
<1> QED BY <1>1, RInvariant, PTL
=============================================================================
