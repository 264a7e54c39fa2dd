--------------------------- MODULE ContextBudget ----------------------------
(***************************************************************************)
(* How AnswerSynthesisService shares the prompt's room among the results   *)
(* of the steps (agent/brain/synthesis.py).  A result is its length.       *)
(***************************************************************************)
EXTENDS Sorting

CONSTANTS MaxContext, \* MAX_CONTEXT_LEN
          MinEach     \* min_each: what every result is given first

ASSUME BudgetAssumption == MaxContext \in Nat \ {0} /\ MinEach \in Nat \ {0}

AtLeast(a, b) == IF a > b THEN a ELSE b
AtMost(a, b) == IF a < b THEN a ELSE b
Total(s) ==
    LET sum[k \in 0..Len(s)] == IF k = 0 THEN 0 ELSE sum[k - 1] + s[k]
    IN  sum[Len(s)]

\* The length of texts joined by one separator between two of them.
Joined(lens) == IF lens = <<>> THEN 0 ELSE Total(lens) + Len(lens) - 1

\* A text cut to a budget keeps its two ends around a marker; each of the ways to cut it
\* gives a text exactly as long as the budget.
Shrunk(len, budget) == AtLeast(0, AtMost(len, budget))

\* Those that are still cut, in the order of sorted(range(n), key=..., reverse=True), until
\* there is nothing left to give.
Given_Wrong(allocs, lens, left, key) ==
    LET cut == {i \in DOMAIN lens : allocs[i] < lens[i]}
    IN  {i \in cut : Cardinality({j \in cut : Precedes(key, j, i)}) <= left}

Given(allocs, lens, left, key) ==
    LET cut == {i \in DOMAIN lens : allocs[i] < lens[i]}
    IN  {i \in cut : Cardinality({j \in cut : Precedes(key, j, i)}) < left}

\* One more character for each of them.
HandOut(allocs, lens, left, key) ==
    LET given == Given(allocs, lens, left, key)
    IN  [allocs |-> [i \in DOMAIN lens |-> allocs[i] + (IF i \in given THEN 1 ELSE 0)],
         left |-> left - Cardinality(given)]

\* int(remaining * (r / residual_total)): where the product is a whole number, the two
\* roundings of the floats may leave it just short of it, which "short" says.
Portion(left, r, all, short) ==
    IF all = 0 THEN 0
    ELSE AtMost(r, (left * r) \div all - (IF short /\ r > 0 /\ (left * r) % all = 0 THEN 1 ELSE 0))

\* The budgets of the results, for those lengths of which "short" may fall short.
Allocs(lens, short) ==
    LET n == Len(lens)
        room == AtLeast(1, MaxContext - (n - 1))
        each == IF room < n * MinEach THEN AtLeast(1, room \div n) ELSE MinEach
        left == room - n * each
        over == [i \in 1..n |-> AtLeast(0, lens[i] - each)]
        extra == [i \in 1..n |-> IF left > 0 THEN Portion(left, over[i], Total(over), i \in short) ELSE 0]
        first == HandOut([i \in 1..n |-> each + extra[i]], lens, left - Total(extra),
                         [i \in 1..n |-> over[i] - extra[i]])
    IN  HandOut(first.allocs, lens, first.left, lens).allocs

\* The lengths of the results as they enter the prompt, before the last cut of the whole.
Shares(lens, short) ==
    IF Joined(lens) <= MaxContext THEN lens
    ELSE LET allocs == Allocs(lens, short) IN [i \in DOMAIN lens |-> Shrunk(lens[i], allocs[i])]
=============================================================================
