-------------------------- MODULE Synthesis_proofs --------------------------
(***************************************************************************)
(* Proofs about the calls of the model and the answer made of them, for    *)
(* every number of attempts, length of a stream, size of the prompt and    *)
(* results of the steps.                                                   *)
(***************************************************************************)
EXTENDS Synthesis, SequenceTheorems, FunctionTheorems, FiniteSetTheorems, WellFoundedInduction,
        TLAPS

(* The calls.  A retry begins with nothing handed out, and an attempt that  *)
(* streams has handed out only what came from itself.                       *)
ClientInv ==
    /\ out \in Seq(Nat) /\ attempt \in Nat
    /\ at \in {"idle", "post", "backoff"} => out = <<>>
    /\ at = "reading" => \A i \in DOMAIN out : out[i] = attempt
    /\ canceled => kind \in {"stream", "stream_async"}
    /\ OneAnswer

USE DEF Kinds

\* A call begins with nothing handed out, and only a stream with a cancel event.
LEMMA CallKeeps ==
    ASSUME ClientInv, NEW k, NEW c \in BOOLEAN, Call(k, c),
           c => k \in {"stream", "stream_async"}
    PROVE  ClientInv'
  BY DEF ClientInv, Call, OneAnswer

\* What one step of a call leaves of it.
LEMMA ClientStepKeeps ==
    ASSUME ClientInv, ClientStep
    PROVE  ClientInv'
<1> USE ClientAssumption DEF ClientInv, OneAnswer, Same
<1>1. CASE Answer
  BY <1>1 DEF Answer, Reply
<1>2. CASE Garbled \/ Refused \/ Denied \/ Unreachable \/ Connect
  BY <1>2 DEF Garbled, Refused, Denied, Unreachable, Connect, Reply, GiveUp, BackOff, FallBack
<1>3. CASE Retry
  BY <1>3 DEF Retry
<1>4. CASE Chunk
  <2>1. CASE canceled
    BY <1>4, <2>1 DEF Chunk, Reading, StopReading
  <2>2. CASE ~canceled
    <3>1. /\ at' = "reading" /\ (out' = Append(out, attempt) \/ out' = out)
          /\ UNCHANGED <<attempt, canceled, kind>>
      BY <1>4, <2>2 DEF Chunk, Reading, ReadOn, HandOver
    <3>2. \A i \in DOMAIN out : out[i] = attempt
      BY <1>4 DEF Chunk, Reading
    <3>3. out' \in Seq(Nat) /\ \A i \in DOMAIN out' : out'[i] = attempt
      BY <3>1, <3>2
    <3> QED BY <2>2, <3>1, <3>3
  <2> QED BY <2>1, <2>2
<1>5. CASE SkipLine \/ StreamDone \/ StreamEnds
  BY <1>5 DEF SkipLine, StreamDone, StreamEnds, Reading, StopReading, ReadOn
<1>6. CASE Broken
  BY <1>6 DEF Broken, GiveUp, BackOff, Emitted
<1> QED BY <1>1, <1>2, <1>3, <1>4, <1>5, <1>6 DEF ClientStep, StreamStops

\* The caller's steps: a new call, an event that is set, the end, or no change of the call.
LEMMA CallerKeeps ==
    ASSUME ClientInv, [Ask \/ Work \/ Cancel]_vars
    PROVE  ClientInv'
<1>1. CASE UNCHANGED client
  BY <1>1 DEF ClientInv, OneAnswer, client
<1>2. CASE Cancel
  BY <1>2 DEF Cancel, CancelCall, ClientInv, OneAnswer
<1>3. ASSUME NEW b \in BOOLEAN, NEW c \in BOOLEAN, Draft(b, c)
      PROVE  ClientInv'
  BY <1>3, CallKeeps DEF Draft, Plain
<1>4. CASE Consult
  BY <1>4, CallKeeps DEF Consult
<1>5. CASE Return
  BY <1>5 DEF Return, ClientInv, OneAnswer
<1>6. CASE Ask
  BY <1>1, <1>6 DEF Ask, AnswerCanceled, Gather
<1>7. CASE Check \/ DraftFails \/ FixFails
  BY <1>1, <1>4, <1>7 DEF Check, DraftFails, FixFails
<1>8. ASSUME NEW t \in SUBSET Flaws, BeginTerms(t) \/ Rewritten(t) \/ Fixed(t) \/ Polished(t)
      PROVE  ClientInv'
  BY <1>1, <1>4, <1>8 DEF BeginTerms, Rewritten, Fixed, Polished, PolishOn
<1> QED BY <1>1, <1>2, <1>3, <1>5, <1>6, <1>7, <1>8 DEF Work, vars

\* The state of the calls, as each step leaves it.
LEMMA ClientInvariant == Spec => []ClientInv
<1>1. Init => ClientInv
  BY DEF Init, ClientInit, ClientInv, OneAnswer
<1>2. ClientInv /\ [Next]_vars => ClientInv'
  BY ClientStepKeeps, CallerKeeps DEF Next, Model
<1> QED BY <1>1, <1>2, PTL DEF Spec

\* A retry never repeats text the user has already seen (_ask_ollama_stream and its twin
\* stop retrying once they have emitted something), for every number of attempts.
THEOREM AnswersAreWhole == Spec => []OneAnswer
<1>1. ClientInv => OneAnswer
  BY DEF ClientInv
<1> QED BY <1>1, ClientInvariant, PTL

\* A stream whose event is set hands out nothing more, but for the fallback's text.
THEOREM CancelSilences == Spec => CanceledIsSilent
<1>1. ASSUME ClientInv, [Next]_vars, canceled, Len(out') > Len(out)
      PROVE  fallback
  <2> USE <1>1 DEF ClientInv
  <2>1. CASE Model
    BY <2>1 DEF Model, ClientStep, Answer, Garbled, Refused, Denied, Unreachable, Connect, Retry,
                Chunk, SkipLine, StreamStops, StreamDone, StreamEnds, Broken, Reply, GiveUp, BackOff,
                FallBack, Reading, StopReading, ReadOn, Streaming, mode
  <2>2. CASE out' = <<>> \/ out' = out
    BY <2>2
  <2>3. CASE Ask \/ Work \/ Cancel \/ UNCHANGED vars
    BY <2>2, <2>3 DEF Ask, Work, Cancel, CancelCall, vars, client, AnswerCanceled, Gather, Draft,
          DraftFails, Return, Check, FixFails, BeginTerms, Rewritten, Fixed, Polished, PolishOn,
          Finish, Consult, Call
  <2> QED BY <2>1, <2>3 DEF Next
<1>2. ClientInv /\ [Next]_vars => [canceled /\ Len(out') > Len(out) => fallback]_client
  BY <1>1
<1> QED BY <1>2, ClientInvariant, PTL DEF Spec, CanceledIsSilent

-----------------------------------------------------------------------------
(* The text.  From the first cleanup to the correction it has no wording to  *)
(* replace and no piece of a prompt that the draft has not; in the loop at   *)
(* the end, which may bring both back, a call has answered.                  *)
Clean ==
    /\ "stale" \notin text
    /\ "echo" \in text => "echo" \in draft
    /\ ~helped /\ draft \cap {"echo", "meta"} = {} => text = Replace(draft)

TextInv ==
    /\ helped \in BOOLEAN /\ draft \in SUBSET Flaws /\ text \in SUBSET Flaws
    /\ step \in {"idle", "gathered", "draft"} => draft = {} /\ text = {} /\ ~helped
    /\ step = "rewrite" => text = draft /\ ~helped
    /\ step \in {"check", "fix"} => Clean
    /\ step = "polish" => helped
    /\ OnlyTheDraftSlips

\* What the cleanups leave: pieces of a prompt only from the draft, a wording to replace only
\* from there or from the text itself, and everything when there is nothing to cut.
LEMMA CutFacts ==
    ASSUME NEW t \in SUBSET Flaws
    PROVE  /\ t \in Cut(t) /\ \A p \in Cut(t) : p \in SUBSET Flaws /\ p \ {"violates"} \subseteq t
           /\ "meta" \notin t => Cut(t) = {t}
  BY DEF Cut

LEMMA CleanupFacts ==
    ASSUME NEW t \in SUBSET Flaws, NEW o \in SUBSET Flaws, NEW p \in Cleanup(t, o)
    PROVE  /\ p \in SUBSET Flaws
           /\ "echo" \in p => "echo" \in o
           /\ "stale" \in p => "stale" \in t \/ p \in Cut(o)
           /\ t = o /\ o \cap {"echo", "meta"} = {} => p = o
<1>1. CASE p \in Cut(t) /\ "echo" \notin p
  BY <1>1, CutFacts
<1>2. CASE "echo" \in t /\ p \in Cut(o)
  BY <1>2, CutFacts
<1> QED BY <1>1, <1>2 DEF Cleanup

LEMMA ReplaceFacts ==
    ASSUME NEW t \in SUBSET Flaws
    PROVE  /\ Replace(t) \in SUBSET Flaws /\ "stale" \notin Replace(t)
           /\ "echo" \in Replace(t) <=> "echo" \in t
           /\ Replace(Replace(t)) = Replace(t)
           /\ Replace(t) \cap {"echo", "meta"} = t \cap {"echo", "meta"}
  BY DEF Replace, Flaws

\* The result of a text without a wording to replace.
LEMMA FinishKeeps ==
    ASSUME NEW t \in SUBSET Flaws, draft \in SUBSET Flaws, helped \in BOOLEAN, Finish(t),
           "stale" \notin t, draft' = draft, helped' \in BOOLEAN,
           ~helped' /\ draft \cap {"echo", "meta"} = {} => t = Replace(draft)
    PROVE  TextInv'
<1>1. step' = "end" /\ text' \in Cleanup(t, draft)
  BY DEF Finish
<1>2. /\ text' \in SUBSET Flaws
      /\ "echo" \in text' => "echo" \in draft
      /\ "stale" \in text' => text' \in Cut(draft)
  BY <1>1, CleanupFacts
<1>3. ASSUME ~helped', draft \cap {"echo", "meta"} = {}
      PROVE  text' = Replace(draft)
  <2>1. t \cap {"echo", "meta"} = {}
    BY <1>3, ReplaceFacts
  <2>2. Cleanup(t, draft) = {t}
    BY <2>1, CutFacts DEF Cleanup
  <2>3. text' = Replace(draft)
    BY <1>1, <1>3, <2>2
  <2> QED BY <2>3
<1>4. Cut(draft)' = Cut(draft) /\ Replace(draft)' = Replace(draft)
  BY DEF Cut, Replace
<1>5. OnlyTheDraftSlips'
  BY <1>2, <1>3, <1>4 DEF OnlyTheDraftSlips
<1> QED BY <1>1, <1>2, <1>5 DEF TextInv

\* The steps that make the text; PolishOn is the end of two of them.
LEMMA PolishKeeps ==
    ASSUME NEW t \in SUBSET Flaws, NEW round, PolishOn(t, round), TextInv, helped', helped' \in BOOLEAN,
           draft' = draft
    PROVE  TextInv'
<1>1. CASE step' = "polish" /\ text' = t
  BY <1>1 DEF TextInv, OnlyTheDraftSlips
<1>2. CASE Finish(Replace(t))
  BY <1>2, ReplaceFacts, FinishKeeps DEF TextInv
<1> QED BY <1>1, <1>2 DEF PolishOn

LEMMA TextStepKeeps ==
    ASSUME TextInv, NEW t \in SUBSET Flaws,
           BeginTerms(t) \/ Rewritten(t) \/ Fixed(t) \/ Polished(t)
    PROVE  TextInv'
<1>1. ASSUME NEW s \in SUBSET Flaws, NEW o \in SUBSET Flaws, NEW p \in Cleanup(s, o),
             step' = "check", text' = Replace(p), draft' = o, helped' \in BOOLEAN,
             helped' \/ s = o
      PROVE  TextInv'
  <2>1. /\ p \in SUBSET Flaws
        /\ "echo" \in p => "echo" \in o
        /\ s = o /\ o \cap {"echo", "meta"} = {} => p = o
    BY <1>1, CleanupFacts
  <2>2. text' \in SUBSET Flaws /\ "stale" \notin text' /\ ("echo" \in text' <=> "echo" \in p)
    <3>1. /\ Replace(p) \in SUBSET Flaws /\ "stale" \notin Replace(p)
          /\ "echo" \in Replace(p) <=> "echo" \in p
      BY <2>1, ReplaceFacts
    <3> QED BY <1>1, <3>1
  <2>3. ~helped' /\ draft' \cap {"echo", "meta"} = {} => text' = Replace(draft)'
    BY <1>1, <2>1 DEF Replace
  <2>4. Clean'
    BY <1>1, <2>1, <2>2, <2>3 DEF Clean
  <2> QED BY <1>1, <2>2, <2>4 DEF TextInv, OnlyTheDraftSlips
<1>2. CASE BeginTerms(t)
  <2>1. draft' = t /\ helped' = helped /\ helped = FALSE
    BY <1>2 DEF BeginTerms, TextInv
  <2>2. CASE step' = "rewrite" /\ text' = t
    BY <2>1, <2>2 DEF TextInv, OnlyTheDraftSlips
  <2>3. CASE step' = "check" /\ \E p \in Cleanup(t, t) : text' = Replace(p)
    BY <1>1, <2>1, <2>3
  <2> QED BY <1>2, <2>2, <2>3 DEF BeginTerms
<1>3. CASE Rewritten(t)
  <2>1. step = "rewrite" /\ step' = "check" /\ draft' = draft /\ draft \in SUBSET Flaws /\ text = draft
    BY <1>3 DEF Rewritten, Kept, TextInv
  <2>2. CASE helped' = TRUE /\ \E p \in Cleanup(t, draft) : text' = Replace(p)
    BY <1>1, <2>1, <2>2
  <2>3. CASE helped' = helped /\ \E p \in Cleanup(text, draft) : text' = Replace(p)
    BY <1>1, <2>1, <2>3 DEF TextInv
  <2> QED BY <1>3, <2>2, <2>3 DEF Rewritten
<1>4. CASE Fixed(t)
  BY <1>4, PolishKeeps DEF Fixed, Kept
<1>5. CASE Polished(t)
  <2>1. step = "polish" /\ helped /\ draft' = draft
    BY <1>5 DEF Polished, Kept, TextInv
  <2>2. CASE helped' = TRUE /\ PolishOn(t, polished + 1)
    BY <2>1, <2>2, PolishKeeps
  <2>3. CASE helped' = helped /\ Finish(Replace(text))
    BY <2>1, <2>3, FinishKeeps, ReplaceFacts DEF TextInv
  <2> QED BY <1>5, <2>2, <2>3 DEF Polished
<1> QED BY <1>2, <1>3, <1>4, <1>5

LEMMA OtherStepKeeps ==
    ASSUME TextInv,
           \/ Ask \/ Return \/ Check \/ DraftFails \/ FixFails \/ UNCHANGED answer
           \/ \E b, c \in BOOLEAN : Draft(b, c)
    PROVE  TextInv'
<1> USE DEF TextInv, OnlyTheDraftSlips
<1>1. CASE Ask
  BY <1>1 DEF Ask, AnswerCanceled, Gather, Idle, Fresh, Replace
<1>2. CASE Return
  BY <1>2 DEF Return, Fresh
<1>3. CASE Check
  <2>1. step = "check" /\ Clean /\ draft' = draft /\ helped' = helped
    BY <1>3 DEF Check, Kept
  <2>2. CASE step' = "fix" /\ text' = text
    BY <2>1, <2>2 DEF Clean, Replace
  <2>3. CASE Finish(text)
    BY <2>1, <2>3, FinishKeeps DEF Clean
  <2> QED BY <1>3, <2>2, <2>3 DEF Check
<1>4. CASE DraftFails
  BY <1>4 DEF DraftFails, Kept, Replace
<1>5. CASE FixFails
  BY <1>5 DEF FixFails, Kept, Clean, Replace
<1>6. CASE UNCHANGED answer
  BY <1>6 DEF answer, Clean, Replace, Cut
<1>7. CASE \E b, c \in BOOLEAN : Draft(b, c)
  BY <1>7 DEF Draft
<1> QED BY <1>1, <1>2, <1>3, <1>4, <1>5, <1>6, <1>7

\* Whatever the calls of fix_terminology answer, its result has a piece of a prompt or a
\* wording to replace only from the draft, and is the draft when none of them answers and
\* there is nothing to cut.  Of English and of terms explained wrongly it says nothing.
THEOREM TermsOnlyFix == Spec => []OnlyTheDraftSlips
<1>1. Init => TextInv
  BY DEF Init, TextInv, OnlyTheDraftSlips
<1>2. ASSUME TextInv, [Next]_vars
      PROVE  TextInv'
  <2>1. CASE Work
    BY <1>2, <2>1, TextStepKeeps, OtherStepKeeps DEF Work
  <2>2. CASE Ask \/ Model \/ Cancel \/ UNCHANGED vars
    BY <1>2, <2>2, OtherStepKeeps DEF Model, Cancel, vars
  <2> QED BY <1>2, <2>1, <2>2 DEF Next
<1>3. TextInv => OnlyTheDraftSlips
  BY DEF TextInv
<1> QED BY <1>1, <1>2, <1>3, PTL DEF Spec

-----------------------------------------------------------------------------
(* The room of the prompt.  Sums first.                                     *)

\* A set of natural numbers that is not empty has a least element.
LEMMA LeastNat ==
    ASSUME NEW T \in SUBSET Nat, T # {}
    PROVE  \E m \in T : \A k \in T : m <= k
<1> DEFINE R == OpToRel(<, Nat)
<1>1. IsWellFoundedOn(R, Nat)
  BY NatLessThanWellFounded
<1>2. \A a, b \in Nat : a < b => <<a, b>> \in R
  BY DEF OpToRel
<1> HIDE DEF R
<1>3. PICK m \in T : \A y \in T : ~(<<y, m>> \in R)
  BY <1>1, WFMin
<1>4. ASSUME NEW k \in T PROVE m <= k
  <2>1. ~(k < m)
    BY <1>2, <1>3
  <2> QED BY <2>1
<1> QED BY <1>4

\* Induction up to a number.
LEMMA UpTo ==
    ASSUME NEW m \in Nat, NEW T \in SUBSET (0..m), 0 \in T, \A n \in 1..m : n - 1 \in T => n \in T
    PROVE  \A n \in 0..m : n \in T
<1> DEFINE Bad == (0..m) \ T
<1> SUFFICES ASSUME Bad # {} PROVE FALSE
  OBVIOUS
<1>1. Bad \in SUBSET Nat
  OBVIOUS
<1>2. PICK n \in Bad : \A k \in Bad : n <= k
  BY <1>1, LeastNat
<1>3. n \in 1..m /\ n - 1 \in 0..m /\ n - 1 \notin Bad
  BY <1>2
<1>4. n - 1 \in T
  BY <1>3
<1> QED BY <1>3, <1>4

LEMMA TimesGrows ==
    ASSUME NEW a \in Nat, NEW b \in Nat, NEW c \in Nat
    PROVE  /\ a <= b => a * c <= b * c
           /\ a < b /\ c > 0 => a * c < b * c
           /\ a * c \in Nat /\ a * c = c * a
OBVIOUS

LEMMA DivFacts ==
    ASSUME NEW a \in Nat, NEW d \in Nat \ {0}
    PROVE  /\ a \div d \in Nat /\ a % d \in 0..(d - 1) /\ a = d * (a \div d) + (a % d)
OBVIOUS

\* The partial sums of a.
Sums(g, n, a) ==
    /\ g \in [0..n -> Int] /\ g[0] = 0
    /\ \A k \in 1..n : g[k] = g[k - 1] + a[k]

LEMMA SumsExist ==
    ASSUME NEW n \in Nat, NEW a \in [1..n -> Int]
    PROVE  \E g : Sums(g, n, a)
<1> DEFINE T == {k \in 0..n : \E g : Sums(g, k, a)}
<1>1. 0 \in T
  <2>1. Sums([k \in 0..0 |-> 0], 0, a)
    BY DEF Sums
  <2> QED BY <2>1
<1>2. ASSUME NEW k \in 1..n, k - 1 \in T PROVE k \in T
  <2>1. PICK g : Sums(g, k - 1, a)
    BY <1>2
  <2>2. /\ g \in [0..(k - 1) -> Int] /\ g[0] = 0
        /\ \A i \in 1..(k - 1) : g[i] = g[i - 1] + a[i]
    BY <2>1 DEF Sums
  <2>3. k - 1 \in 0..(k - 1) /\ k \in Nat /\ a[k] \in Int
    OBVIOUS
  <2>4. PICK next \in Int : next = g[k - 1] + a[k]
    BY <2>2, <2>3
  <2> DEFINE f == [i \in 0..k |-> IF i = k THEN next ELSE g[i]]
  <2>5. f \in [0..k -> Int] /\ f[0] = 0
    BY <2>2, <2>3
  <2>6. ASSUME NEW i \in 1..k PROVE f[i] = f[i - 1] + a[i]
    <3>1. i - 1 \in 0..k /\ i - 1 # k /\ i \in 0..k
      BY <2>3
    <3>2. f[i - 1] = g[i - 1]
      BY <3>1
    <3>3. CASE i = k
      BY <2>4, <3>1, <3>2, <3>3
    <3>4. CASE i # k
      <4>1. i \in 1..(k - 1) /\ f[i] = g[i]
        BY <2>3, <3>1, <3>4
      <4> QED BY <2>2, <3>2, <4>1
    <3> QED BY <3>3, <3>4
  <2> HIDE DEF f
  <2>7. Sums(f, k, a)
    BY <2>5, <2>6 DEF Sums
  <2> QED BY <2>7
<1>3. n \in T
  <2> HIDE DEF T
  <2>1. T \in SUBSET (0..n)
    BY DEF T
  <2>2. \A k \in 0..n : k \in T
    BY <1>1, <1>2, <2>1, UpTo
  <2> QED BY <2>2
<1> QED BY <1>3

\* Total is the next of them, whatever partial sums one takes.
LEMMA TotalFacts ==
    ASSUME NEW n \in Nat, NEW a \in [1..n -> Int]
    PROVE  \E g : Sums(g, n, a) /\ Total(a) = g[n]
<1> DEFINE Is(g) == g = [k \in 0..n |-> IF k = 0 THEN 0 ELSE g[k - 1] + a[k]]
<1>1. Len(a) = n
  BY IsASeq, LenProperties
<1>2. PICK g : Sums(g, n, a)
  BY SumsExist
<1>3. \A k \in 0..n : g[k] = IF k = 0 THEN 0 ELSE g[k - 1] + a[k]
  BY <1>2 DEF Sums
<1>4. Is(g)
  BY <1>2, <1>3 DEF Sums
<1>5. PICK f : Is(f) /\ Total(a) = f[n]
  <2> DEFINE c == CHOOSE h : Is(h)
  <2>1. Is(c)
    BY <1>4
  <2>2. Total(a) = c[n]
    BY <1>1 DEF Total
  <2> QED BY <2>1, <2>2
<1>6. \A k \in 0..n : f[k] = IF k = 0 THEN 0 ELSE f[k - 1] + a[k]
  BY <1>5
<1> DEFINE T == {k \in 0..n : f[k] \in Int}
<1>7. 0 \in T /\ T \in SUBSET (0..n)
  BY <1>6
<1>8. ASSUME NEW k \in 1..n, k - 1 \in T PROVE k \in T
  <2>1. f[k] = f[k - 1] + a[k] /\ f[k - 1] \in Int /\ a[k] \in Int
    BY <1>6, <1>8
  <2> QED BY <2>1
<1>9. \A k \in 0..n : k \in T
  <2> HIDE DEF T
  <2> QED BY <1>7, <1>8, UpTo
<1>10. f = [k \in 0..n |-> f[k]]
  BY <1>5
<1>11. f \in [0..n -> Int]
  BY <1>9, <1>10
<1>12. Sums(f, n, a)
  BY <1>6, <1>11 DEF Sums
<1> QED BY <1>5, <1>12

LEMMA TotalType ==
    ASSUME NEW n \in Nat, NEW a \in [1..n -> Int]
    PROVE  Total(a) \in Int
BY TotalFacts DEF Sums

LEMMA TotalGrows ==
    ASSUME NEW n \in Nat, NEW a \in [1..n -> Int], NEW b \in [1..n -> Int], \A i \in 1..n : a[i] <= b[i]
    PROVE  Total(a) <= Total(b)
<1>1. PICK f : Sums(f, n, a) /\ Total(a) = f[n]
  BY TotalFacts
<1>2. PICK g : Sums(g, n, b) /\ Total(b) = g[n]
  BY TotalFacts
<1> DEFINE T == {k \in 0..n : f[k] <= g[k]}
<1>3. 0 \in T /\ T \in SUBSET (0..n)
  BY <1>1, <1>2 DEF Sums
<1>4. ASSUME NEW k \in 1..n, k - 1 \in T PROVE k \in T
  <2>1. f[k] = f[k - 1] + a[k] /\ g[k] = g[k - 1] + b[k] /\ f[k - 1] <= g[k - 1]
    BY <1>1, <1>2, <1>4 DEF Sums
  <2>2. f[k - 1] \in Int /\ g[k - 1] \in Int /\ a[k] \in Int /\ b[k] \in Int /\ a[k] <= b[k]
    BY <1>1, <1>2 DEF Sums
  <2> QED BY <2>1, <2>2
<1>5. \A k \in 0..n : k \in T
  <2> HIDE DEF T
  <2> QED BY <1>3, <1>4, UpTo
<1> QED BY <1>1, <1>2, <1>5

Added(c, a, b, n) == \A i \in 1..n : c[i] = a[i] + b[i]
Scaled(b, q, a, n) == \A i \in 1..n : b[i] = q * a[i]
Marked(a, G, n) == \A i \in 1..n : a[i] = IF i \in G THEN 1 ELSE 0

LEMMA TotalAdds ==
    ASSUME NEW n \in Nat, NEW a \in [1..n -> Int], NEW b \in [1..n -> Int], NEW c \in [1..n -> Int],
           Added(c, a, b, n)
    PROVE  Total(c) = Total(a) + Total(b)
<1>1. PICK f : Sums(f, n, a) /\ Total(a) = f[n]
  BY TotalFacts
<1>2. PICK g : Sums(g, n, b) /\ Total(b) = g[n]
  BY TotalFacts
<1>3. PICK h : Sums(h, n, c) /\ Total(c) = h[n]
  BY TotalFacts
<1> DEFINE T == {k \in 0..n : h[k] = f[k] + g[k]}
<1>4. 0 \in T /\ T \in SUBSET (0..n)
  BY <1>1, <1>2, <1>3 DEF Sums
<1>5. ASSUME NEW k \in 1..n, k - 1 \in T PROVE k \in T
  <2>1. /\ f[k] = f[k - 1] + a[k] /\ g[k] = g[k - 1] + b[k] /\ h[k] = h[k - 1] + c[k]
        /\ h[k - 1] = f[k - 1] + g[k - 1]
    BY <1>1, <1>2, <1>3, <1>5 DEF Sums
  <2>2. f[k - 1] \in Int /\ g[k - 1] \in Int /\ a[k] \in Int /\ b[k] \in Int /\ c[k] = a[k] + b[k]
    BY <1>1, <1>2 DEF Sums, Added
  <2>3. h[k] = f[k] + g[k]
    BY <2>1, <2>2
  <2> QED BY <2>3
<1>6. \A k \in 0..n : k \in T
  <2> HIDE DEF T
  <2> QED BY <1>4, <1>5, UpTo
<1> QED BY <1>1, <1>2, <1>3, <1>6

\* A factor can be taken out of a sum.
LEMMA TotalScales ==
    ASSUME NEW n \in Nat, NEW a \in [1..n -> Int], NEW b \in [1..n -> Int], NEW q \in Int,
           Scaled(b, q, a, n)
    PROVE  Total(b) = q * Total(a)
<1>1. PICK f : Sums(f, n, a) /\ Total(a) = f[n]
  BY TotalFacts
<1>2. PICK g : Sums(g, n, b) /\ Total(b) = g[n]
  BY TotalFacts
<1> DEFINE T == {k \in 0..n : g[k] = q * f[k]}
<1>3. 0 \in T /\ T \in SUBSET (0..n)
  BY <1>1, <1>2 DEF Sums
<1>4. ASSUME NEW k \in 1..n, k - 1 \in T PROVE k \in T
  <2>1. f[k] = f[k - 1] + a[k] /\ g[k] = g[k - 1] + b[k] /\ g[k - 1] = q * f[k - 1]
    BY <1>1, <1>2, <1>4 DEF Sums
  <2>2. f[k - 1] \in Int /\ a[k] \in Int /\ b[k] = q * a[k]
    BY <1>1 DEF Sums, Scaled
  <2>3. PICK x \in Int : x = f[k - 1]
    BY <2>2
  <2>4. PICK y \in Int : y = a[k]
    BY <2>2
  <2>5. q * (x + y) = q * x + q * y
    OBVIOUS
  <2>6. g[k] = q * f[k]
    BY <2>1, <2>2, <2>3, <2>4, <2>5
  <2> QED BY <2>6
<1>5. \A k \in 0..n : k \in T
  <2> HIDE DEF T
  <2> QED BY <1>3, <1>4, UpTo
<1> QED BY <1>1, <1>2, <1>5

\* The sum of ones counts.
LEMMA TotalCounts ==
    ASSUME NEW n \in Nat, NEW G \in SUBSET (1..n), NEW a \in [1..n -> Int], Marked(a, G, n)
    PROVE  IsFiniteSet(G) /\ Cardinality(G) \in Nat /\ Total(a) = Cardinality(G)
<1>7. \A i \in 1..n : a[i] = IF i \in G THEN 1 ELSE 0
  BY DEF Marked
<1>1. PICK f : Sums(f, n, a) /\ Total(a) = f[n]
  BY TotalFacts
<1> DEFINE B(k) == {i \in G : i <= k}
           T == {k \in 0..n : f[k] = Cardinality(B(k))}
<1>2. IsFiniteSet(G) /\ Cardinality(G) \in Nat
  <2>1. IsFiniteSet(1..n)
    BY FS_Interval
  <2>2. IsFiniteSet(G)
    BY <2>1, FS_Subset
  <2> QED BY <2>2, FS_CardinalityType
<1>3. B(0) = {} /\ B(n) = G
  <2>1. \A i \in G : ~(i <= 0)
    OBVIOUS
  <2>2. \A i \in G : i <= n
    OBVIOUS
  <2>3. B(0) = {}
    BY <2>1, Zenon
  <2>4. B(n) = G
    BY <2>2, Zenon
  <2> QED BY <2>3, <2>4
<1>4. 0 \in T /\ T \in SUBSET (0..n)
  <2>1. f[0] = 0 /\ Cardinality(B(0)) = 0
    BY <1>1, <1>3, FS_EmptySet DEF Sums
  <2> HIDE DEF B
  <2> QED BY <2>1
<1>5. ASSUME NEW k \in 1..n, k - 1 \in T PROVE k \in T
  <2>1. f[k] = f[k - 1] + a[k] /\ f[k - 1] = Cardinality(B(k - 1))
    BY <1>1, <1>5 DEF Sums
  <2>2. IsFiniteSet(B(k - 1)) /\ Cardinality(B(k - 1)) \in Nat
    <3>1. B(k - 1) \in SUBSET G
      OBVIOUS
    <3> HIDE DEF B
    <3>2. IsFiniteSet(B(k - 1))
      BY <1>2, <3>1, FS_Subset
    <3> QED BY <3>2, FS_CardinalityType
  <2>5. \A i \in G : i \in Nat /\ (i <= k <=> (i <= k - 1 \/ i = k))
    OBVIOUS
  <2>3. CASE k \in G
    <3>4. ~(k <= k - 1)
      OBVIOUS
    <3>1. B(k) = B(k - 1) \cup {k} /\ k \notin B(k - 1)
      BY <2>5, <2>3, <3>4, Zenon
    <3>2. Cardinality(B(k)) = Cardinality(B(k - 1)) + 1
      <4> HIDE DEF B
      <4> QED BY <2>2, <3>1, FS_AddElement
    <3>3. f[k] = Cardinality(B(k))
      <4> HIDE DEF B
      <4> QED BY <1>7, <2>1, <2>2, <2>3, <3>2
    <3> QED BY <3>3
  <2>4. CASE k \notin G
    <3>1. B(k) = B(k - 1)
      BY <2>5, <2>4
    <3>2. f[k] = Cardinality(B(k))
      <4> HIDE DEF B
      <4> QED BY <1>7, <2>1, <2>2, <2>4, <3>1
    <3> QED BY <3>2
  <2> QED BY <2>3, <2>4
<1>6. \A k \in 0..n : k \in T
  <2> HIDE DEF T
  <2> QED BY <1>4, <1>5, UpTo
<1> QED BY <1>1, <1>2, <1>3, <1>6

\* The sum of equals.
LEMMA TotalRepeats ==
    ASSUME NEW n \in Nat, NEW q \in Int, NEW a \in [1..n -> Int], \A i \in 1..n : a[i] = q
    PROVE  Total(a) = n * q
<1>1. PICK f : Sums(f, n, a) /\ Total(a) = f[n]
  BY TotalFacts
<1> DEFINE T == {k \in 0..n : f[k] = k * q}
<1>2. 0 \in T /\ T \in SUBSET (0..n)
  BY <1>1 DEF Sums
<1>3. ASSUME NEW k \in 1..n, k - 1 \in T PROVE k \in T
  <2>1. f[k] = f[k - 1] + q /\ f[k - 1] = (k - 1) * q
    BY <1>1, <1>3 DEF Sums
  <2>2. (k - 1) * q + q = k * q
    OBVIOUS
  <2> QED BY <2>1, <2>2
<1>4. \A k \in 0..n : k \in T
  <2> HIDE DEF T
  <2> QED BY <1>2, <1>3, UpTo
<1> QED BY <1>1, <1>4

\* Those of E that fewer than k others of it come before.
Few(E, key, k) == {i \in E : Cardinality({j \in E : Precedes(key, j, i)}) < k}

\* They are k.
LEMMA FirstFew ==
    ASSUME NEW n \in Nat, NEW key \in [1..n -> Int], NEW E \in SUBSET (1..n), NEW k \in Nat,
           k <= Cardinality(E), NEW G, G = Few(E, key, k)
    PROVE  G \in SUBSET E /\ IsFiniteSet(G) /\ Cardinality(G) = k
<1> DEFINE Before(i) == {j \in E : Precedes(key, j, i)}
           m == Cardinality(E)
<1>1. IsFiniteSet(E) /\ m \in Nat
  <2>1. IsFiniteSet(1..n)
    BY FS_Interval
  <2>2. IsFiniteSet(E)
    BY <2>1, FS_Subset
  <2> QED BY <2>2, FS_CardinalityType
<1>2. \A i \in E : i \notin Before(i) /\ Before(i) \in SUBSET E
  BY DEF Precedes
<1>3. \A i \in E : IsFiniteSet(Before(i)) /\ Cardinality(Before(i)) \in Nat
  <2> HIDE DEF Before
  <2>1. \A i \in E : IsFiniteSet(Before(i))
    BY <1>1, <1>2, FS_Subset
  <2> QED BY <2>1, FS_CardinalityType
<1>4. ASSUME NEW i \in E PROVE Cardinality(Before(i)) \in 0..(m - 1)
  <2>1. Before(i) # E /\ Before(i) \in SUBSET E
    BY <1>2
  <2>2. PICK B : B = Before(i)
    OBVIOUS
  <2>3. Cardinality(B) \in Nat
    BY <1>3, <2>2
  <2> HIDE DEF Before
  <2>4. Cardinality(B) <= m /\ Cardinality(B) # m
    BY <1>1, <2>1, <2>2, FS_Subset
  <2> HIDE DEF m
  <2> QED BY <1>1, <2>2, <2>3, <2>4
<1>5. ASSUME NEW i \in E, NEW j \in E, Precedes(key, i, j)
      PROVE  Cardinality(Before(i)) < Cardinality(Before(j))
  <2>1. PICK A, B : A = Before(i) /\ B = Before(j)
    OBVIOUS
  <2>2. A \in SUBSET B
    <3>1. \A x \in E : Precedes(key, x, i) => Precedes(key, x, j)
      BY <1>5 DEF Precedes
    <3> QED BY <2>1, <3>1, Zenon
  <2>3. i \in B /\ i \notin A
    BY <1>2, <1>5, <2>1
  <2>4. IsFiniteSet(B) /\ Cardinality(A) \in Nat /\ Cardinality(B) \in Nat
    BY <1>3, <2>1
  <2>5. Cardinality(A) <= Cardinality(B) /\ Cardinality(A) # Cardinality(B)
    BY <2>2, <2>3, <2>4, FS_Subset
  <2> HIDE DEF Before
  <2> QED BY <2>1, <2>4, <2>5
<1>6. \A i, j \in E : i # j => Precedes(key, i, j) \/ Precedes(key, j, i)
  BY DEF Precedes
<1> DEFINE f == [i \in E |-> Cardinality(Before(i))]
<1>7. f \in [E -> 0..(m - 1)] /\ G = {i \in E : f[i] < k}
  BY <1>4 DEF Few
<1>8. \A i \in E : f[i] = Cardinality(Before(i))
  OBVIOUS
<1> HIDE DEF Before, f
<1>9. ASSUME NEW i \in E, NEW j \in E, f[i] = f[j] PROVE i = j
  <2>1. f[i] \in Nat /\ ~(f[i] < f[j]) /\ ~(f[j] < f[i])
    BY <1>3, <1>8, <1>9
  <2> QED BY <1>5, <1>6, <1>8, <2>1
<1>10. f \in Injection(E, 0..(m - 1))
  BY <1>7, <1>9, Fun_IsInj
<1>11. IsFiniteSet(0..(m - 1)) /\ Cardinality(0..(m - 1)) = m
  <2> HIDE DEF m
  <2>1. 0 \in Int /\ m - 1 \in Int
    BY <1>1
  <2>2. /\ IsFiniteSet(0..(m - 1))
        /\ Cardinality(0..(m - 1)) = IF 0 > m - 1 THEN 0 ELSE (m - 1) - 0 + 1
    BY <2>1, FS_Interval
  <2> QED BY <1>1, <2>2
<1>12. \A p \in 0..(m - 1) : \E i \in E : f[i] = p
  <2>1. f \in Surjection(E, 0..(m - 1))
    BY <1>1, <1>10, <1>11, FS_Injection
  <2> QED BY <2>1 DEF Surjection
<1> HIDE DEF m
<1>13. IsFiniteSet(G) /\ G \in SUBSET E
  <2>1. G \in SUBSET E
    BY <1>7
  <2> QED BY <1>1, <2>1, FS_Subset
<1> DEFINE h == [i \in G |-> f[i]]
<1>14. h \in [G -> 0..(k - 1)]
  <2>1. \A i \in G : i \in E /\ f[i] < k /\ f[i] \in 0..(m - 1)
    BY <1>7
  <2>2. \A i \in G : f[i] \in 0..(k - 1)
    BY <1>1, <2>1
  <2> QED BY <2>2
<1>15. \A p \in 0..(k - 1) : \E i \in G : h[i] = p
  <2>1. ASSUME NEW p \in 0..(k - 1) PROVE \E i \in G : h[i] = p
    <3>1. p \in 0..(m - 1) /\ p < k
      BY <1>1 DEF m
    <3>2. PICK i \in E : f[i] = p
      BY <1>12, <3>1
    <3>3. i \in G
      BY <1>7, <3>1, <3>2
    <3> QED BY <3>2, <3>3
  <2> QED BY <2>1
<1>16. \A i, j \in G : h[i] = h[j] => i = j
  BY <1>9, <1>13
<1> HIDE DEF h
<1>17. h \in Bijection(G, 0..(k - 1))
  BY <1>14, <1>15, <1>16, Fun_IsBij
<1>18. Cardinality(G) = Cardinality(0..(k - 1))
  BY <1>13, <1>17, FS_Bijection DEF ExistsBijection
<1>19. Cardinality(0..(k - 1)) = k
  <2>1. 0 \in Int /\ k - 1 \in Int
    OBVIOUS
  <2>2. Cardinality(0..(k - 1)) = IF 0 > k - 1 THEN 0 ELSE (k - 1) - 0 + 1
    BY <2>1, FS_Interval
  <2> QED BY <2>2
<1> QED BY <1>13, <1>18, <1>19

\* A portion is no more than its share of what is left, nor than the text needs, and less
\* than that share by at most one where it is less than the text needs.
LEMMA PortionFacts ==
    ASSUME NEW left \in Nat, NEW all \in Nat, left < all, NEW r \in Nat, NEW short \in BOOLEAN,
           NEW p, p = IF left > 0 THEN Portion(left, r, all, short) ELSE 0
    PROVE  /\ p \in Nat /\ p <= r
           /\ all * p <= left * r
           /\ left * r <= all * (p + (IF p < r THEN 1 ELSE 0))
<1>1. CASE left = 0
  BY <1>1
<1>2. CASE left > 0
  <2>1. PICK x \in Nat : x = left * r /\ x <= all * r
    BY TimesGrows
  <2>2. all \in Nat \ {0}
    OBVIOUS
  <2>3. PICK q \in Nat, m \in 0..(all - 1) : q = x \div all /\ m = x % all /\ x = all * q + m
    BY <2>2, DivFacts
  <2>4. PICK d \in {0, 1} : d = IF short /\ r > 0 /\ m = 0 THEN 1 ELSE 0
    OBVIOUS
  <2>5. p = IF q - d < r THEN q - d ELSE r
    BY <1>2, <2>1, <2>3, <2>4 DEF Portion, AtMost
  <2>6. d = 1 => q > 0
    <3>1. SUFFICES ASSUME d = 1, q = 0 PROVE FALSE
      BY <2>2
    <3>2. x = 0 /\ r > 0
      <4>1. all * q = 0
        BY <3>1
      <4> QED BY <2>3, <2>4, <3>1, <4>1
    <3>3. 0 * r < left * r
      BY <1>2, <3>2, TimesGrows
    <3> QED BY <2>1, <3>2, <3>3
  <2>7. q - d \in Nat
    BY <2>4, <2>6
  <2>8. p \in Nat /\ p <= r /\ p <= q - d
    BY <2>5, <2>7
  <2>9. p \in Nat /\ p <= q
    BY <2>4, <2>8
  <2>10. all * p <= x
    <3>1. p * all <= q * all /\ p * all = all * p /\ q * all = all * q
      BY <2>9, TimesGrows
    <3>2. PICK y \in Nat : y = all * q
      BY TimesGrows
    <3>3. PICK z \in Nat : z = all * p
      BY <2>9, TimesGrows
    <3>4. z <= y
      BY <3>1, <3>2, <3>3
    <3>5. x = y + m /\ m \in Nat
      BY <2>3, <3>2
    <3> QED BY <3>3, <3>4, <3>5
  <2>11. CASE p < r
    <3>1. p = q - d
      BY <2>5, <2>11
    <3>2. PICK y \in Nat : y = all * q
      BY TimesGrows
    <3>3. all * (p + 1) = (IF d = 1 THEN y ELSE y + all)
      <4>1. CASE d = 1
        <5>1. p + 1 = q
          BY <2>9, <3>1, <4>1
        <5> QED BY <3>2, <4>1, <5>1
      <4>2. CASE d = 0
        <5>1. p = q
          BY <2>9, <3>1, <4>2
        <5>2. all * (q + 1) = all * q + all
          OBVIOUS
        <5> QED BY <3>2, <4>2, <5>1, <5>2
      <4> QED BY <2>4, <4>1, <4>2
    <3>4. x = y + m /\ (d = 1 => m = 0) /\ m <= all /\ m \in Nat
      BY <2>3, <2>4, <3>2
    <3>5. x <= all * (p + 1)
      BY <2>4, <3>3, <3>4
    <3> QED BY <2>1, <2>8, <2>10, <2>11, <3>5
  <2>12. CASE p = r
    <3>1. x <= all * (p + 0)
      BY <2>1, <2>12
    <3> QED BY <2>1, <2>8, <2>10, <2>12, <3>1
  <2> QED BY <2>8, <2>11, <2>12
<1> QED BY <1>1, <1>2

\* Each gets at least one character at first, and no more than there is room for.
LEMMA EachFacts ==
    ASSUME NEW n \in Nat \ {0}, NEW room \in Nat, n <= room,
           NEW each, each = IF room < n * MinEach THEN AtLeast(1, room \div n) ELSE MinEach
    PROVE  each \in Nat \ {0} /\ each <= MinEach /\ n * each \in Nat /\ n * each <= room
<1>1. MinEach \in Nat \ {0} /\ n * MinEach \in Nat
  BY BudgetAssumption, TimesGrows
<1>2. CASE room < n * MinEach
  <2>1. PICK q \in Nat, m \in 0..(n - 1) : q = room \div n /\ room = n * q + m
    BY DivFacts
  <2>2. q > 0
    <3>1. SUFFICES ASSUME q = 0 PROVE FALSE
      OBVIOUS
    <3>2. n * q = 0
      BY <3>1
    <3> QED BY <2>1, <3>2
  <2>3. each = q
    BY <1>2, <2>1, <2>2 DEF AtLeast
  <2>4. PICK y \in Nat : y = n * q
    BY TimesGrows
  <2>5. y <= room
    BY <2>1, <2>4
  <2>6. q <= MinEach
    <3>1. SUFFICES ASSUME q > MinEach PROVE FALSE
      BY <1>1
    <3>2. MinEach * n <= q * n
      BY <1>1, <3>1, TimesGrows
    <3>3. MinEach * n = n * MinEach /\ q * n = n * q
      BY <1>1, TimesGrows
    <3> QED BY <1>1, <1>2, <2>4, <2>5, <3>2, <3>3
  <2> QED BY <2>2, <2>3, <2>4, <2>5, <2>6
<1>3. CASE ~(room < n * MinEach)
  BY <1>1, <1>3
<1> QED BY <1>2, <1>3

\* b is a with one more for each in G.
Raised(b, a, n, G) == b = [i \in 1..n |-> a[i] + (IF i \in G THEN 1 ELSE 0)]

\* As many get one more as there are characters, when no fewer are cut.
LEMMA HandOutFacts ==
    ASSUME NEW n \in Nat, NEW a \in [1..n -> Int], NEW size \in [1..n -> Nat], NEW left \in Nat,
           NEW key \in [1..n -> Int], left <= Cardinality({i \in 1..n : a[i] < size[i]}),
           NEW h, h = HandOut(a, size, left, key)
    PROVE  \E G \in SUBSET (1..n) :
              /\ \A i \in G : a[i] < size[i]
              /\ IsFiniteSet(G) /\ Cardinality(G) = left /\ h.left = 0
              /\ Raised(h.allocs, a, n, G)
<1>1. PICK E \in SUBSET (1..n) : E = {i \in 1..n : a[i] < size[i]}
  OBVIOUS
<1>2. PICK G : G = Few(E, key, left)
  OBVIOUS
<1>3. G \in SUBSET E /\ IsFiniteSet(G) /\ Cardinality(G) = left
  <2>1. left <= Cardinality(E)
    BY <1>1
  <2> QED BY <1>2, <2>1, FirstFew
<1>4. DOMAIN size = 1..n
  OBVIOUS
<1>5. G = Given(a, size, left, key)
  BY <1>1, <1>2, <1>4 DEF Given, Few
<1>6. /\ h.left = left - Cardinality(G)
      /\ h.allocs = [i \in 1..n |-> a[i] + (IF i \in G THEN 1 ELSE 0)]
  BY <1>4, <1>5 DEF HandOut
<1>7. h.left = 0
  BY <1>3, <1>6
<1>8. G \in SUBSET (1..n) /\ \A i \in G : a[i] < size[i]
  BY <1>1, <1>3
<1>9. Raised(h.allocs, a, n, G)
  BY <1>6 DEF Raised
<1> QED BY <1>3, <1>7, <1>8, <1>9

\* Nobody gets more when nothing is left.
LEMMA NothingToHandOut ==
    ASSUME NEW n \in Nat, NEW a \in [1..n -> Int], NEW size \in [1..n -> Nat], NEW key \in [1..n -> Int]
    PROVE  HandOut(a, size, 0, key).allocs = a
<1>1. IsFiniteSet({i \in 1..n : a[i] < size[i]})
  <2>1. PICK N, E : N = 1..n /\ E = {i \in 1..n : a[i] < size[i]}
    OBVIOUS
  <2>2. IsFiniteSet(N) /\ E \in SUBSET N
    BY <2>1, FS_Interval
  <2> QED BY <2>1, <2>2, FS_Subset
<1>2. 0 <= Cardinality({i \in 1..n : a[i] < size[i]})
  BY <1>1, FS_CardinalityType
<1>3. PICK left \in Nat : left = 0
  OBVIOUS
<1>4. PICK h : h = HandOut(a, size, left, key)
  OBVIOUS
<1>5. left <= Cardinality({i \in 1..n : a[i] < size[i]})
  BY <1>2, <1>3
<1>6. PICK G \in SUBSET (1..n) : IsFiniteSet(G) /\ Cardinality(G) = left /\ Raised(h.allocs, a, n, G)
  BY <1>4, <1>5, HandOutFacts
<1>7. G = {}
  BY <1>3, <1>6, FS_EmptySet
<1>8. \A i \in 1..n : a[i] + (IF i \in G THEN 1 ELSE 0) = a[i]
  BY <1>7
<1>9. [i \in 1..n |-> a[i] + (IF i \in G THEN 1 ELSE 0)] = [i \in 1..n |-> a[i]]
  BY <1>8, Zenon
<1>10. a = [i \in 1..n |-> a[i]]
  OBVIOUS
<1> QED BY <1>3, <1>4, <1>6, <1>9, <1>10 DEF Raised

\* A common factor does not change which is less.
LEMMA Cancels ==
    ASSUME NEW a \in Nat, NEW b \in Nat, NEW c \in Nat \ {0}, c * a <= b * c
    PROVE  a <= b
<1>1. SUFFICES ASSUME b < a PROVE FALSE
  OBVIOUS
<1>2. b * c < a * c /\ a * c = c * a
  BY <1>1, TimesGrows
<1>3. b * c \in Nat /\ a * c \in Nat
  BY TimesGrows
<1> QED BY <1>2, <1>3

\* extra holds the portions.
Portioned(extra, left, over, short, n) ==
    extra = [i \in 1..n |-> IF left > 0 THEN Portion(left, over[i], Total(over), i \in short) ELSE 0]

Fits(extra, left, over, E, n) ==
    /\ extra \in [1..n -> Nat] /\ \A i \in 1..n : extra[i] <= over[i]
    /\ Total(extra) \in Nat /\ Total(extra) <= left
    /\ Cardinality(E) \in Nat /\ left - Total(extra) <= Cardinality(E)

\* The portions fit into what is left, and what they leave of it is no more than one for
\* each that is still cut.
LEMMA ExtraFacts ==
    ASSUME NEW n \in Nat, NEW left \in Nat, NEW over \in [1..n -> Nat], left < Total(over), NEW short,
           NEW extra, Portioned(extra, left, over, short, n), NEW E, E = {i \in 1..n : extra[i] < over[i]}
    PROVE  Fits(extra, left, over, E, n)
<1>1. PICK all \in Nat \ {0} : all = Total(over)
  <2>1. Total(over) \in Int
    BY TotalType
  <2> QED BY <2>1
<1>2. ASSUME NEW i \in 1..n
      PROVE  /\ extra[i] \in Nat /\ extra[i] <= over[i]
             /\ all * extra[i] <= left * over[i]
             /\ left * over[i] <= all * (extra[i] + (IF i \in E THEN 1 ELSE 0))
  <2>1. PICK r \in Nat : r = over[i]
    OBVIOUS
  <2>2. PICK s \in BOOLEAN : Portion(left, r, all, i \in short) = Portion(left, r, all, s)
    <3>1. CASE i \in short
      <4>1. PICK s \in BOOLEAN : s = TRUE
        OBVIOUS
      <4> QED BY <3>1, <4>1 DEF Portion
    <3>2. CASE i \notin short
      <4>1. PICK s \in BOOLEAN : s = FALSE
        OBVIOUS
      <4> QED BY <3>2, <4>1 DEF Portion
    <3> QED BY <3>1, <3>2
  <2>3. PICK p : p = IF left > 0 THEN Portion(left, r, all, s) ELSE 0
    OBVIOUS
  <2>4. extra[i] = p
    BY <1>1, <2>1, <2>2, <2>3 DEF Portioned
  <2>5. /\ p \in Nat /\ p <= r /\ all * p <= left * r
        /\ left * r <= all * (p + (IF p < r THEN 1 ELSE 0))
    BY <1>1, <2>3, PortionFacts
  <2>6. (i \in E) <=> (p < r)
    BY <2>1, <2>4
  <2> QED BY <2>1, <2>4, <2>5, <2>6
<1>3. extra \in [1..n -> Nat]
  <2>1. extra = [i \in 1..n |-> extra[i]]
    BY DEF Portioned
  <2> QED BY <1>2, <2>1
<1>4. E \in SUBSET (1..n)
  OBVIOUS
<1> DEFINE have == [i \in 1..n |-> all * extra[i]]
           due == [i \in 1..n |-> left * over[i]]
           one == [i \in 1..n |-> IF i \in E THEN 1 ELSE 0]
           more == [i \in 1..n |-> extra[i] + one[i]]
           most == [i \in 1..n |-> all * more[i]]
<1>5. have \in [1..n -> Int] /\ due \in [1..n -> Int] /\ one \in [1..n -> Int] /\ more \in [1..n -> Int]
  BY <1>2
<1>6. most \in [1..n -> Int]
  BY <1>5
<1>7. /\ Scaled(have, all, extra, n) /\ Scaled(due, left, over, n) /\ Marked(one, E, n)
      /\ Added(more, extra, one, n)
  BY DEF Scaled, Marked, Added
<1>8. Scaled(most, all, more, n)
  BY DEF Scaled
<1>9. \A i \in 1..n : have[i] <= due[i] /\ due[i] <= most[i]
  BY <1>2
<1> HIDE DEF have, due, one, more, most
<1>10. over \in [1..n -> Int] /\ extra \in [1..n -> Int]
  BY <1>3
<1>11. Total(have) = all * Total(extra) /\ Total(due) = left * all /\ Total(most) = all * Total(more)
  <2>4. all \in Int /\ left \in Int
    OBVIOUS
  <2>1. Total(have) = all * Total(extra)
    BY <2>4, <1>5, <1>7, <1>10, TotalScales
  <2>2. Total(due) = left * Total(over)
    BY <2>4, <1>5, <1>7, <1>10, TotalScales
  <2>3. Total(most) = all * Total(more)
    BY <2>4, <1>5, <1>6, <1>8, TotalScales
  <2> QED BY <1>1, <2>1, <2>2, <2>3
<1>12. Total(have) <= Total(due) /\ Total(due) <= Total(most)
  BY <1>5, <1>6, <1>9, TotalGrows
<1>13. PICK c \in Nat : c = Cardinality(E) /\ Total(one) = c
  BY <1>4, <1>5, <1>7, TotalCounts
<1>14. Total(more) = Total(extra) + c
  <2>1. Total(more) = Total(extra) + Total(one)
    <3>1. /\ n \in Nat /\ extra \in [1..n -> Int] /\ one \in [1..n -> Int] /\ more \in [1..n -> Int]
          /\ Added(more, extra, one, n)
      BY <1>5, <1>7, <1>10
    <3> QED BY ONLY <3>1, TotalAdds
  <2> QED BY <1>13, <2>1
<1>15. PICK t \in Nat : t = Total(extra)
  <2>1. PICK zero \in [1..n -> Int] : \A i \in 1..n : zero[i] = 0
    <3>1. [i \in 1..n |-> 0] \in [1..n -> Int]
      OBVIOUS
    <3> QED BY <3>1
  <2>2. Total(zero) = n * 0
    BY <2>1, TotalRepeats
  <2>3. \A i \in 1..n : zero[i] <= extra[i]
    BY <1>2, <2>1
  <2>4. Total(zero) <= Total(extra)
    BY <1>10, <2>1, <2>3, TotalGrows
  <2>5. Total(extra) \in Int
    BY <1>10, TotalType
  <2> QED BY <2>2, <2>4, <2>5
<1>16. t <= left
  <2>1. all * t <= left * all
    BY <1>11, <1>12, <1>15
  <2> QED BY <2>1, Cancels
<1>17. left <= t + c
  <2>1. left * all <= all * (t + c)
    BY <1>11, <1>12, <1>14, <1>15
  <2>2. PICK m \in Nat : m = t + c
    OBVIOUS
  <2>3. left * all = all * left /\ all * m = m * all
    BY TimesGrows
  <2>4. all * left <= m * all
    BY <2>1, <2>2, <2>3
  <2> QED BY <2>2, <2>4, Cancels
<1>18. Cardinality(E) \in Nat /\ left - Total(extra) <= Cardinality(E)
  BY <1>13, <1>15, <1>17
<1>19. Total(extra) \in Nat /\ Total(extra) <= left
  BY <1>15, <1>16
<1>20. \A i \in 1..n : extra[i] <= over[i]
  BY <1>2
<1> QED BY <1>3, <1>18, <1>19, <1>20 DEF Fits

Budgeted(a, n, size, room) ==
    /\ a \in [1..n -> Nat \ {0}] /\ Total(a) = room
    /\ (\A i \in 1..n : MinEach <= size[i]) => \A i \in 1..n : a[i] <= size[i]

\* The budgets: at least one character each, all of the room together, and no more than a
\* result needs when none is shorter than the minimum.
LEMMA AllocsFacts ==
    ASSUME NEW n \in Nat \ {0}, NEW size \in [1..n -> Nat], NEW short, NEW room \in Nat,
           room = MaxContext - (n - 1), n <= room, room < Total(size),
           NEW a, a = Allocs(size, short)
    PROVE  Budgeted(a, n, size, room)
<1>1. MaxContext \in Nat /\ n \in Nat /\ Len(size) = n
  BY BudgetAssumption, IsASeq, LenProperties
<1>2. AtLeast(1, MaxContext - (n - 1)) = room
  BY <1>1 DEF AtLeast
<1> DEFINE each == IF room < n * MinEach THEN AtLeast(1, room \div n) ELSE MinEach
           left == room - n * each
           over == [i \in 1..n |-> AtLeast(0, size[i] - each)]
           extra == [i \in 1..n |-> IF left > 0
                                    THEN Portion(left, over[i], Total(over), i \in short) ELSE 0]
           part == [i \in 1..n |-> each + extra[i]]
           key == [i \in 1..n |-> over[i] - extra[i]]
           first == HandOut(part, size, left - Total(extra), key)
<1>3. a = HandOut(first.allocs, size, first.left, size).allocs
  BY <1>1, <1>2 DEF Allocs
<1>4. PICK e \in Nat \ {0} : e = each /\ e <= MinEach /\ n * e \in Nat /\ n * e <= room
  BY EachFacts
<1>5. PICK l \in Nat : l = room - n * e /\ l + n * e = room /\ l = left
  <2>1. PICK ne \in Nat : ne = n * e /\ ne <= room
    BY <1>4
  <2>2. PICK l \in Nat : l = room - ne
    BY <2>1
  <2>3. l = left
    BY <1>4, <2>1, <2>2
  <2> HIDE DEF left
  <2> QED BY <2>1, <2>2, <2>3
<1> HIDE DEF each
<1>6. \A i \in 1..n : over[i] = AtLeast(0, size[i] - e)
  BY <1>4
<1>7. \A i \in 1..n : over[i] \in Nat /\ size[i] <= e + over[i] /\ (over[i] > 0 => size[i] = e + over[i])
  <2>1. ASSUME NEW i \in 1..n
        PROVE  over[i] \in Nat /\ size[i] <= e + over[i] /\ (over[i] > 0 => size[i] = e + over[i])
    <3>1. PICK s \in Nat : s = size[i]
      OBVIOUS
    <3>2. over[i] = AtLeast(0, s - e)
      BY <1>6, <3>1
    <3> HIDE DEF over
    <3> QED BY <3>1, <3>2 DEF AtLeast
  <2> HIDE DEF over
  <2> QED BY <2>1
<1>8. over \in [1..n -> Nat]
  BY <1>7
<1> HIDE DEF left
<1>9. Portioned(extra, l, over, short, n)
  BY <1>5 DEF Portioned
<1> HIDE DEF over, extra
<1> DEFINE same == [i \in 1..n |-> e]
           most == [i \in 1..n |-> e + over[i]]
<1>10. same \in [1..n -> Int] /\ most \in [1..n -> Int] /\ over \in [1..n -> Int] /\ size \in [1..n -> Int]
  BY <1>8
<1>11. (\A i \in 1..n : same[i] = e) /\ Added(most, same, over, n) /\ \A i \in 1..n : size[i] <= most[i]
  BY <1>7 DEF Added
<1> HIDE DEF same, most
<1>12. Total(same) = n * e
  BY <1>10, <1>11, TotalRepeats
<1>13. Total(most) = Total(same) + Total(over)
  BY <1>10, <1>11, TotalAdds
<1>14. Total(size) <= Total(most) /\ Total(size) \in Int /\ Total(over) \in Int
  BY <1>10, <1>11, TotalGrows, TotalType
<1>15. l < Total(over)
  <2>1. PICK ne \in Nat : ne = n * e
    BY <1>4
  <2> QED BY <1>5, <1>12, <1>13, <1>14, <2>1
<1>16. PICK E : E = {i \in 1..n : extra[i] < over[i]}
  OBVIOUS
<1>17. /\ extra \in [1..n -> Nat] /\ \A i \in 1..n : extra[i] <= over[i]
       /\ Total(extra) \in Nat /\ Total(extra) <= l
       /\ Cardinality(E) \in Nat /\ l - Total(extra) <= Cardinality(E)
  <2>1. Fits(extra, l, over, E, n)
    BY <1>1, <1>8, <1>9, <1>15, <1>16, ExtraFacts
  <2> QED BY <2>1 DEF Fits
<1>18. PICK rest \in Nat : rest = l - Total(extra)
  BY <1>17
<1>19. \A i \in 1..n : part[i] = e + extra[i] /\ key[i] = over[i] - extra[i]
  BY <1>4
<1>20. part \in [1..n -> Int] /\ key \in [1..n -> Int]
  <2>1. \A i \in 1..n : extra[i] \in Int /\ over[i] \in Int
    BY <1>8, <1>17
  <2>2. \A i \in 1..n : part[i] \in Int /\ key[i] \in Int
    BY <1>19, <2>1
  <2>3. part = [i \in 1..n |-> part[i]] /\ key = [i \in 1..n |-> key[i]]
    OBVIOUS
  <2> HIDE DEF part, key
  <2> QED BY <2>2, <2>3
<1>21. {i \in 1..n : part[i] < size[i]} = E
  <2>1. ASSUME NEW i \in 1..n PROVE part[i] < size[i] <=> extra[i] < over[i]
    <3>1. PICK s \in Nat, x \in Nat, o \in Nat : s = size[i] /\ x = extra[i] /\ o = over[i]
      BY <1>7, <1>17
    <3>2. part[i] = e + x
      BY <1>19, <3>1
    <3>3. x <= o /\ s <= e + o /\ (o > 0 => s = e + o)
      BY <1>7, <1>17, <3>1
    <3>4. e + x < s <=> x < o
      BY <3>3
    <3> HIDE DEF part
    <3> QED BY <3>1, <3>2, <3>4
  <2> HIDE DEF part
  <2> QED BY <1>16, <2>1
<1>22. first = HandOut(part, size, rest, key)
  BY <1>5, <1>18
<1> HIDE DEF part, key, first
<1>23. PICK G \in SUBSET (1..n) :
         /\ \A i \in G : part[i] < size[i]
         /\ IsFiniteSet(G) /\ Cardinality(G) = rest /\ first.left = 0
         /\ Raised(first.allocs, part, n, G)
  <2>1. rest <= Cardinality({i \in 1..n : part[i] < size[i]})
    BY <1>17, <1>18, <1>21
  <2> QED BY <1>20, <1>22, <2>1, HandOutFacts
<1>24. PICK b : b = first.allocs
  OBVIOUS
<1>25. b = [i \in 1..n |-> part[i] + (IF i \in G THEN 1 ELSE 0)]
  BY <1>23, <1>24 DEF Raised
<1>26. \A i \in 1..n : b[i] = part[i] + (IF i \in G THEN 1 ELSE 0)
  BY <1>25
<1>27. b \in [1..n -> Int]
  BY <1>20, <1>25
<1>28. a = b
  <2>1. a = HandOut(b, size, 0, size).allocs
    BY <1>3, <1>23, <1>24
  <2> QED BY <1>10, <1>27, <2>1, NothingToHandOut
<1>29. ASSUME NEW i \in 1..n PROVE b[i] \in Nat \ {0} /\ (MinEach <= size[i] => b[i] <= size[i])
  <2>1. b[i] = e + extra[i] + (IF i \in G THEN 1 ELSE 0) /\ extra[i] \in Nat /\ extra[i] <= over[i]
    BY <1>17, <1>19, <1>26
  <2>2. b[i] \in Nat \ {0}
    BY <2>1
  <2>3. ASSUME MinEach <= size[i] PROVE b[i] <= size[i]
    <3>1. e <= size[i] /\ size[i] = e + over[i]
      BY <1>4, <1>6, <2>3, BudgetAssumption DEF AtLeast
    <3>2. i \in G => e + extra[i] < size[i]
      BY <1>19, <1>23
    <3> QED BY <1>7, <2>1, <3>1, <3>2
  <2> QED BY <2>2, <2>3
<1>30. a \in [1..n -> Nat \ {0}]
  <2>1. b = [i \in 1..n |-> b[i]]
    BY <1>25
  <2> QED BY <1>28, <1>29, <2>1
<1> DEFINE one == [i \in 1..n |-> IF i \in G THEN 1 ELSE 0]
<1>31. one \in [1..n -> Int] /\ Marked(one, G, n) /\ Added(b, part, one, n)
  BY <1>26 DEF Marked, Added
<1>32. Added(part, same, extra, n) /\ extra \in [1..n -> Int]
  <2>1. \A i \in 1..n : part[i] = same[i] + extra[i]
    BY <1>11, <1>19
  <2>2. extra \in [1..n -> Int]
    BY <1>17
  <2> QED BY <2>1, <2>2 DEF Added
<1> HIDE DEF one
<1>33. Total(one) = rest
  BY <1>23, <1>31, TotalCounts
<1>34. Total(b) = Total(part) + Total(one)
  <2>1. /\ n \in Nat /\ part \in [1..n -> Int] /\ one \in [1..n -> Int] /\ b \in [1..n -> Int]
        /\ Added(b, part, one, n)
    BY <1>1, <1>20, <1>27, <1>31
  <2> QED BY ONLY <2>1, TotalAdds
<1>35. Total(part) = Total(same) + Total(extra)
  <2>1. /\ n \in Nat /\ same \in [1..n -> Int] /\ extra \in [1..n -> Int] /\ part \in [1..n -> Int]
        /\ Added(part, same, extra, n)
    BY <1>1, <1>10, <1>20, <1>32
  <2> QED BY ONLY <2>1, TotalAdds
<1>36. Total(b) = room
  <2>1. PICK ne \in Nat : ne = n * e
    BY <1>4
  <2> QED BY <1>5, <1>12, <1>17, <1>18, <1>33, <1>34, <1>35, <2>1
<1> QED BY <1>28, <1>29, <1>30, <1>36 DEF Budgeted

\* What RoomIsShared says of two sequences of lengths.
Room(given, got) ==
    Len(given) <= MaxContext - (Len(given) - 1) =>
        /\ Joined(got) <= MaxContext
        /\ \A i \in DOMAIN given : given[i] > 0 => got[i] > 0
        /\ (\E i \in DOMAIN given : got[i] < given[i]) =>
              Joined(got) = MaxContext \/ \E i \in DOMAIN given : given[i] < MinEach

LEMMA SharesFacts ==
    ASSUME NEW given \in Seq(Nat), NEW short, NEW got, got = Shares(given, short)
    PROVE  Room(given, got)
<1>1. PICK n \in Nat : n = Len(given) /\ DOMAIN given = 1..n /\ given \in [1..n -> Nat]
  BY LenProperties
<1>2. \A i \in 1..n : given[i] \in Nat
  BY <1>1
<1>3. CASE Joined(given) <= MaxContext
  <2>1. got = given
    BY <1>3 DEF Shares
  <2> QED BY <1>1, <1>2, <1>3, <2>1 DEF Room
<1>4. CASE ~(Joined(given) <= MaxContext)
  <2>1. SUFFICES ASSUME n <= MaxContext - (n - 1) PROVE Room(given, got)
    BY <1>1 DEF Room
  <2>2. given # <<>> /\ n # 0
    <3>1. given # <<>>
      BY <1>4, BudgetAssumption DEF Joined
    <3> QED BY <1>1, <3>1, EmptySeq
  <2>3. PICK room \in Nat : room = MaxContext - (n - 1) /\ n <= room
    BY <2>1, BudgetAssumption
  <2>4. Total(given) \in Int
    BY <1>1, TotalType
  <2>5. room < Total(given)
    BY <1>1, <1>4, <2>2, <2>3, <2>4, BudgetAssumption DEF Joined
  <2>6. PICK a : a = Allocs(given, short)
    OBVIOUS
  <2>7. /\ a \in [1..n -> Nat \ {0}] /\ Total(a) = room
        /\ (\A i \in 1..n : MinEach <= given[i]) => \A i \in 1..n : a[i] <= given[i]
    <3>1. n \in Nat \ {0}
      BY <2>2
    <3>2. Budgeted(a, n, given, room)
      BY <1>1, <2>3, <2>5, <2>6, <3>1, AllocsFacts
    <3> QED BY <3>2 DEF Budgeted
  <2>8. got = [i \in 1..n |-> Shrunk(given[i], a[i])]
    BY <1>1, <1>4, <2>6 DEF Shares
  <2>9. \A i \in 1..n : got[i] = (IF given[i] < a[i] THEN given[i] ELSE a[i])
    <3>1. ASSUME NEW i \in 1..n PROVE got[i] = (IF given[i] < a[i] THEN given[i] ELSE a[i])
      <4>1. PICK g \in Nat, b \in Nat \ {0} : g = given[i] /\ b = a[i]
        BY <1>2, <2>7
      <4>2. got[i] = Shrunk(g, b)
        BY <2>8, <4>1
      <4> QED BY <4>1, <4>2 DEF Shrunk, AtLeast, AtMost
    <3> QED BY <3>1
  <2>10. \A i \in 1..n : got[i] \in Nat /\ got[i] <= a[i] /\ (given[i] > 0 => got[i] > 0)
    BY <1>2, <2>7, <2>9
  <2>11. got \in [1..n -> Nat]
    <3>1. got = [i \in 1..n |-> got[i]]
      BY <2>8
    <3> QED BY <2>10, <3>1
  <2>12. Total(got) \in Int /\ Total(got) <= room
    <3>1. got \in [1..n -> Int] /\ a \in [1..n -> Int]
      BY <2>7, <2>11
    <3>2. Total(got) <= Total(a)
      BY <2>10, <3>1, TotalGrows
    <3> QED BY <2>7, <3>1, <3>2, TotalType
  <2>13. Joined(got) = Total(got) + n - 1
    <3>1. Len(got) = n /\ got \in Seq(Nat)
      BY <2>11, IsASeq, LenProperties
    <3>2. got # <<>>
      BY <2>2, <3>1, EmptySeq
    <3> QED BY <3>1, <3>2 DEF Joined
  <2>14. Joined(got) <= MaxContext
    BY <2>3, <2>12, <2>13, BudgetAssumption
  <2>15. ASSUME \A i \in 1..n : ~(given[i] < MinEach) PROVE Joined(got) = MaxContext
    <3>1. \A i \in 1..n : MinEach <= given[i]
      BY <1>2, <2>15, BudgetAssumption
    <3>2. \A i \in 1..n : a[i] <= given[i]
      BY <2>7, <3>1
    <3>3. ASSUME NEW i \in 1..n PROVE got[i] = a[i]
      <4>1. PICK g \in Nat, b \in Nat : g = given[i] /\ b = a[i] /\ b <= g
        BY <1>2, <2>7, <3>2
      <4>2. got[i] = IF g < b THEN g ELSE b
        BY <2>9, <4>1
      <4> QED BY <4>1, <4>2
    <3>4. got = a
      BY <2>7, <2>11, <3>3
    <3> QED BY <2>3, <2>7, <2>13, <3>4, BudgetAssumption
  <2> QED BY <1>1, <2>10, <2>14, <2>15 DEF Room
<1> QED BY <1>3, <1>4

\* The prompt keeps within its room, no result that says something vanishes from it, and no
\* room is wasted while a result is cut (_compress_step_results_for_context), for all
\* results, sizes of the prompt and roundings of the floats.
THEOREM RoomStaysShared == Spec => []RoomIsShared
<1>1. Room(lens, shares) <=> RoomIsShared
  BY DEF Room, RoomIsShared
<1>2. Init => Room(lens, shares)
  <2>1. Len(<<>>) = 0 /\ DOMAIN <<>> = {} /\ Joined(<<>>) = 0
    BY EmptySeq DEF Joined
  <2>2. Room(<<>>, <<>>)
    BY <2>1, BudgetAssumption DEF Room
  <2> QED BY <2>2 DEF Init
<1>3. ASSUME Room(lens, shares), [Next]_vars
      PROVE  Room(lens', shares')
  <2>1. CASE lens' = lens /\ shares' = shares
    BY <1>3, <2>1
  <2>2. CASE lens' = <<>> /\ shares' = <<>>
    <3>1. Len(<<>>) = 0 /\ DOMAIN <<>> = {} /\ Joined(<<>>) = 0
      BY EmptySeq DEF Joined
    <3>2. Room(<<>>, <<>>)
      BY <3>1, BudgetAssumption DEF Room
    <3> QED BY <2>2, <3>2
  <2>3. ASSUME NEW f \in Forms, NEW r \in Results, NEW s \in SUBSET (1..3), Gather(f, r, s)
        PROVE  Room(lens', shares')
    <3>1. r \in Seq(Nat) /\ lens' = r /\ shares' = Shares(r, s)
      BY <2>3, ResultsAssumption DEF Gather
    <3> QED BY <3>1, SharesFacts
  <2>4. CASE Ask
    BY <2>1, <2>3, <2>4 DEF Ask, AnswerCanceled
  <2>5. CASE Work
    BY <2>1, <2>2, <2>5 DEF Work, Draft, DraftFails, Return, Check, FixFails, BeginTerms, Rewritten,
                            Fixed, Polished, Kept
  <2>6. CASE Model \/ Cancel \/ UNCHANGED vars
    BY <2>1, <2>6 DEF Model, Cancel, vars, answer
  <2> QED BY <1>3, <2>4, <2>5, <2>6 DEF Next
<1>4. Room(lens, shares)' <=> Room(lens', shares')
  BY DEF Room
<1> QED BY <1>1, <1>2, <1>3, <1>4, PTL DEF Spec
=============================================================================
