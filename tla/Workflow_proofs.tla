-------------------------- MODULE Workflow_proofs --------------------------
(***************************************************************************)
(* Proofs about one run of the agent graph, for any tools, plans of any    *)
(* length and any limits.  The types come first, with a bound on the step  *)
(* ids; then the retries (their number and their place); then what a run   *)
(* without a planner error keeps at each node; and last that the run       *)
(* implements GraphRuns.                                                   *)
(***************************************************************************)
EXTENDS Workflow, TLAPS, SequenceTheorems, FiniteSetTheorems, WellFoundedInduction

-----------------------------------------------------------------------------
(* The operators of the model.                                              *)

\* The well-founded order of the naturals gives every set of them a least element.
LEMMA LeastNat ==
    ASSUME NEW T \in SUBSET Nat, T # {}
    PROVE  \E m \in T : \A k \in T : m <= k
<1> DEFINE R == OpToRel(<, Nat)
<1>1. IsWellFoundedOn(R, Nat)
  BY NatLessThanWellFounded
<1>2. \A a, b \in Nat : a < b => <<a, b>> \in R
  BY DEF OpToRel
<1> HIDE DEF R
<1>3. PICK m \in T : \A y \in T : ~(<<y, m>> \in R)
  BY <1>1, WFMin
<1>4. ASSUME NEW k \in T PROVE m <= k
  <2>1. m \in Nat /\ k \in Nat
    OBVIOUS
  <2>2. ~(k < m)
    BY <2>1, <1>2, <1>3
  <2> QED BY <2>1, <2>2
<1> QED BY <1>4

\* A set of naturals with a bound has a greatest element, and Max finds it.
LEMMA MaxOfBounded ==
    ASSUME NEW S \in SUBSET Nat, S # {}, NEW n \in Nat, \A i \in S : i <= n
    PROVE  Max(S) \in S /\ \A i \in S : i <= Max(S)
<1> DEFINE T == {b \in Nat : \A i \in S : i <= b}
<1>1. PICK m \in T : \A k \in T : m <= k
  <2>1. n \in T
    OBVIOUS
  <2> QED BY <2>1, LeastNat
<1>2. m \in S
  <2> SUFFICES ASSUME m \notin S PROVE FALSE
    OBVIOUS
  <2>1. \A i \in S : i \in Nat /\ i <= m /\ i # m
    BY <1>1
  <2>2. m \in Nat /\ m # 0
    <3>1. PICK i \in S : TRUE
      OBVIOUS
    <3> QED BY <2>1, <3>1
  <2>3. m - 1 \in T
    BY <2>1, <2>2
  <2> QED BY <2>2, <2>3, <1>1
<1>3. m \in S /\ \A i \in S : m >= i
  BY <1>1, <1>2
<1>4. Max(S) \in S /\ \A i \in S : Max(S) >= i
  BY <1>3 DEF Max
<1> QED BY <1>4

\* The tools of a plan become that many pending steps, with ids after base.
LEMMA BuildStepsFacts ==
    ASSUME NEW tools \in Seq(AllTools), NEW base \in Nat
    PROVE  /\ BuildSteps(tools, base) \in Seq(Step)
           /\ Len(BuildSteps(tools, base)) = Len(tools)
           /\ \A p \in 1..Len(tools) :
                 BuildSteps(tools, base)[p] =
                    [id |-> base + p, tool |-> tools[p], status |-> "pending", retry |-> FALSE]
<1> DEFINE s == BuildSteps(tools, base)
<1>1. Len(tools) \in Nat /\ \A p \in 1..Len(tools) : tools[p] \in AllTools
  BY LenProperties, ElementOfSeq
<1>2. s \in [1..Len(tools) -> Step]
  BY <1>1 DEF BuildSteps, Step, StepStatus
<1>3. s \in Seq(Step) /\ DOMAIN s = 1..Len(tools)
  BY <1>1, <1>2, SeqDef
<1>4. Len(s) = Len(tools)
  BY <1>1, <1>3, LenProperties
<1> QED BY <1>1, <1>3, <1>4 DEF BuildSteps

\* Skipping changes the status of the pending steps from a position on, and nothing else.
LEMMA SkipPendingFacts ==
    ASSUME NEW s \in Seq(Step), NEW c \in Nat
    PROVE  /\ SkipPending(s, c) \in Seq(Step)
           /\ Len(SkipPending(s, c)) = Len(s)
           /\ \A p \in 1..Len(s) :
                 SkipPending(s, c)[p] = IF p >= c /\ s[p].status = "pending"
                                        THEN [s[p] EXCEPT !.status = "skipped"] ELSE s[p]
<1> DEFINE t == SkipPending(s, c)
<1>1. Len(s) \in Nat /\ \A p \in 1..Len(s) : s[p] \in Step
  BY LenProperties, ElementOfSeq
<1>2. t \in [1..Len(s) -> Step]
  BY <1>1 DEF SkipPending, PendingFrom, Step, StepStatus
<1>3. t \in Seq(Step) /\ DOMAIN t = 1..Len(s)
  BY <1>1, <1>2, SeqDef
<1>4. Len(t) = Len(s)
  BY <1>1, <1>3, LenProperties
<1>5. \A p \in 1..Len(s) : p \in PendingFrom(s, c) <=> p >= c /\ s[p].status = "pending"
  BY <1>1 DEF PendingFrom
<1> QED BY <1>1, <1>3, <1>4, <1>5 DEF SkipPending

\* An insertion moves what follows by one.
LEMMA InsertAtFacts ==
    ASSUME NEW s \in Seq(Step), NEW i \in 1..(Len(s) + 1), NEW e \in Step
    PROVE  /\ InsertAt(s, i, e) \in Seq(Step)
           /\ Len(InsertAt(s, i, e)) = Len(s) + 1
           /\ \A p \in 1..(Len(s) + 1) :
                 InsertAt(s, i, e)[p] = IF p < i THEN s[p] ELSE IF p = i THEN e ELSE s[p - 1]
<1> DEFINE a == SubSeq(s, 1, i - 1)
           b == SubSeq(s, i, Len(s))
           ae == a \o <<e>>
<1>1. Len(s) \in Nat /\ \A p \in 1..Len(s) : s[p] \in Step
  BY LenProperties, ElementOfSeq
<1>2. /\ a \in Seq(Step) /\ Len(a) = i - 1
      /\ \A p \in 1..(i - 1) : a[p] = s[p]
  <2>1. i - 1 \in Int /\ 1 \in Int /\ \A p \in 1..(i - 1) : s[p] \in Step
    BY <1>1
  <2>2. /\ a \in Seq(Step) /\ Len(a) = IF 1 <= i - 1 THEN (i - 1) - 1 + 1 ELSE 0
        /\ \A p \in 1..((i - 1) - 1 + 1) : a[p] = s[1 + p - 1]
    BY <2>1, SubSeqProperties
  <2> QED BY <1>1, <2>2
<1>3. /\ b \in Seq(Step) /\ Len(b) = Len(s) - i + 1
      /\ \A p \in 1..(Len(s) - i + 1) : b[p] = s[i + p - 1]
  <2>1. i \in Int /\ Len(s) \in Int /\ \A p \in i..Len(s) : s[p] \in Step
    BY <1>1
  <2>2. /\ b \in Seq(Step) /\ Len(b) = IF i <= Len(s) THEN Len(s) - i + 1 ELSE 0
        /\ \A p \in 1..(Len(s) - i + 1) : b[p] = s[i + p - 1]
    BY <2>1, SubSeqProperties
  <2> QED BY <1>1, <2>2
<1>4. <<e>> \in Seq(Step) /\ Len(<<e>>) = 1 /\ <<e>>[1] = e
  OBVIOUS
<1> HIDE DEF a, b
<1>5. /\ ae \in Seq(Step) /\ Len(ae) = Len(a) + 1
      /\ \A p \in 1..(Len(a) + 1) : ae[p] = IF p <= Len(a) THEN a[p] ELSE <<e>>[p - Len(a)]
  BY <1>2, <1>4, ConcatProperties
<1>6. /\ ae \in Seq(Step) /\ Len(ae) = i
      /\ \A p \in 1..i : ae[p] = IF p < i THEN s[p] ELSE e
  BY <1>1, <1>2, <1>4, <1>5
<1> HIDE DEF ae
<1>7. /\ ae \o b \in Seq(Step) /\ Len(ae \o b) = Len(ae) + Len(b)
      /\ \A p \in 1..(Len(ae) + Len(b)) : (ae \o b)[p] = IF p <= Len(ae) THEN ae[p] ELSE b[p - Len(ae)]
  BY <1>3, <1>6, ConcatProperties
<1>8. /\ ae \o b \in Seq(Step) /\ Len(ae \o b) = Len(s) + 1
      /\ \A p \in 1..(Len(s) + 1) :
            (ae \o b)[p] = IF p < i THEN s[p] ELSE IF p = i THEN e ELSE s[p - 1]
  BY <1>1, <1>3, <1>6, <1>7
<1>9. InsertAt(s, i, e) = ae \o b
  BY DEF InsertAt, ae, a, b
<1> QED BY <1>8, <1>9

\* A save adds the ids of the saved steps to the rows.
LEMMA SaveStepsDomain ==
    ASSUME NEW rows, NEW steps, NEW ps
    PROVE  \A i : i \in DOMAIN SaveSteps(rows, steps, ps)
                     <=> i \in DOMAIN rows \/ \E p \in ps : i = steps[p].id
BY DEF SaveSteps

\* The counters stay below their caps, and an issue counts for its tool.
LEMMA AdvanceFacts ==
    ASSUME NEW s \in Stats, NEW tool \in AllTools, NEW issue \in Issues \cup {"none"}
    PROVE  /\ Advance(s, tool, issue) \in Stats
           /\ issue # "none" => Advance(s, tool, issue).streak[tool] >= 1
           /\ issue # "none" /\ s.streak[tool] >= 1 => Advance(s, tool, issue).streak[tool] = 2
           /\ Advance(s, tool, issue).llmEmpty = s.llmEmpty
<1>1. CASE issue = "none"
  BY <1>1 DEF Advance, Stats
<1>2. CASE issue # "none"
  <2>1. /\ s.streak \in [AllTools -> 0..2] /\ s.issues \in [Issues -> 0..3] /\ s.llmEmpty \in 0..1
        /\ s = [streak |-> s.streak, issues |-> s.issues, llmEmpty |-> s.llmEmpty]
    BY DEF Stats
  <2>2. Capped(s.streak[tool], 2) \in 0..2 /\ Capped(s.issues[issue], 3) \in 0..3
    BY <2>1, <1>2 DEF Capped
  <2>3. Capped(s.streak[tool], 2) >= 1 /\ (s.streak[tool] >= 1 => Capped(s.streak[tool], 2) = 2)
    BY <2>1, <1>2 DEF Capped
  <2>4. [s.streak EXCEPT ![tool] = Capped(@, 2)] \in [AllTools -> 0..2]
    BY <2>1, <2>2
  <2>5. [s.issues EXCEPT ![issue] = Capped(@, 3)] \in [Issues -> 0..3]
    BY <2>1, <2>2
  <2>6. Advance(s, tool, issue) =
           [streak |-> [s.streak EXCEPT ![tool] = Capped(@, 2)],
            issues |-> [s.issues EXCEPT ![issue] = Capped(@, 3)], llmEmpty |-> s.llmEmpty]
    BY <2>1, <1>2 DEF Advance
  <2>7. [s.streak EXCEPT ![tool] = Capped(@, 2)][tool] = Capped(s.streak[tool], 2)
    BY <2>1
  <2>8. Advance(s, tool, issue) \in Stats
    BY <2>1, <2>4, <2>5, <2>6 DEF Stats
  <2> QED BY <1>2, <2>3, <2>6, <2>7, <2>8
<1> QED BY <1>1, <1>2

\* What a tool returns has an issue of the list, or none.
LEMMA OutcomeFacts ==
    ASSUME NEW tool, NEW o \in Outcomes(tool) \cup {CanceledOutcome}
    PROVE  o.issue \in Issues \cup {"none"} /\ o.success \in BOOLEAN
<1> DEFINE I == Issues \cup {"none"}
<1>1. \A i, r, b : Outcome(i, r, b).issue = i /\ Outcome(i, r, b).success = b
  BY DEF Outcome
<1>2. \E i \in I, r \in {"bad", "low", "usable"}, b \in {TRUE, FALSE} : o = Outcome(i, r, b)
  <2>1. {"low_evidence", "none", "missing_file", "tool_error", "empty_result"} \subseteq I
    BY DEF Issues
  <2>2. CASE o \in Outcomes(tool) /\ tool = "RAG"
    BY <2>1, <2>2, Zenon DEF Outcomes
  <2>3. CASE o \in Outcomes(tool) /\ tool # "RAG" /\ tool \in DataTools
    BY <2>1, <2>3, Zenon DEF Outcomes
  <2>4. CASE o \in Outcomes(tool) /\ tool # "RAG" /\ tool \notin DataTools
    BY <2>1, <2>4, Zenon DEF Outcomes
  <2>5. CASE o = CanceledOutcome
    BY <2>1, <2>5, Zenon DEF CanceledOutcome
  <2> QED BY <2>2, <2>3, <2>4, <2>5
<1>3. PICK i \in I, r \in {"bad", "low", "usable"}, b \in {TRUE, FALSE} : o = Outcome(i, r, b)
  BY <1>2
<1>4. o.issue = i /\ o.success = b
  BY <1>1, <1>3
<1>5. b \in BOOLEAN
  OBVIOUS
<1> QED BY <1>4, <1>5

\* The policy spends a remediation only on an issue, below the limit of the task and
\* while the tool has no streak; the second repair of an empty answer is refused.
LEMMA RemediationFacts ==
    ASSUME NEW tool \in AllTools, NEW issue \in Issues \cup {"none"}, NEW s \in Stats,
           NEW count \in Nat, NEW replans \in Nat,
           Remediation(tool, issue, s, count, replans) \in {"retry_same_tool", "replan"}
    PROVE  /\ issue # "none" /\ count < MaxRemediations /\ s.streak[tool] < 2
           /\ tool = "LLM" /\ issue = "empty_result"
                 /\ Remediation(tool, issue, s, count, replans) = "retry_same_tool" => s.llmEmpty = 0
<1> DEFINE action == Remediation(tool, issue, s, count, replans)
<1>1. s.streak[tool] \in 0..2 /\ s.llmEmpty \in 0..1
  BY DEF Stats
<1>2. issue # "none"
  BY DEF Remediation
<1>3. ~(count >= MaxRemediations) /\ ~(s.streak[tool] >= 2) /\ action = RemedyFor(tool, issue, s, replans)
  BY <1>2 DEF Remediation
<1>4. count < MaxRemediations /\ s.streak[tool] < 2
  BY <1>1, <1>3, BoundsAssumption
<1>5. ASSUME tool = "LLM", issue = "empty_result", action = "retry_same_tool" PROVE s.llmEmpty = 0
  <2>1. s.llmEmpty < 1
    BY <1>3, <1>5 DEF RemedyFor
  <2> QED BY <1>1, <2>1
<1> QED BY <1>2, <1>4, <1>5

-----------------------------------------------------------------------------
(* Types.                                                                   *)

TaskType == [steps : Seq(Step), status : TaskStatus, answer : Answer, cancel : BOOLEAN,
             pending : {"none", "success", "partial", "canceled"}]
StateType == [idx : Nat, legacy : Nat, cancel : BOOLEAN, error : BOOLEAN, replanning : BOOLEAN,
              reviews : Nat, replans : Nat, remediations : Nat, answer : Answer, stats : Stats]
RowType == [status : TaskStatus, answer : Answer]

\* The ids in use have a bound, so that LastId is one of them.
IdsBounded == \E n \in Nat : /\ \A i \in DOMAIN stepRows : i \in 0..n
                             /\ \A p \in Positions : task.steps[p].id \in 0..n

Types == TypeOK /\ IdsBounded

LEMMA TypesGive ==
    ASSUME Types
    PROVE  /\ task \in TaskType /\ state \in StateType /\ row \in RowType
           /\ Len(task.steps) \in Nat /\ \A p \in Positions : task.steps[p] \in Step
<1>1. task \in TaskType /\ state \in StateType /\ row \in RowType
  BY DEF Types, TypeOK, TaskType, StateType, RowType
<1>2. task.steps \in Seq(Step)
  BY <1>1 DEF TaskType
<1> QED BY <1>1, <1>2, LenProperties, ElementOfSeq DEF Positions

\* LastId is a natural number, and no row has a greater id.
LEMMA LastIdFacts ==
    ASSUME IdsBounded
    PROVE  LastId \in Nat /\ \A i \in DOMAIN stepRows : i <= LastId
<1>1. PICK n \in Nat : \A i \in DOMAIN stepRows : i \in 0..n
  BY DEF IdsBounded
<1> DEFINE S == {0} \cup DOMAIN stepRows
<1>2. S \in SUBSET Nat /\ S # {} /\ \A i \in S : i <= n
  BY <1>1
<1> HIDE DEF S
<1>3. Max(S) \in S /\ \A i \in S : i <= Max(S)
  BY <1>2, MaxOfBounded
<1>4. LastId = Max(S)
  BY DEF LastId, S
<1> QED BY <1>2, <1>3, <1>4 DEF S

\* A step keeps the bound when it makes no ids above a number of its own.
LEMMA IdsStayBounded ==
    ASSUME IdsBounded, NEW m \in Nat,
           \A i \in DOMAIN stepRows' : \/ i \in DOMAIN stepRows \/ i \in 0..m
                                       \/ \E p \in Positions : i = task.steps[p].id,
           \A q \in 1..Len(task'.steps) : \/ task'.steps[q].id \in 0..m
                                          \/ \E p \in Positions : task'.steps[q].id = task.steps[p].id
    PROVE  IdsBounded'
<1>1. PICK n \in Nat : /\ \A i \in DOMAIN stepRows : i \in 0..n
                       /\ \A p \in Positions : task.steps[p].id \in 0..n
  BY DEF IdsBounded
<1>2. n + m \in Nat /\ \A i : i \in 0..n \/ i \in 0..m => i \in 0..(n + m)
  OBVIOUS
<1>3. \A i \in DOMAIN stepRows' : i \in 0..(n + m)
  BY <1>1, <1>2
<1>4. \A q \in 1..Len(task'.steps) : task'.steps[q].id \in 0..(n + m)
  BY <1>1, <1>2
<1> QED BY <1>2, <1>3, <1>4 DEF IdsBounded, Positions

-----------------------------------------------------------------------------
(* What the executor does with a step.                                      *)

\* t is the task after its current step ran: only the status of that step changed.
Settles(t) ==
    /\ Len(t.steps) = Len(task.steps) /\ t.status = task.status /\ t.pending = task.pending
    /\ \A p \in Positions \ {Current} : t.steps[p] = task.steps[p]
    /\ \E status \in {"success", "failed", "skipped"} :
          /\ t.steps[Current] = [task.steps[Current] EXCEPT !.status = status]
          /\ t.cancel <=> status = "skipped"

LEMMA RanFacts ==
    ASSUME Types, state.idx < Len(task.steps), event' \in BOOLEAN, NEW o, o.success \in BOOLEAN
    PROVE  Ran(o) \in TaskType /\ Settles(Ran(o)) /\ Current \in Positions
<1> DEFINE status == IF event' THEN "skipped" ELSE IF o.success THEN "success" ELSE "failed"
           new == [task.steps[Current] EXCEPT !.status = status]
           steps == [task.steps EXCEPT ![Current] = new]
<1>1. Current \in Positions /\ Current \in 1..Len(task.steps)
  BY TypesGive DEF Current, Positions, StateType
<1>2. task \in TaskType /\ task.steps \in Seq(Step) /\ task.steps[Current] \in Step
  BY <1>1, TypesGive DEF TaskType
<1>3. status \in {"success", "failed", "skipped"} /\ (event' <=> status = "skipped")
  OBVIOUS
<1>4. new \in Step
  BY <1>2, <1>3 DEF Step, StepStatus
<1> HIDE DEF new
<1>5. /\ steps \in Seq(Step) /\ Len(steps) = Len(task.steps)
      /\ \A p \in Positions : steps[p] = IF p = Current THEN new ELSE task.steps[p]
  BY <1>1, <1>2, <1>4, ExceptSeq DEF Positions
<1>6. Ran(o) = [task EXCEPT !.steps = steps, !.cancel = event']
  <2>1. task.steps \in [1..Len(task.steps) -> Step]
    BY <1>2, LenProperties
  <2> QED BY <1>2 DEF Ran, TaskType, new
<1> HIDE DEF steps
<1>7. Ran(o) \in TaskType
  BY <1>2, <1>5, <1>6 DEF TaskType
<1>8. Ran(o).steps = steps /\ Ran(o).cancel = event' /\ Ran(o).status = task.status
      /\ Ran(o).pending = task.pending
  BY <1>2, <1>6 DEF TaskType
<1> HIDE DEF status
<1>9. Settles(Ran(o))
  <2>1. \A p \in Positions \ {Current} : steps[p] = task.steps[p]
    BY <1>5
  <2>2. steps[Current] = [task.steps[Current] EXCEPT !.status = status]
    BY <1>1, <1>5 DEF new
  <2> QED BY <1>3, <1>5, <1>8, <2>1, <2>2 DEF Settles
<1> QED BY <1>1, <1>7, <1>9

\* The policy may spend a remediation on the current step: the counters show the first
\* failure of its tool in a row.
Remediable(t, stats) ==
    /\ state.remediations < MaxRemediations
    /\ state.stats.streak[t.steps[Current].tool] = 0
    /\ stats.streak[t.steps[Current].tool] >= 1

\* The four ways on from a step that ran.
GoesOn(t, stats) ==
    \/ RetryStep(t, stats) /\ Remediable(t, stats)
    \/ ControlledReplan(t, stats) /\ Remediable(t, stats)
    \/ DefaultReplan(t)
    \/ t.cancel /\ CancelRest(t, Current + 1)
    \/ ~t.cancel /\ FinishStep(t, stats)

LEMMA AfterStepSplits ==
    ASSUME Types, NEW o, o.issue \in Issues \cup {"none"}, NEW t \in TaskType,
           Current \in 1..Len(t.steps), AfterStep(o, t)
    PROVE  \E stats \in Stats : GoesOn(t, stats)
<1> DEFINE tool == t.steps[Current].tool
           stats == Advance(state.stats, tool, o.issue)
           action == Remediation(tool, o.issue, stats, state.remediations, state.replans)
           empty == tool = "LLM" /\ o.issue = "empty_result"
           used == IF empty THEN [stats EXCEPT !.llmEmpty = @ + 1] ELSE stats
<1>1. /\ state.stats \in Stats /\ state.remediations \in Nat /\ state.replans \in Nat
      /\ state.stats.streak[tool] \in 0..2 /\ tool \in AllTools
  <2>1. t.steps \in Seq(Step)
    BY DEF TaskType
  <2>2. t.steps[Current] \in Step
    BY <2>1, ElementOfSeq
  <2>3. tool \in AllTools
    BY <2>2 DEF Step
  <2> QED BY <2>3, TypesGive DEF StateType, Stats
<1>2. /\ stats \in Stats /\ stats.streak[tool] \in 0..2
      /\ o.issue # "none" => stats.streak[tool] >= 1
      /\ o.issue # "none" /\ state.stats.streak[tool] >= 1 => stats.streak[tool] = 2
      /\ stats.llmEmpty = state.stats.llmEmpty
  BY <1>1, AdvanceFacts DEF Stats
<1>3. /\ \/ action = "retry_same_tool" /\ RetryStep(t, used)
         \/ action = "replan" /\ ControlledReplan(t, stats)
         \/ /\ action \notin {"retry_same_tool", "replan"}
            /\ \/ DefaultReplan(t)
               \/ IF t.cancel THEN CancelRest(t, Current + 1) ELSE FinishStep(t, stats)
  BY DEF AfterStep
<1> HIDE DEF stats
<1>4. ASSUME action \in {"retry_same_tool", "replan"}
      PROVE  /\ Remediable(t, stats)
             /\ empty /\ action = "retry_same_tool" => stats.llmEmpty = 0
  <2>1. /\ o.issue # "none" /\ state.remediations < MaxRemediations /\ stats.streak[tool] < 2
        /\ empty /\ action = "retry_same_tool" => stats.llmEmpty = 0
    BY <1>1, <1>2, <1>4, RemediationFacts
  <2>2. stats.streak[tool] >= 1 /\ state.stats.streak[tool] = 0
    BY <1>1, <1>2, <2>1
  <2> QED BY <2>1, <2>2 DEF Remediable
<1>5. CASE action = "retry_same_tool" /\ RetryStep(t, used)
  <2>1. Remediable(t, stats) /\ (empty => stats.llmEmpty = 0)
    BY <1>4, <1>5
  <2>2. used \in Stats /\ used.streak = stats.streak
    BY <1>2, <2>1 DEF Stats
  <2>3. Remediable(t, used)
    BY <2>1, <2>2 DEF Remediable
  <2> QED BY <1>5, <2>2, <2>3 DEF GoesOn
<1>6. CASE action = "replan" /\ ControlledReplan(t, stats)
  BY <1>2, <1>4, <1>6 DEF GoesOn
<1>7. CASE DefaultReplan(t) \/ IF t.cancel THEN CancelRest(t, Current + 1) ELSE FinishStep(t, stats)
  BY <1>2, <1>7 DEF GoesOn
<1> QED BY <1>3, <1>5, <1>6, <1>7

\* A step runs in one of these ways, with a task in which it has settled.
LEMMA ExecuteStepSplits ==
    ASSUME Types, ExecuteStep
    PROVE  /\ Current \in Positions
           /\ ~task.cancel
           /\ \E t \in TaskType, stats \in Stats : Settles(t) /\ GoesOn(t, stats)
<1>1. event' \in BOOLEAN /\ state.idx < Len(task.steps) /\ ~task.cancel
  BY DEF ExecuteStep
<1>2. PICK o \in Outcomes(task.steps[Current].tool) \cup {CanceledOutcome} : AfterStep(o, Ran(o))
  BY DEF ExecuteStep
<1>3. o.issue \in Issues \cup {"none"} /\ o.success \in BOOLEAN
  BY <1>2, OutcomeFacts
<1>4. Ran(o) \in TaskType /\ Settles(Ran(o)) /\ Current \in Positions
  BY <1>1, <1>3, RanFacts
<1>5. Current \in 1..Len(Ran(o).steps)
  BY <1>4 DEF Settles, Positions
<1>6. \E stats \in Stats : GoesOn(Ran(o), stats)
  BY <1>2, <1>3, <1>4, <1>5, AfterStepSplits
<1> QED BY <1>1, <1>4, <1>6

\* What each way changes.  Kept are the fields of the state that no step of the executor
\* writes.
Kept == state'.error = state.error /\ state'.reviews = state.reviews

LEMMA RetryStepFacts ==
    ASSUME Types, NEW t \in TaskType, Len(t.steps) = Len(task.steps), Current \in Positions,
           NEW stats \in Stats, RetryStep(t, stats)
    PROVE  /\ task' \in TaskType /\ state' \in StateType /\ Kept
           /\ row' = SavedTask(task') /\ pc' = CheckNextStep(state')
           /\ task'.cancel = t.cancel /\ task'.pending = t.pending /\ task'.status = t.status
           /\ Len(task'.steps) = Len(task.steps) + 1
           /\ \A p \in 1..(Len(task.steps) + 1) :
                 task'.steps[p] =
                    IF p <= Current THEN t.steps[p]
                    ELSE IF p = Current + 1
                         THEN [id |-> LastId + 1, tool |-> t.steps[Current].tool,
                               status |-> "pending", retry |-> TRUE]
                         ELSE t.steps[p - 1]
           /\ stepRows' = SaveSteps(stepRows, task'.steps, Current..Len(task'.steps))
           /\ state'.idx = Current /\ state'.legacy = Len(task'.steps) /\ ~state'.replanning
           /\ state'.remediations = state.remediations + 1 /\ state'.stats = stats
           /\ state'.cancel = state.cancel /\ state'.replans = state.replans
<1> DEFINE step == [id |-> LastId + 1, tool |-> t.steps[Current].tool,
                    status |-> "pending", retry |-> TRUE]
           steps == InsertAt(t.steps, Current + 1, step)
           new == [state EXCEPT !.idx = @ + 1, !.legacy = Len(steps), !.replanning = FALSE,
                                !.remediations = @ + 1, !.stats = stats]
<1>1. /\ task' = [t EXCEPT !.steps = steps] /\ row' = SavedTask(task') /\ state' = new
      /\ pc' = CheckNextStep(new) /\ stepRows' = SaveSteps(stepRows, steps, Current..Len(steps))
  BY DEF RetryStep, ExecutorReturns
<1>2. /\ t.steps \in Seq(Step) /\ Current \in 1..Len(t.steps) /\ Len(t.steps) \in Nat
      /\ Current = state.idx + 1 /\ state.idx \in Nat /\ state \in StateType
  BY TypesGive DEF TaskType, StateType, Current, Positions
<1>3. step \in Step
  <2>1. t.steps[Current] \in Step /\ LastId \in Nat
    BY <1>2, ElementOfSeq, LastIdFacts DEF Types
  <2> QED BY <2>1 DEF Step, StepStatus
<1> HIDE DEF step
<1>4. /\ steps \in Seq(Step) /\ Len(steps) = Len(task.steps) + 1
      /\ \A p \in 1..(Len(task.steps) + 1) :
            steps[p] = IF p < Current + 1 THEN t.steps[p]
                       ELSE IF p = Current + 1 THEN step ELSE t.steps[p - 1]
  <2> DEFINE s == t.steps
             k == Current + 1
  <2>1. s \in Seq(Step) /\ k \in 1..(Len(s) + 1)
    BY <1>2
  <2> HIDE DEF s, k
  <2>2. /\ InsertAt(s, k, step) \in Seq(Step) /\ Len(InsertAt(s, k, step)) = Len(s) + 1
        /\ \A p \in 1..(Len(s) + 1) :
              InsertAt(s, k, step)[p] = IF p < k THEN s[p] ELSE IF p = k THEN step ELSE s[p - 1]
    BY <1>3, <2>1, InsertAtFacts
  <2> QED BY <2>2 DEF s, k
<1> HIDE DEF steps
<1>5. /\ task' \in TaskType /\ task'.steps = steps
      /\ task'.cancel = t.cancel /\ task'.pending = t.pending /\ task'.status = t.status
  BY <1>1, <1>4 DEF TaskType
<1>6. /\ state' \in StateType /\ Kept
      /\ state'.idx = Current /\ state'.legacy = Len(steps) /\ ~state'.replanning
      /\ state'.remediations = state.remediations + 1 /\ state'.stats = stats
      /\ state'.cancel = state.cancel /\ state'.replans = state.replans
  <2>1. state.idx + 1 \in Nat /\ state.remediations + 1 \in Nat /\ Len(steps) \in Nat
    BY <1>2, <1>4 DEF StateType
  <2>2. state' \in StateType
    BY <1>1, <1>2, <2>1 DEF StateType
  <2>3. /\ state'.idx = state.idx + 1 /\ state'.legacy = Len(steps) /\ state'.replanning = FALSE
        /\ state'.remediations = state.remediations + 1 /\ state'.stats = stats
        /\ state'.cancel = state.cancel /\ state'.error = state.error
        /\ state'.reviews = state.reviews /\ state'.replans = state.replans
    BY <1>1, <1>2 DEF StateType
  <2> QED BY <1>2, <2>2, <2>3 DEF Kept
<1>7. \A p \in 1..(Len(task.steps) + 1) : p < Current + 1 <=> p <= Current
  BY <1>2
<1>8. \A p \in 1..(Len(task.steps) + 1) :
         steps[p] = IF p <= Current THEN t.steps[p]
                    ELSE IF p = Current + 1 THEN step ELSE t.steps[p - 1]
  BY <1>4, <1>7
<1> QED BY <1>1, <1>4, <1>5, <1>6, <1>8 DEF step

\* Both replans leave the settled step and ask for the planner.
LEMMA ControlledReplanFacts ==
    ASSUME Types, NEW t \in TaskType, NEW stats \in Stats, ControlledReplan(t, stats)
    PROVE  /\ task' = t /\ state' \in StateType /\ Kept /\ row' = SavedTask(t) /\ pc' = "planner"
           /\ stepRows' = SaveCurrent(t) /\ state'.replanning
           /\ state'.idx = state.idx /\ state'.legacy = state.legacy
           /\ state'.cancel = state.cancel /\ state'.replans = state.replans + 1
           /\ state'.remediations = state.remediations + 1 /\ state'.stats = stats
<1>1. state \in StateType /\ state.replans + 1 \in Nat /\ state.remediations + 1 \in Nat
  BY TypesGive DEF StateType
<1>2. /\ state' = [state EXCEPT !.replanning = TRUE, !.replans = @ + 1,
                                !.remediations = @ + 1, !.stats = stats]
      /\ task' = t /\ row' = SavedTask(t) /\ stepRows' = SaveCurrent(t)
      /\ pc' = CheckNextStep(state')
  BY DEF ControlledReplan, ExecutorReturns
<1>3. state' \in StateType
  BY <1>1, <1>2 DEF StateType
<1>4. /\ state'.replanning = TRUE /\ state'.idx = state.idx /\ state'.legacy = state.legacy
      /\ state'.cancel = state.cancel /\ state'.error = state.error
      /\ state'.reviews = state.reviews /\ state'.replans = state.replans + 1
      /\ state'.remediations = state.remediations + 1 /\ state'.stats = stats
  BY <1>1, <1>2 DEF StateType
<1>5. pc' = "planner"
  BY <1>2, <1>4 DEF CheckNextStep
<1> QED BY <1>2, <1>3, <1>4, <1>5 DEF Kept

LEMMA DefaultReplanFacts ==
    ASSUME Types, NEW t \in TaskType, DefaultReplan(t)
    PROVE  /\ task' = t /\ state' \in StateType /\ Kept /\ row' = SavedTask(t) /\ pc' = "planner"
           /\ stepRows' = SaveCurrent(t) /\ state'.replanning
           /\ state'.idx = state.idx /\ state'.legacy = state.legacy
           /\ state'.cancel = state.cancel /\ state'.replans = state.replans + 1
           /\ state'.remediations = state.remediations /\ state'.stats = state.stats
<1>1. state \in StateType /\ state.replans + 1 \in Nat /\ state.remediations + 1 \in Nat
  BY TypesGive DEF StateType
<1>2. /\ state' = [state EXCEPT !.replanning = TRUE, !.replans = @ + 1]
      /\ task' = t /\ row' = SavedTask(t) /\ stepRows' = SaveCurrent(t)
      /\ pc' = CheckNextStep(state')
  BY DEF DefaultReplan, ExecutorReturns
<1>3. state' \in StateType
  BY <1>1, <1>2 DEF StateType
<1>4. /\ state'.replanning = TRUE /\ state'.idx = state.idx /\ state'.legacy = state.legacy
      /\ state'.cancel = state.cancel /\ state'.error = state.error
      /\ state'.reviews = state.reviews /\ state'.replans = state.replans + 1
      /\ state'.remediations = state.remediations /\ state'.stats = state.stats
  BY <1>1, <1>2 DEF StateType
<1>5. pc' = "planner"
  BY <1>2, <1>4 DEF CheckNextStep
<1> QED BY <1>2, <1>3, <1>4, <1>5 DEF Kept

LEMMA FinishStepFacts ==
    ASSUME Types, NEW t \in TaskType, NEW stats \in Stats, FinishStep(t, stats)
    PROVE  /\ task' = t /\ state' \in StateType /\ Kept /\ row' = SavedTask(t)
           /\ pc' = CheckNextStep(state') /\ stepRows' = SaveCurrent(t) /\ ~state'.replanning
           /\ state'.idx = Current /\ state'.legacy = state.legacy /\ state'.cancel = state.cancel
           /\ state'.remediations = state.remediations /\ state'.stats = stats
           /\ state'.replans = state.replans
<1>1. state \in StateType /\ state.idx + 1 \in Nat
  BY TypesGive DEF StateType
<1>2. /\ state' = [state EXCEPT !.idx = @ + 1, !.replanning = FALSE, !.stats = stats]
      /\ task' = t /\ row' = SavedTask(t) /\ stepRows' = SaveCurrent(t)
      /\ pc' = CheckNextStep(state')
  BY DEF FinishStep, ExecutorReturns
<1>3. state' \in StateType
  BY <1>1, <1>2 DEF StateType
<1>4. /\ state'.replanning = FALSE /\ state'.idx = state.idx + 1 /\ state'.legacy = state.legacy
      /\ state'.cancel = state.cancel /\ state'.error = state.error
      /\ state'.reviews = state.reviews /\ state'.replans = state.replans
      /\ state'.remediations = state.remediations /\ state'.stats = stats
  BY <1>1, <1>2 DEF StateType
<1> QED BY <1>2, <1>3, <1>4 DEF Kept, Current

\* The rest of the plan, from position c on, is skipped and the task canceled.
LEMMA CancelRestFacts ==
    ASSUME Types, NEW t \in TaskType, Len(t.steps) = Len(task.steps), NEW c \in Nat,
           CancelRest(t, c)
    PROVE  /\ task' \in TaskType /\ state' \in StateType /\ Kept
           /\ row' = SavedTask(task') /\ pc' = CheckNextStep(state')
           /\ task'.cancel /\ task'.pending = t.pending /\ task'.status = "canceled"
           /\ Len(task'.steps) = Len(task.steps)
           /\ \A p \in Positions : task'.steps[p] = IF p >= c /\ t.steps[p].status = "pending"
                                                    THEN [t.steps[p] EXCEPT !.status = "skipped"]
                                                    ELSE t.steps[p]
           /\ stepRows' = SaveSteps(stepRows, task'.steps, Current..Len(task.steps))
           /\ state'.idx = Len(task.steps) /\ state'.legacy = state.legacy
           /\ state'.replanning = state.replanning /\ state'.cancel
           /\ state'.remediations = state.remediations /\ state'.stats = state.stats
           /\ state'.replans = state.replans
<1> DEFINE steps == SkipPending(t.steps, c)
<1>1. /\ task' = [t EXCEPT !.steps = steps, !.status = "canceled", !.answer = "canceled",
                           !.cancel = TRUE]
      /\ row' = SavedTask(task') /\ pc' = CheckNextStep(state')
      /\ stepRows' = SaveSteps(stepRows, steps, Current..Len(steps))
      /\ state' = [state EXCEPT !.idx = Len(steps), !.cancel = TRUE]
  BY DEF CancelRest, ExecutorReturns
<1>2. t.steps \in Seq(Step)
  BY DEF TaskType
<1>3. /\ steps \in Seq(Step) /\ Len(steps) = Len(task.steps)
      /\ \A p \in Positions : steps[p] = IF p >= c /\ t.steps[p].status = "pending"
                                         THEN [t.steps[p] EXCEPT !.status = "skipped"]
                                         ELSE t.steps[p]
  BY <1>2, SkipPendingFacts DEF Positions
<1> HIDE DEF steps
<1>4. /\ task' \in TaskType /\ task'.steps = steps /\ task'.cancel
      /\ task'.pending = t.pending /\ task'.status = "canceled"
  BY <1>1, <1>3 DEF TaskType, TaskStatus, Answer
<1>5. /\ state' \in StateType /\ Kept /\ state'.idx = Len(steps) /\ state'.legacy = state.legacy
      /\ state'.replanning = state.replanning /\ state'.cancel
      /\ state'.remediations = state.remediations /\ state'.stats = state.stats
      /\ state'.replans = state.replans
  BY <1>1, <1>3, TypesGive DEF StateType, Kept
<1> QED BY <1>1, <1>3, <1>4, <1>5

-----------------------------------------------------------------------------
(* What the planner and the decision node change.                           *)

LEMMA PlanFacts ==
    ASSUME Types, NEW plan \in Plans, PlanSteps(plan)
    PROVE  /\ task' \in TaskType /\ state' \in StateType /\ Kept /\ row' = SavedTask(task')
           /\ pc' = "decision" /\ UNCHANGED <<event, request>>
           /\ Len(task'.steps) = Len(plan) /\ Len(plan) > 0
           /\ \A p \in 1..Len(plan) : /\ task'.steps[p].id = LastId + p
                                      /\ task'.steps[p].status = "pending"
                                      /\ task'.steps[p].retry = FALSE
           /\ ~task'.cancel /\ task'.pending = "none" /\ task'.status = "running"
           /\ state'.idx = 0 /\ ~state'.replanning /\ ~state'.cancel /\ state'.legacy = Len(plan)
           /\ state'.remediations = state.remediations /\ state'.replans = state.replans
           /\ Len(plan) <= MaxSteps
           /\ stepRows' = IF state.replanning THEN <<>> ELSE stepRows
<1> DEFINE steps == BuildSteps(plan, LastId)
<1>1. /\ task' = [steps |-> steps, status |-> "running", answer |-> "none", cancel |-> FALSE,
                  pending |-> "none"]
      /\ row' = SavedTask(task') /\ pc' = "decision" /\ UNCHANGED <<event, request>>
      /\ state' = [state EXCEPT !.legacy = Len(plan), !.idx = 0, !.cancel = FALSE,
                                !.replanning = FALSE]
      /\ stepRows' = IF state.replanning THEN <<>> ELSE stepRows
  BY DEF PlanSteps
<1>2. plan \in Seq(AllTools) /\ Len(plan) \in Nat /\ Len(plan) > 0 /\ Len(plan) <= MaxSteps
  <2>1. PICK n \in 1..MaxSteps : plan \in [1..n -> Tools]
    BY DEF Plans
  <2>2. n \in Nat /\ n > 0 /\ plan \in [1..n -> AllTools]
    BY <2>1, BoundsAssumption DEF AllTools
  <2>3. plan \in Seq(AllTools) /\ DOMAIN plan = 1..n
    BY <2>2, SeqDef
  <2> QED BY <2>2, <2>3, LenProperties
<1>3. LastId \in Nat
  BY LastIdFacts DEF Types
<1>4. /\ steps \in Seq(Step) /\ Len(steps) = Len(plan)
      /\ \A p \in 1..Len(plan) :
            steps[p] = [id |-> LastId + p, tool |-> plan[p], status |-> "pending", retry |-> FALSE]
  BY <1>2, <1>3, BuildStepsFacts
<1> HIDE DEF steps
<1>5. /\ task' \in TaskType /\ task'.steps = steps /\ task'.cancel = FALSE
      /\ task'.pending = "none" /\ task'.status = "running"
  BY <1>1, <1>4 DEF TaskType, TaskStatus, Answer
<1>6. state \in StateType
  BY TypesGive
<1>7. state' \in StateType
  BY <1>1, <1>2, <1>6 DEF StateType
<1>8. /\ state'.idx = 0 /\ state'.replanning = FALSE /\ state'.cancel = FALSE
      /\ state'.legacy = Len(plan)
      /\ state'.remediations = state.remediations /\ state'.error = state.error
      /\ state'.reviews = state.reviews /\ state'.replans = state.replans
  BY <1>1, <1>6 DEF StateType
<1>9. \A p \in 1..Len(plan) : /\ task'.steps[p].id = LastId + p
                                /\ task'.steps[p].status = "pending"
                                /\ task'.steps[p].retry = FALSE
  <2> TAKE p \in 1..Len(plan)
  <2>1. task'.steps[p] = [id |-> LastId + p, tool |-> plan[p], status |-> "pending", retry |-> FALSE]
    BY <1>4, <1>5
  <2> QED BY <2>1
<1>10. Kept
  BY <1>8 DEF Kept
<1>11. Len(task'.steps) = Len(plan)
  BY <1>4, <1>5
<1> QED BY <1>1, <1>2, <1>5, <1>7, <1>8, <1>9, <1>10, <1>11

\* Whatever the decision node makes of a plan, it is a plan, and not an empty one.
LEMMA DecidedToolsFacts ==
    ASSUME NEW tools \in Seq(AllTools), NEW needKb \in BOOLEAN,
           request \in {"plain", "file", "nofile"}
    PROVE  /\ DecidedTools(tools, needKb) \in Seq(AllTools)
           /\ Len(tools) > 0 => Len(DecidedTools(tools, needKb)) > 0
           /\ Len(tools) > 0 => Len(DecidedTools(tools, needKb)) <= Len(tools) + 1
<1> DEFINE withKb == IF needKb /\ \A p \in 1..Len(tools) : tools[p] # "RAG"
                     THEN <<"RAG">> \o tools ELSE tools
           hasData == \E p \in 1..Len(withKb) : withKb[p] \in DataTools
<1>1. /\ withKb \in Seq(AllTools) /\ Len(tools) \in Nat
      /\ Len(tools) > 0 => Len(withKb) > 0 /\ Len(withKb) <= Len(tools) + 1
  <2>1. <<"RAG">> \in Seq(AllTools) /\ Len(<<"RAG">>) = 1
    BY DEF AllTools
  <2>2. <<"RAG">> \o tools \in Seq(AllTools) /\ Len(<<"RAG">> \o tools) = 1 + Len(tools)
    BY <2>1, ConcatProperties
  <2> QED BY <2>2, LenProperties
<1>2. /\ <<"FILE_INSPECTOR", "DATA_PROFILE">> \in Seq(AllTools)
      /\ Len(<<"FILE_INSPECTOR", "DATA_PROFILE">>) = 2
      /\ <<"LLM">> \in Seq(AllTools) /\ Len(<<"LLM">>) = 1
  BY DEF AllTools, DataTools
<1>3. DecidedTools(tools, needKb) = CASE request = "plain" \/ hasData -> withKb
          [] request = "file" /\ ~hasData -> <<"FILE_INSPECTOR", "DATA_PROFILE">>
          [] request = "nofile" /\ ~hasData -> <<"LLM">>
  BY DEF DecidedTools
<1> HIDE DEF withKb, hasData
<1> QED BY <1>1, <1>2, <1>3

LEMMA DecideFacts ==
    ASSUME Types, Decide
    PROVE  /\ task' \in TaskType /\ state' \in StateType /\ Kept /\ row' = SavedTask(task')
           /\ pc' = "executor" /\ UNCHANGED <<event, request>>
           /\ Len(task.steps) > 0 => Len(task'.steps) > 0 /\ Len(task'.steps) <= Len(task.steps) + 1
           /\ \A p \in 1..Len(task'.steps) : /\ task'.steps[p].id = LastId + p
                                             /\ task'.steps[p].status = "pending"
                                             /\ task'.steps[p].retry = FALSE
           /\ task'.cancel = task.cancel /\ task'.pending = task.pending
           /\ task'.status = task.status
           /\ stepRows' = SaveSteps(stepRows, task'.steps, 1..Len(task'.steps))
           /\ state'.idx = state.idx /\ state'.replanning = state.replanning
           /\ state'.cancel = state.cancel /\ state'.remediations = state.remediations
           /\ state'.legacy = Len(task'.steps) /\ state'.stats = state.stats
           /\ state'.replans = state.replans
<1> DEFINE tools == [p \in 1..Len(task.steps) |-> task.steps[p].tool]
<1>1. tools \in Seq(AllTools) /\ Len(tools) = Len(task.steps)
  <2>1. Len(task.steps) \in Nat /\ \A p \in 1..Len(task.steps) : task.steps[p].tool \in AllTools
    BY TypesGive DEF Step, Positions
  <2>2. tools \in [1..Len(task.steps) -> AllTools]
    BY <2>1
  <2>3. tools \in Seq(AllTools) /\ DOMAIN tools = 1..Len(task.steps)
    BY <2>1, <2>2, SeqDef
  <2> QED BY <2>1, <2>3, LenProperties
<1>2. PICK needKb \in BOOLEAN :
          /\ task' = [task EXCEPT !.steps = BuildSteps(DecidedTools(tools, needKb), LastId)]
          /\ stepRows' = SaveSteps(stepRows, BuildSteps(DecidedTools(tools, needKb), LastId),
                                   1..Len(BuildSteps(DecidedTools(tools, needKb), LastId)))
          /\ state' = [state EXCEPT !.legacy = Len(BuildSteps(DecidedTools(tools, needKb), LastId))]
  BY DEF Decide
<1> DEFINE decided == DecidedTools(tools, needKb)
           steps == BuildSteps(decided, LastId)
<1>3. row' = SavedTask(task') /\ pc' = "executor" /\ UNCHANGED <<event, request>>
  BY DEF Decide
<1> HIDE DEF tools
<1>4. /\ decided \in Seq(AllTools)
      /\ Len(tools) > 0 => Len(decided) > 0 /\ Len(decided) <= Len(tools) + 1
  BY <1>1, DecidedToolsFacts DEF Types, TypeOK
<1>5. LastId \in Nat
  BY LastIdFacts DEF Types
<1> HIDE DEF decided
<1>6. /\ steps \in Seq(Step) /\ Len(steps) = Len(decided)
      /\ \A p \in 1..Len(decided) :
            steps[p] = [id |-> LastId + p, tool |-> decided[p], status |-> "pending", retry |-> FALSE]
  BY <1>4, <1>5, BuildStepsFacts
<1>7. /\ task' = [task EXCEPT !.steps = steps] /\ state' = [state EXCEPT !.legacy = Len(steps)]
      /\ stepRows' = SaveSteps(stepRows, steps, 1..Len(steps))
  BY <1>2 DEF decided
<1> HIDE DEF steps
<1>8. task \in TaskType /\ state \in StateType /\ Len(steps) \in Nat
  BY <1>6, TypesGive, LenProperties
<1>9. /\ task' \in TaskType /\ task'.steps = steps /\ task'.cancel = task.cancel
      /\ task'.pending = task.pending /\ task'.status = task.status
  BY <1>6, <1>7, <1>8 DEF TaskType
<1>10. state' \in StateType
  BY <1>7, <1>8 DEF StateType
<1>11. /\ state'.idx = state.idx /\ state'.replanning = state.replanning
       /\ state'.cancel = state.cancel /\ state'.remediations = state.remediations
       /\ state'.error = state.error /\ state'.reviews = state.reviews
       /\ state'.legacy = Len(steps) /\ state'.stats = state.stats
       /\ state'.replans = state.replans
  BY <1>7, <1>8 DEF StateType
<1>12. \A p \in 1..Len(task'.steps) : /\ task'.steps[p].id = LastId + p
                                        /\ task'.steps[p].status = "pending"
                                        /\ task'.steps[p].retry = FALSE
  <2> TAKE p \in 1..Len(task'.steps)
  <2>1. task'.steps[p] = [id |-> LastId + p, tool |-> decided[p], status |-> "pending", retry |-> FALSE]
    BY <1>6, <1>9
  <2> QED BY <2>1
<1>13. Kept
  BY <1>11 DEF Kept
<1>14. Len(task.steps) > 0 => Len(task'.steps) > 0 /\ Len(task'.steps) <= Len(task.steps) + 1
  BY <1>1, <1>4, <1>6, <1>9
<1> QED BY <1>3, <1>7, <1>9, <1>10, <1>11, <1>12, <1>13, <1>14

-----------------------------------------------------------------------------
(* The types are an invariant.                                              *)

Places == Nodes \cup {"end", "raised", "exhausted"}

\* The types after a node that returned a task and a state.
LEMMA TypesAssemble ==
    ASSUME Types, task' \in TaskType, state' \in StateType, row' \in RowType, pc' \in Places,
           (fuel > 0 /\ fuel' = fuel - 1) \/ fuel' = fuel, event' \in BOOLEAN, request' = request
    PROVE  TypeOK'
<1>1. fuel' \in 0..RecursionLimit
  BY BoundsAssumption DEF Types, TypeOK
<1> QED BY <1>1 DEF Types, TypeOK, TaskType, StateType, RowType, Places

LEMMA RowTyped ==
    ASSUME NEW t \in TaskType
    PROVE  SavedTask(t) \in RowType
BY DEF SavedTask, TaskType, RowType

LEMMA NextNode ==
    ASSUME NEW s
    PROVE  CheckNextStep(s) \in {"planner", "executor", "solver"}
BY DEF CheckNextStep

LEMMA IdsUnchanged ==
    ASSUME Types, task'.steps = task.steps, UNCHANGED stepRows
    PROVE  IdsBounded'
BY DEF Types, IdsBounded, Positions

\* A save of steps whose ids are old ones or LastId + 1 keeps the bound.
LEMMA SaveKeepsBound ==
    ASSUME Types, NEW Q \in SUBSET (1..Len(task'.steps)),
           stepRows' = SaveSteps(stepRows, task'.steps, Q),
           \A q \in 1..Len(task'.steps) : \/ task'.steps[q].id = LastId + 1
                                          \/ \E p \in Positions : task'.steps[q].id = task.steps[p].id
    PROVE  IdsBounded'
<1>1. LastId \in Nat
  BY LastIdFacts DEF Types
<1> DEFINE m == LastId + 1
<1>2. m \in Nat /\ LastId + 1 \in 0..m
  BY <1>1
<1> HIDE DEF m
<1>3. \A q \in 1..Len(task'.steps) : \/ task'.steps[q].id \in 0..m
                                     \/ \E p \in Positions : task'.steps[q].id = task.steps[p].id
  BY <1>2
<1>4. \A i \in DOMAIN stepRows' : \/ i \in DOMAIN stepRows \/ i \in 0..m
                                  \/ \E p \in Positions : i = task.steps[p].id
  <2>1. \A i : i \in DOMAIN stepRows' <=> i \in DOMAIN stepRows \/ \E p \in Q : i = task'.steps[p].id
    BY DEF SaveSteps
  <2> QED BY <2>1, <1>3
<1> QED BY <1>2, <1>3, <1>4, IdsStayBounded DEF Types

\* The steps of a settled task have the ids they had.
LEMMA SettledIds ==
    ASSUME NEW t, Settles(t), Types, Current \in Positions
    PROVE  \A p \in Positions : t.steps[p].id = task.steps[p].id
<1>1. PICK status \in {"success", "failed", "skipped"} :
          t.steps[Current] = [task.steps[Current] EXCEPT !.status = status]
  BY DEF Settles
<1>2. task.steps[Current] \in Step
  BY TypesGive
<1>3. t.steps[Current].id = task.steps[Current].id
  BY <1>1, <1>2 DEF Step
<1> QED BY <1>3 DEF Settles

LEMMA InitTypes == Init => Types
<1> SUFFICES ASSUME Init PROVE Types
  OBVIOUS
<1> USE DEF Init
<1>1. <<>> \in Seq(Step) /\ Len(<<>>) = 0
  BY EmptySeq
<1>2. InitialTask \in TaskType /\ InitialTask.steps = <<>>
  BY <1>1 DEF InitialTask, TaskType, TaskStatus, Answer
<1>3. InitialState \in StateType
  <2>1. InitialState.stats \in Stats
    BY DEF InitialState, Stats
  <2> QED BY <2>1 DEF InitialState, StateType, Answer
<1>4. fuel \in 0..RecursionLimit
  BY BoundsAssumption
<1>5. row \in RowType
  BY <1>2, RowTyped
<1>6. TypeOK
  BY <1>2, <1>3, <1>4, <1>5 DEF TypeOK, TaskType, StateType, RowType, Nodes
<1>7. IdsBounded
  <2>1. DOMAIN stepRows = {} /\ Positions = {}
    BY <1>1, <1>2 DEF Positions
  <2> QED BY <2>1 DEF IdsBounded
<1> QED BY <1>6, <1>7 DEF Types

LEMMA PlannerTypes ==
    ASSUME Types, Planner
    PROVE  Types'
<1>1. CASE PlannerFails
  <2>1. task' = task /\ stepRows' = stepRows /\ state' = [state EXCEPT !.error = TRUE]
        /\ pc' = "decision" /\ fuel > 0 /\ fuel' = fuel - 1 /\ UNCHANGED <<event, request, row>>
    BY <1>1 DEF PlannerFails, Enter
  <2>2. state' \in StateType
    BY <2>1, TypesGive DEF StateType
  <2>3. TypeOK'
    BY <2>1, <2>2, TypesGive, TypesAssemble DEF Places, Nodes, Types, TypeOK
  <2> QED BY <2>1, <2>3, IdsUnchanged DEF Types
<1>2. ASSUME NEW plan \in Plans, PlanSteps(plan) PROVE Types'
  <2>1. /\ task' \in TaskType /\ state' \in StateType /\ row' = SavedTask(task') /\ pc' = "decision"
        /\ UNCHANGED <<event, request>> /\ Len(task'.steps) = Len(plan)
        /\ \A p \in 1..Len(plan) : task'.steps[p].id = LastId + p
        /\ stepRows' = IF state.replanning THEN <<>> ELSE stepRows
    BY <1>2, PlanFacts
  <2>2. fuel > 0 /\ fuel' = fuel - 1
    BY <1>2 DEF PlanSteps, Enter
  <2>3. TypeOK'
    BY <2>1, <2>2, RowTyped, TypesAssemble DEF Places, Nodes, Types, TypeOK
  <2>4. LastId \in Nat /\ Len(plan) \in Nat
    <3>1. task'.steps \in Seq(Step)
      BY <2>1 DEF TaskType
    <3> QED BY <2>1, <3>1, LenProperties, LastIdFacts DEF Types
  <2>5. LastId + Len(plan) \in Nat
        /\ \A q \in 1..Len(task'.steps) : task'.steps[q].id \in 0..(LastId + Len(plan))
    BY <2>1, <2>4
  <2>6. DOMAIN stepRows' \subseteq DOMAIN stepRows
    BY <2>1
  <2>7. IdsBounded'
    BY <2>5, <2>6, IdsStayBounded DEF Types
  <2> QED BY <2>3, <2>7 DEF Types
<1> QED BY <1>1, <1>2 DEF Planner

LEMMA DecideTypes ==
    ASSUME Types, Decide
    PROVE  Types'
<1>1. /\ task' \in TaskType /\ state' \in StateType /\ row' = SavedTask(task') /\ pc' = "executor"
      /\ UNCHANGED <<event, request>>
      /\ \A p \in 1..Len(task'.steps) : task'.steps[p].id = LastId + p
      /\ stepRows' = SaveSteps(stepRows, task'.steps, 1..Len(task'.steps))
  BY DecideFacts
<1>2. fuel > 0 /\ fuel' = fuel - 1
  BY DEF Decide, Enter
<1>3. TypeOK'
  BY <1>1, <1>2, RowTyped, TypesAssemble DEF Places, Nodes, Types, TypeOK
<1> DEFINE n == Len(task'.steps)
           m == LastId + n
<1>4. LastId \in Nat /\ n \in Nat
  <2>1. task'.steps \in Seq(Step)
    BY <1>1 DEF TaskType
  <2> QED BY <2>1, LenProperties, LastIdFacts DEF Types
<1>5. m \in Nat /\ \A q \in 1..n : task'.steps[q].id \in 0..m
  BY <1>1, <1>4
<1>6. \A i : i \in DOMAIN stepRows' <=> i \in DOMAIN stepRows \/ \E p \in 1..n : i = task'.steps[p].id
  BY <1>1, SaveStepsDomain
<1> HIDE DEF m
<1>7. \A i \in DOMAIN stepRows' : i \in DOMAIN stepRows \/ i \in 0..m
  BY <1>5, <1>6
<1>8. IdsBounded'
  BY <1>5, <1>7, IdsStayBounded DEF Types
<1> QED BY <1>3, <1>8 DEF Types

LEMMA ExecutorTypes ==
    ASSUME Types, Executor
    PROVE  Types'
<1>1. fuel > 0 /\ fuel' = fuel - 1 /\ UNCHANGED request /\ event' \in BOOLEAN
  BY DEF Executor, NoStep, CancelBefore, ExecuteStep, Enter, Types, TypeOK
<1>2. CASE NoStep
  <2>1. task' = task /\ stepRows' = stepRows /\ row' = row /\ state' = [state EXCEPT !.idx = @ + 1]
        /\ pc' = CheckNextStep(state')
    BY <1>2 DEF NoStep
  <2>2. state \in StateType /\ state.idx + 1 \in Nat
    BY TypesGive DEF StateType
  <2>3. state' \in StateType
    BY <2>1, <2>2 DEF StateType
  <2>4. TypeOK'
    BY <1>1, <2>1, <2>3, TypesGive, NextNode, TypesAssemble DEF Places, Nodes
  <2> QED BY <2>1, <2>4, IdsUnchanged DEF Types
<1>3. ASSUME NEW t \in TaskType, NEW c \in Nat, Len(t.steps) = Len(task.steps),
             \A p \in Positions : t.steps[p].id = task.steps[p].id, CancelRest(t, c)
      PROVE  Types'
  <2>1. /\ task' \in TaskType /\ state' \in StateType /\ row' = SavedTask(task')
        /\ pc' = CheckNextStep(state') /\ Len(task'.steps) = Len(task.steps)
        /\ \A p \in Positions : task'.steps[p] = IF p >= c /\ t.steps[p].status = "pending"
                                                 THEN [t.steps[p] EXCEPT !.status = "skipped"]
                                                 ELSE t.steps[p]
        /\ stepRows' = SaveSteps(stepRows, task'.steps, Current..Len(task.steps))
    BY <1>3, CancelRestFacts
  <2>2. TypeOK'
    BY <1>1, <2>1, RowTyped, NextNode, TypesAssemble DEF Places, Nodes
  <2>3. t.steps \in Seq(Step) /\ \A p \in Positions : t.steps[p] \in Step
    BY <1>3, ElementOfSeq DEF TaskType, Positions
  <2>4. \A p \in Positions : task'.steps[p].id = task.steps[p].id
    BY <1>3, <2>1, <2>3 DEF Step
  <2>5. Current..Len(task.steps) \in SUBSET (1..Len(task'.steps))
    BY <2>1, TypesGive DEF Current, StateType
  <2>6. IdsBounded'
    BY <2>1, <2>4, <2>5, SaveKeepsBound DEF Positions
  <2> QED BY <2>2, <2>6 DEF Types
<1>4. CASE CancelBefore
  <2>1. CancelRest(task, Current) /\ Current \in Nat
    BY <1>4, TypesGive DEF CancelBefore, Current, StateType
  <2> QED BY <1>3, <2>1, TypesGive
<1>5. CASE ExecuteStep
  <2>1. Current \in Positions /\ Current \in Nat /\ Current + 1 \in Nat
    BY <1>5, ExecuteStepSplits, TypesGive DEF Positions
  <2>2. PICK t \in TaskType, stats \in Stats : Settles(t) /\ GoesOn(t, stats)
    BY <1>5, ExecuteStepSplits
  <2>3. Len(t.steps) = Len(task.steps) /\ \A p \in Positions : t.steps[p].id = task.steps[p].id
    BY <2>1, <2>2, SettledIds DEF Settles
  <2>4. CASE CancelRest(t, Current + 1)
    BY <1>3, <2>1, <2>3, <2>4
  <2>5. CASE RetryStep(t, stats)
    <3>1. /\ task' \in TaskType /\ state' \in StateType /\ row' = SavedTask(task')
          /\ pc' = CheckNextStep(state') /\ Len(task'.steps) = Len(task.steps) + 1
          /\ \A p \in 1..(Len(task.steps) + 1) :
                task'.steps[p] = IF p <= Current THEN t.steps[p]
                                 ELSE IF p = Current + 1
                                      THEN [id |-> LastId + 1, tool |-> t.steps[Current].tool,
                                            status |-> "pending", retry |-> TRUE]
                                      ELSE t.steps[p - 1]
          /\ stepRows' = SaveSteps(stepRows, task'.steps, Current..Len(task'.steps))
      BY <2>1, <2>3, <2>5, RetryStepFacts
    <3>2. TypeOK'
      BY <1>1, <3>1, RowTyped, NextNode, TypesAssemble DEF Places, Nodes
    <3>3. ASSUME NEW q \in 1..Len(task'.steps)
          PROVE  \/ task'.steps[q].id = LastId + 1
                 \/ \E p \in Positions : task'.steps[q].id = task.steps[p].id
      <4>1. Len(task.steps) \in Nat
        BY TypesGive
      <4>2. CASE q <= Current
        <5>1. q \in Positions /\ task'.steps[q] = t.steps[q]
          BY <2>1, <3>1, <4>1, <4>2 DEF Positions
        <5> QED BY <2>3, <5>1
      <4>3. CASE q = Current + 1
        <5>1. task'.steps[q] = [id |-> LastId + 1, tool |-> t.steps[Current].tool,
                                status |-> "pending", retry |-> TRUE]
          <6>1. q \in 1..(Len(task.steps) + 1) /\ ~(q <= Current)
            BY <2>1, <3>1, <4>3
          <6> QED BY <3>1, <4>3, <6>1
        <5> QED BY <5>1
      <4>4. CASE q > Current + 1
        <5>1. q - 1 \in Positions /\ task'.steps[q] = t.steps[q - 1]
          BY <2>1, <3>1, <4>1, <4>4 DEF Positions
        <5> QED BY <2>3, <5>1
      <4> QED BY <2>1, <4>1, <4>2, <4>3, <4>4, <3>1
    <3>4. Current..Len(task'.steps) \in SUBSET (1..Len(task'.steps))
      BY <2>1, <3>1, TypesGive DEF Positions
    <3>5. IdsBounded'
      BY <3>1, <3>3, <3>4, SaveKeepsBound
    <3> QED BY <3>2, <3>5 DEF Types
  <2>6. CASE ControlledReplan(t, stats) \/ DefaultReplan(t) \/ FinishStep(t, stats)
    <3>1. /\ task' = t /\ state' \in StateType /\ row' = SavedTask(t) /\ pc' \in Nodes
          /\ stepRows' = SaveCurrent(t)
      <4>1. CASE FinishStep(t, stats)
        BY <4>1, FinishStepFacts, NextNode DEF Nodes
      <4>2. CASE ControlledReplan(t, stats) \/ DefaultReplan(t)
        BY <4>2, ControlledReplanFacts, DefaultReplanFacts DEF Nodes
      <4> QED BY <2>6, <4>1, <4>2
    <3>2. TypeOK'
      BY <1>1, <3>1, RowTyped, TypesAssemble DEF Places
    <3>3. stepRows' = SaveSteps(stepRows, task'.steps, {Current})
          /\ {Current} \in SUBSET (1..Len(task'.steps))
      BY <2>1, <2>3, <3>1 DEF SaveCurrent, Positions
    <3>4. \A q \in 1..Len(task'.steps) : \E p \in Positions : task'.steps[q].id = task.steps[p].id
      BY <2>3, <3>1 DEF Positions
    <3>5. IdsBounded'
      BY <3>3, <3>4, SaveKeepsBound
    <3> QED BY <3>2, <3>5 DEF Types
  <2> QED BY <2>2, <2>4, <2>5, <2>6 DEF GoesOn
<1> QED BY <1>2, <1>4, <1>5 DEF Executor

\* Solver and reviewer change neither the steps nor the counters the executor keeps.
SameSteps ==
    /\ task'.steps = task.steps /\ UNCHANGED stepRows
    /\ state'.idx = state.idx /\ state'.remediations = state.remediations
    /\ state'.stats = state.stats /\ state'.error = state.error
    /\ state'.replans = state.replans

LEMMA SolverFacts ==
    ASSUME Types, Solver
    PROVE  /\ task' \in TaskType /\ state' \in StateType /\ SameSteps
           /\ row' = SavedTask(task') /\ pc = "solver" /\ pc' = "reviewer"
           /\ fuel > 0 /\ fuel' = fuel - 1 /\ UNCHANGED <<event, request>>
           /\ state'.reviews = state.reviews
           /\ ~state.error =>
                 \/ state.cancel /\ task'.status = "canceled" /\ task'.pending = task.pending
                 \/ ~state.cancel /\ task'.pending = DeriveStatus(task)
<1> USE TypesGive
<1>1. task \in TaskType /\ state \in StateType
  OBVIOUS
<1>2. CASE SolveError
  <2>1. /\ task' = [task EXCEPT !.status = "failed", !.answer = "error"]
        /\ state' = [state EXCEPT !.answer = "error"] /\ state.error
    BY <1>2 DEF SolveError, SolverReturns
  <2>2. task' \in TaskType /\ state' \in StateType /\ task'.steps = task.steps
    BY <1>1, <2>1 DEF TaskType, StateType, TaskStatus, Answer
  <2>3. SameSteps /\ state'.reviews = state.reviews
    BY <1>1, <1>2, <2>1, <2>2 DEF SameSteps, StateType, SolveError, SolverReturns
  <2> QED BY <1>2, <2>1, <2>2, <2>3 DEF SolveError, SolverReturns, Enter
<1>3. CASE SolveCanceled
  <2>1. /\ task' = [task EXCEPT !.cancel = TRUE, !.status = "canceled"]
        /\ state' = [state EXCEPT !.answer = task.answer] /\ ~state.error /\ state.cancel
    BY <1>3 DEF SolveCanceled, SolverReturns
  <2>2. /\ task' \in TaskType /\ state' \in StateType /\ task'.steps = task.steps
        /\ task'.status = "canceled" /\ task'.pending = task.pending
    BY <1>1, <2>1 DEF TaskType, StateType, TaskStatus, Answer
  <2>3. SameSteps /\ state'.reviews = state.reviews
    BY <1>1, <1>3, <2>1, <2>2 DEF SameSteps, StateType, SolveCanceled, SolverReturns
  <2> QED BY <1>3, <2>1, <2>2, <2>3 DEF SolveCanceled, SolverReturns, Enter
<1>4. CASE Solve
  <2>1. /\ task' = [task EXCEPT !.status = "running", !.pending = DeriveStatus(task)]
        /\ state' = [state EXCEPT !.answer = "draft"] /\ ~state.error /\ ~state.cancel
    BY <1>4 DEF Solve, SolverReturns
  <2>2. DeriveStatus(task) \in {"canceled", "partial", "success"}
    BY DEF DeriveStatus
  <2>3. /\ task' \in TaskType /\ state' \in StateType /\ task'.steps = task.steps
        /\ task'.pending = DeriveStatus(task)
    BY <1>1, <2>1, <2>2 DEF TaskType, StateType, TaskStatus, Answer
  <2>4. SameSteps /\ state'.reviews = state.reviews
    BY <1>1, <1>4, <2>1, <2>3 DEF SameSteps, StateType, Solve, SolverReturns
  <2> QED BY <1>4, <2>1, <2>3, <2>4 DEF Solve, SolverReturns, Enter
<1> QED BY <1>2, <1>3, <1>4 DEF Solver

LEMMA ReviewerFacts ==
    ASSUME Types, Reviewer
    PROVE  /\ task' \in TaskType /\ state' \in StateType /\ row' \in RowType /\ SameSteps
           /\ pc = "reviewer" /\ fuel > 0 /\ fuel' = fuel - 1 /\ UNCHANGED <<event, request>>
           /\ \/ pc' = "planner" /\ state'.replanning /\ ~AtReviewLimit
                                /\ state'.reviews = state.reviews + 1
              \/ /\ pc' = "end" /\ row' = SavedTask(task')
                 /\ task'.status = IF task.pending = "none" THEN task.status ELSE task.pending
<1>1. task \in TaskType /\ state \in StateType /\ state.reviews + 1 \in Nat /\ row \in RowType
  BY TypesGive DEF StateType
<1>2. CASE ReviewFails
  <2>1. /\ state' = [state EXCEPT !.reviews = @ + 1, !.replanning = TRUE]
        /\ pc' = "planner" /\ UNCHANGED <<event, request, task, row, stepRows>>
        /\ pc = "reviewer" /\ fuel > 0 /\ fuel' = fuel - 1 /\ ~AtReviewLimit
    BY <1>2 DEF ReviewFails, Enter
  <2>2. state' \in StateType
    BY <1>1, <2>1 DEF StateType
  <2>3. state'.replanning = TRUE /\ SameSteps /\ state'.reviews = state.reviews + 1
    BY <1>1, <2>1 DEF StateType, SameSteps
  <2> QED BY <1>1, <2>1, <2>2, <2>3
<1>3. ASSUME NEW answer \in Answer, FinalizePass(answer), NEW n \in Nat,
             state' = [state EXCEPT !.reviews = n, !.replanning = FALSE]
      PROVE  /\ task' \in TaskType /\ state' \in StateType /\ row' \in RowType /\ SameSteps
             /\ pc' = "end" /\ row' = SavedTask(task')
             /\ task'.status = IF task.pending = "none" THEN task.status ELSE task.pending
             /\ UNCHANGED <<event, request>>
  <2>1. /\ task' = [task EXCEPT !.answer = answer, !.pending = "none",
                                !.status = IF task.pending = "none" THEN @ ELSE task.pending]
        /\ row' = SavedTask(task') /\ pc' = "end" /\ UNCHANGED <<event, request, stepRows>>
    BY <1>3 DEF FinalizePass
  <2>2. /\ task' \in TaskType /\ task'.steps = task.steps
        /\ task'.status = IF task.pending = "none" THEN task.status ELSE task.pending
    BY <1>1, <1>3, <2>1 DEF TaskType, TaskStatus
  <2>3. state' \in StateType
    BY <1>1, <1>3 DEF StateType
  <2>4. SameSteps
    BY <1>1, <1>3, <2>1, <2>2 DEF StateType, SameSteps
  <2> QED BY <2>1, <2>2, <2>3, <2>4, RowTyped
<1>4. CASE ReviewPasses
  <2>1. /\ FinalizePass(state.answer) /\ state' = [state EXCEPT !.replanning = FALSE]
        /\ pc = "reviewer" /\ fuel > 0 /\ fuel' = fuel - 1
    BY <1>4 DEF ReviewPasses, Enter
  <2>2. state' = [state EXCEPT !.reviews = state.reviews, !.replanning = FALSE]
        /\ state.reviews \in Nat /\ state.answer \in Answer
    BY <1>1, <2>1 DEF StateType
  <2> QED BY <1>3, <2>1, <2>2
<1>5. CASE ReviewLimit
  <2>1. /\ FinalizePass("limit")
        /\ state' = [state EXCEPT !.reviews = state.reviews + 1, !.replanning = FALSE]
        /\ pc = "reviewer" /\ fuel > 0 /\ fuel' = fuel - 1
    BY <1>5 DEF ReviewLimit, Enter
  <2>2. "limit" \in Answer
    BY DEF Answer
  <2> QED BY <1>1, <1>3, <2>1, <2>2
<1> QED BY <1>2, <1>4, <1>5 DEF Reviewer

\* The other steps change neither the task nor the database.
Aside == NodeRaises \/ Exhausted \/ Cancel \/ UNCHANGED vars

LEMMA AsideFacts ==
    ASSUME Types, Aside
    PROVE  /\ UNCHANGED <<request, task, state, row, stepRows>>
           /\ pc' = pc \/ pc' \in {"raised", "exhausted"}
           /\ pc' \in Places /\ event' \in BOOLEAN
           /\ (fuel > 0 /\ fuel' = fuel - 1) \/ fuel' = fuel
<1>1. pc \in Places /\ event \in BOOLEAN
  BY DEF Types, TypeOK, Places
<1>2. CASE NodeRaises
  BY <1>1, <1>2 DEF NodeRaises, Enter, Places
<1>3. CASE Exhausted
  BY <1>1, <1>3 DEF Exhausted, Places
<1>4. CASE Cancel
  BY <1>1, <1>4 DEF Cancel
<1>5. CASE UNCHANGED vars
  BY <1>1, <1>5 DEF vars
<1> QED BY <1>2, <1>3, <1>4, <1>5 DEF Aside

LEMMA StepTypes ==
    ASSUME Types, [Next]_vars
    PROVE  Types'
<1>1. CASE Solver
  <2>1. TypeOK'
    BY <1>1, SolverFacts, RowTyped, TypesAssemble DEF Places, Nodes, Types, TypeOK
  <2> QED BY <1>1, <2>1, SolverFacts, IdsUnchanged DEF SameSteps, Types
<1>2. CASE Reviewer
  <2>1. TypeOK'
    BY <1>2, ReviewerFacts, TypesAssemble DEF Places, Nodes, Types, TypeOK
  <2> QED BY <1>2, <2>1, ReviewerFacts, IdsUnchanged DEF SameSteps, Types
<1>3. CASE Aside
  <2>1. TypeOK'
    BY <1>3, AsideFacts, TypesGive, TypesAssemble
  <2> QED BY <1>3, <2>1, AsideFacts, IdsUnchanged DEF Types
<1> QED BY <1>1, <1>2, <1>3, PlannerTypes, DecideTypes, ExecutorTypes DEF Next, Aside

\* At any time, every variable of a run of the graph has its type.
THEOREM TypesHold == Spec => []Types
<1>1. Init => Types
  BY InitTypes
<1>2. Types /\ [Next]_vars => Types'
  BY StepTypes
<1> QED BY <1>1, <1>2, PTL DEF Spec

\* TypeOK is the part of it that the runs check.
THEOREM TypeCorrect == Spec => []TypeOK
<1>1. Types => TypeOK
  BY DEF Types
<1> QED BY <1>1, TypesHold, PTL

-----------------------------------------------------------------------------
(* Automatic retries: their place and their number.                         *)

RetryPositions(s) == {p \in 1..Len(s) : s[p].retry}

\* No retry follows a retry, no retry is left behind the current step, and when the current
\* step is a retry the streak of its tool shows the failure that brought it about.
Apart ==
    /\ \A p \in Positions : task.steps[p].retry /\ p > 1 => ~task.steps[p - 1].retry
    /\ \A p \in Positions : p > Current => ~task.steps[p].retry
    /\ Current \in Positions /\ task.steps[Current].retry
          => state.stats.streak[task.steps[Current].tool] >= 1

Retries == Apart /\ RemediationBounded

\* An insertion after position c adds at most one retry.
LEMMA InsertCount ==
    ASSUME NEW s, NEW u, Len(s) \in Nat, NEW c \in 1..Len(s), Len(u) = Len(s) + 1,
           \A p \in 1..Len(s) : p <= c => (u[p].retry <=> s[p].retry),
           \A p \in 1..Len(s) : p > c => (u[p + 1].retry <=> s[p].retry)
    PROVE  /\ Cardinality(RetryPositions(s)) \in Nat
           /\ Cardinality(RetryPositions(u)) \in Nat
           /\ Cardinality(RetryPositions(u)) <= Cardinality(RetryPositions(s)) + 1
<1> DEFINE R == RetryPositions(s)
           Q == RetryPositions(u)
           O == Q \ {c + 1}
           f == [p \in O |-> IF p <= c THEN p ELSE p - 1]
<1>1. /\ IsFiniteSet(R) /\ IsFiniteSet(Q)
      /\ Cardinality(R) \in Nat /\ Cardinality(Q) \in Nat
  <2>1. IsFiniteSet(1..Len(s)) /\ IsFiniteSet(1..Len(u))
    BY FS_Interval
  <2>2. R \in SUBSET (1..Len(s)) /\ Q \in SUBSET (1..Len(u))
    BY DEF RetryPositions
  <2> QED BY <2>1, <2>2, FS_Subset, FS_CardinalityType
<1>2. ASSUME NEW p \in O PROVE f[p] \in R
  <2>1. p \in 1..(Len(s) + 1) /\ u[p].retry /\ p # c + 1
    BY DEF RetryPositions
  <2>2. CASE p <= c
    BY <2>1, <2>2 DEF RetryPositions
  <2>3. CASE p > c
    <3>1. p - 1 \in 1..Len(s) /\ p - 1 > c /\ (p - 1) + 1 = p
      BY <2>1, <2>3
    <3>2. s[p - 1].retry
      BY <2>1, <3>1
    <3>3. f[p] = p - 1
      BY <2>3, <2>1
    <3> QED BY <3>1, <3>2, <3>3 DEF RetryPositions
  <2> QED BY <2>1, <2>2, <2>3
<1>3. ASSUME NEW p \in O, NEW q \in O, f[p] = f[q] PROVE p = q
  <2>1. p \in 1..(Len(s) + 1) /\ q \in 1..(Len(s) + 1) /\ p # c + 1 /\ q # c + 1
    BY DEF RetryPositions
  <2> QED BY <2>1, <1>3
<1>4. f \in Injection(O, R)
  BY <1>2, <1>3 DEF Injection, IsInjective
<1> HIDE DEF f
<1>5. Cardinality(O) <= Cardinality(R)
  BY <1>1, <1>4, FS_Injection
<1>6. Cardinality(O) = IF c + 1 \in Q THEN Cardinality(Q) - 1 ELSE Cardinality(Q)
  BY <1>1, FS_RemoveElement
<1> QED BY <1>1, <1>5, <1>6

\* The same steps, or as many with the same marks, have the same number of retries.
LEMMA SameCount ==
    ASSUME NEW s, NEW u, Len(u) = Len(s), \A p \in 1..Len(s) : u[p].retry <=> s[p].retry
    PROVE  RetryPositions(u) = RetryPositions(s)
BY DEF RetryPositions

LEMMA NoRetries ==
    ASSUME NEW s, \A p \in 1..Len(s) : ~s[p].retry
    PROVE  Cardinality(RetryPositions(s)) = 0
<1>1. RetryPositions(s) = {}
  BY DEF RetryPositions
<1> QED BY <1>1, FS_EmptySet

LEMMA BoundedMeans ==
    RemediationBounded <=> /\ state.remediations <= MaxRemediations
                           /\ Cardinality(RetryPositions(task.steps)) <= state.remediations
BY DEF RemediationBounded, RetryPositions, Positions

LEMMA InitRetries == Init => Retries
<1> SUFFICES ASSUME Init PROVE Retries
  OBVIOUS
<1>1. Len(task.steps) = 0 /\ state.remediations = 0
  BY EmptySeq DEF Init, InitialTask, InitialState
<1>2. Apart
  BY <1>1 DEF Apart, Positions
<1>3. Cardinality(RetryPositions(task.steps)) = 0
  BY <1>1, NoRetries
<1> QED BY <1>1, <1>2, <1>3, BoundedMeans, BoundsAssumption DEF Retries

\* The steps of a settled task keep their mark and their tool.
LEMMA SettledMarks ==
    ASSUME NEW t, Settles(t), Types, Current \in Positions
    PROVE  \A p \in Positions : /\ t.steps[p].retry = task.steps[p].retry
                                /\ t.steps[p].tool = task.steps[p].tool
<1>1. PICK status \in {"success", "failed", "skipped"} :
          t.steps[Current] = [task.steps[Current] EXCEPT !.status = status]
  BY DEF Settles
<1>2. task.steps[Current] \in Step
  BY TypesGive
<1>3. t.steps[Current].retry = task.steps[Current].retry /\ t.steps[Current].tool = task.steps[Current].tool
  BY <1>1, <1>2 DEF Step
<1> QED BY <1>3 DEF Settles

\* A step that changes none of it keeps it.
LEMMA RetriesUnchanged ==
    ASSUME Retries, task'.steps = task.steps, state'.idx = state.idx,
           state'.remediations = state.remediations, state'.stats = state.stats
    PROVE  Retries'
<1>1. Positions' = Positions /\ Current' = Current
  BY DEF Positions, Current
<1>2. Apart'
  BY <1>1 DEF Retries, Apart
<1>3. RemediationBounded'
  BY <1>1 DEF Retries, RemediationBounded
<1> QED BY <1>2, <1>3 DEF Retries

\* A new plan has no retries.
LEMMA RetriesGone ==
    ASSUME Retries, Types, \A p \in 1..Len(task'.steps) : task'.steps[p].retry = FALSE,
           state'.remediations = state.remediations
    PROVE  Retries'
<1>1. Apart'
  BY DEF Apart, Positions
<1>2. Cardinality(RetryPositions(task'.steps)) = 0
  BY NoRetries
<1>3. state.remediations \in Nat
  BY TypesGive DEF StateType
<1>4. state.remediations <= MaxRemediations
  BY BoundedMeans DEF Retries
<1>5. /\ state'.remediations <= MaxRemediations
      /\ Cardinality(RetryPositions(task'.steps)) <= state'.remediations
  BY <1>2, <1>3, <1>4
<1>6. RemediationBounded'
  BY <1>5 DEF RemediationBounded, RetryPositions, Positions
<1> QED BY <1>1, <1>6 DEF Retries

\* Whatever becomes of a step, the same steps with the same marks keep it, when the index
\* moves on, or stays with the counters at least what they were.
LEMMA RetriesKept ==
    ASSUME Retries, Types, Len(task'.steps) = Len(task.steps),
           \A p \in Positions : /\ task'.steps[p].retry = task.steps[p].retry
                                /\ task'.steps[p].tool = task.steps[p].tool,
           state'.idx \in Nat, state'.remediations \in Nat,
           state.remediations <= state'.remediations, state'.remediations <= MaxRemediations,
           \/ state'.idx > state.idx
           \/ /\ state'.idx = state.idx
              /\ Current \in Positions =>
                    \/ state'.stats = state.stats
                    \/ state'.stats.streak[task.steps[Current].tool] >= 1
    PROVE  Retries'
<1>1. Positions' = Positions /\ state.idx \in Nat /\ Current = state.idx + 1
      /\ Current' = state'.idx + 1 /\ state.remediations \in Nat /\ \A p \in Positions : p \in Nat
  BY TypesGive DEF Positions, Current, StateType
<1>2. \A p \in Positions : p > Current => ~task.steps[p].retry
  BY DEF Retries, Apart
<1>3. Apart'
  <2>1. \A p \in Positions : task'.steps[p].retry /\ p > 1 => ~task'.steps[p - 1].retry
    <3> TAKE p \in Positions
    <3>1. p > 1 => p - 1 \in Positions
      BY TypesGive DEF Positions
    <3> QED BY <3>1 DEF Retries, Apart
  <2>2. \A p \in Positions : p > Current' => ~task'.steps[p].retry
    BY <1>1, <1>2
  <2>3. ASSUME Current' \in Positions, task'.steps[Current'].retry
        PROVE  state'.stats.streak[task'.steps[Current'].tool] >= 1
    <3>1. CASE state'.idx > state.idx
      <4>1. Current' > Current
        BY <1>1, <3>1
      <4> QED BY <1>1, <1>2, <2>3, <4>1
    <3>2. CASE state'.idx = state.idx
      <4>1. Current' = Current
        BY <1>1, <3>2
      <4>2. task.steps[Current].retry /\ task'.steps[Current].tool = task.steps[Current].tool
        BY <2>3, <4>1
      <4>3. state.stats.streak[task.steps[Current].tool] >= 1
        BY <2>3, <4>1, <4>2 DEF Retries, Apart
      <4>4. \/ state'.stats = state.stats
            \/ state'.stats.streak[task.steps[Current].tool] >= 1
        BY <1>1, <2>3, <3>2, <4>1
      <4> QED BY <4>1, <4>2, <4>3, <4>4
    <3> QED BY <1>1, <3>1, <3>2
  <2> QED BY <1>1, <2>1, <2>2, <2>3 DEF Apart
<1>4. RemediationBounded'
  <2>1. RetryPositions(task'.steps) = RetryPositions(task.steps)
    BY SameCount DEF Positions
  <2>2. Cardinality(RetryPositions(task.steps)) <= state.remediations
    BY BoundedMeans DEF Retries
  <2>3. Cardinality(RetryPositions(task.steps)) \in Nat
    <3>1. IsFiniteSet(1..Len(task.steps))
      BY TypesGive, FS_Interval
    <3>2. RetryPositions(task.steps) \in SUBSET (1..Len(task.steps))
      BY DEF RetryPositions
    <3> QED BY <3>1, <3>2, FS_Subset, FS_CardinalityType
  <2>4. Cardinality(RetryPositions(task'.steps)) <= state'.remediations
    BY <1>1, <2>1, <2>2, <2>3
  <2> QED BY <2>4 DEF RemediationBounded, RetryPositions, Positions
<1> QED BY <1>3, <1>4 DEF Retries

LEMMA ExecuteRetries ==
    ASSUME Types, Retries, ExecuteStep
    PROVE  Retries'
<1>1. Current \in Positions /\ Current \in Nat /\ Current + 1 \in Nat /\ Current > state.idx
      /\ state.idx \in Nat /\ Len(task.steps) \in Nat /\ Current = state.idx + 1
  BY ExecuteStepSplits, TypesGive DEF Positions, Current, StateType
<1>2. PICK t \in TaskType, stats \in Stats : Settles(t) /\ GoesOn(t, stats)
  BY ExecuteStepSplits
<1>3. /\ Len(t.steps) = Len(task.steps)
      /\ \A p \in Positions : /\ t.steps[p].retry = task.steps[p].retry
                              /\ t.steps[p].tool = task.steps[p].tool
  BY <1>1, <1>2, SettledMarks DEF Settles
<1>4. state.remediations \in Nat /\ state.remediations <= MaxRemediations /\ MaxRemediations \in Nat
  BY TypesGive, BoundedMeans, BoundsAssumption DEF StateType, Retries
<1>5. CASE CancelRest(t, Current + 1)
  <2>1. /\ Len(task'.steps) = Len(task.steps) /\ state'.idx = Len(task.steps)
        /\ state'.remediations = state.remediations
        /\ \A p \in Positions : task'.steps[p] = IF p >= Current + 1 /\ t.steps[p].status = "pending"
                                                 THEN [t.steps[p] EXCEPT !.status = "skipped"]
                                                 ELSE t.steps[p]
        /\ state'.stats = state.stats
    BY <1>1, <1>3, <1>5, CancelRestFacts
  <2>2. \A p \in Positions : t.steps[p] \in Step
    BY <1>3, ElementOfSeq DEF TaskType, Positions
  <2>3. \A p \in Positions : /\ task'.steps[p].retry = task.steps[p].retry
                             /\ task'.steps[p].tool = task.steps[p].tool
    BY <1>3, <2>1, <2>2 DEF Step
  <2>4. state'.idx > state.idx
    BY <1>1, <2>1 DEF Positions
  <2> QED BY <1>1, <1>4, <2>1, <2>3, <2>4, RetriesKept
<1>6. CASE FinishStep(t, stats)
  <2>1. /\ task' = t /\ state'.idx = Current /\ state'.remediations = state.remediations
    BY <1>6, FinishStepFacts
  <2> QED BY <1>1, <1>3, <1>4, <2>1, RetriesKept
<1>7. CASE DefaultReplan(t) \/ (ControlledReplan(t, stats) /\ Remediable(t, stats))
  <2>1. task' = t /\ state'.idx = state.idx
    BY <1>7, ControlledReplanFacts, DefaultReplanFacts
  <2>2. CASE DefaultReplan(t)
    <3>1. state'.remediations = state.remediations /\ state'.stats = state.stats
      BY <2>2, DefaultReplanFacts
    <3> QED BY <1>1, <1>3, <1>4, <2>1, <3>1, RetriesKept
  <2>3. CASE ControlledReplan(t, stats) /\ Remediable(t, stats)
    <3>1. state'.remediations = state.remediations + 1 /\ state'.stats = stats
      BY <2>3, ControlledReplanFacts
    <3>2. state.remediations + 1 \in Nat /\ state.remediations <= state.remediations + 1
          /\ state.remediations + 1 <= MaxRemediations
      BY <1>4, <2>3 DEF Remediable
    <3>3. state'.stats.streak[task.steps[Current].tool] >= 1
      BY <1>1, <1>3, <2>3, <3>1 DEF Remediable
    <3> QED BY <1>1, <1>3, <2>1, <3>1, <3>2, <3>3, RetriesKept
  <2> QED BY <1>7, <2>2, <2>3
<1>8. CASE RetryStep(t, stats) /\ Remediable(t, stats)
  <2>1. /\ Len(task'.steps) = Len(task.steps) + 1
        /\ \A p \in 1..(Len(task.steps) + 1) :
              task'.steps[p] = IF p <= Current THEN t.steps[p]
                               ELSE IF p = Current + 1
                                    THEN [id |-> LastId + 1, tool |-> t.steps[Current].tool,
                                          status |-> "pending", retry |-> TRUE]
                                    ELSE t.steps[p - 1]
        /\ state'.idx = Current /\ state'.remediations = state.remediations + 1
        /\ state'.stats = stats
    BY <1>1, <1>3, <1>8, RetryStepFacts
  <2> DEFINE s == task.steps
             u == task'.steps
  <2>2. \A p \in 1..Len(s) : p <= Current => u[p] = t.steps[p]
    BY <1>1, <2>1
  <2>3. u[Current + 1] = [id |-> LastId + 1, tool |-> t.steps[Current].tool,
                          status |-> "pending", retry |-> TRUE]
    <3>1. Current + 1 \in 1..(Len(s) + 1) /\ ~(Current + 1 <= Current)
      BY <1>1 DEF Positions
    <3> QED BY <2>1, <3>1
  <2>4. \A p \in 1..Len(s) : p > Current => u[p + 1] = t.steps[p]
    <3> TAKE p \in 1..Len(s)
    <3>1. CASE p > Current
      <4>1. p + 1 \in 1..(Len(s) + 1) /\ ~(p + 1 <= Current) /\ p + 1 # Current + 1 /\ (p + 1) - 1 = p
        BY <1>1, <3>1
      <4> QED BY <2>1, <4>1
    <3> QED BY <3>1
  <2>5. ~s[Current].retry
    <3>1. state.stats.streak[task.steps[Current].tool] = 0
      BY <1>1, <1>3, <1>8 DEF Remediable
    <3> QED BY <1>1, <3>1 DEF Retries, Apart
  <2>6. \A p \in 1..Len(s) : /\ p <= Current => (u[p].retry <=> s[p].retry)
                             /\ p > Current => (u[p + 1].retry <=> s[p].retry)
    BY <1>3, <2>2, <2>4 DEF Positions
  <2>7. \A p \in 1..Len(s) : p > Current => ~s[p].retry
    BY DEF Retries, Apart, Positions
  <2>8. Len(u) = Len(s) + 1 /\ Current \in 1..Len(s) /\ Len(s) \in Nat
    BY <1>1, <2>1 DEF Positions
  <2>9. Apart'
    <3>1. Positions' = 1..(Len(s) + 1) /\ Current' = Current + 1
      BY <2>1 DEF Positions, Current
    <3>2. \A p \in 1..(Len(s) + 1) : p > Current + 1 => ~u[p].retry
      <4> TAKE p \in 1..(Len(s) + 1)
      <4>1. CASE p > Current + 1
        <5>1. p - 1 \in 1..Len(s) /\ p - 1 > Current /\ (p - 1) + 1 = p
          BY <1>1, <2>8, <4>1
        <5> QED BY <2>6, <2>7, <5>1
      <4> QED BY <4>1
    <3>3. ASSUME NEW p \in 1..(Len(s) + 1), u[p].retry, p > 1 PROVE ~u[p - 1].retry
      <4>1. p <= Current + 1
        BY <3>2, <3>3, <1>1
      <4>2. CASE p = Current + 1
        <5>1. p - 1 = Current /\ Current \in 1..Len(s) /\ Current <= Current
          BY <1>1, <2>8, <4>2
        <5> QED BY <2>5, <2>6, <5>1
      <4>3. CASE p <= Current
        <5>1. p \in 1..Len(s) /\ p - 1 \in 1..Len(s) /\ p - 1 <= Current
          BY <1>1, <2>8, <3>3, <4>3
        <5>2. s[p].retry => ~s[p - 1].retry
          BY <3>3, <5>1 DEF Retries, Apart, Positions
        <5> QED BY <2>6, <3>3, <4>3, <5>1, <5>2
      <4> QED BY <1>1, <4>1, <4>2, <4>3
    <3>4. state'.stats.streak[u[Current + 1].tool] >= 1
      BY <1>8, <2>1, <2>3 DEF Remediable
    <3> QED BY <3>1, <3>2, <3>3, <3>4 DEF Apart
  <2>10. RemediationBounded'
    <3> HIDE DEF s, u
    <3>1. /\ Cardinality(RetryPositions(s)) \in Nat /\ Cardinality(RetryPositions(u)) \in Nat
          /\ Cardinality(RetryPositions(u)) <= Cardinality(RetryPositions(s)) + 1
      BY <2>6, <2>8, InsertCount
    <3>2. Cardinality(RetryPositions(s)) <= state.remediations
      BY BoundedMeans DEF Retries, s
    <3>3. state.remediations < MaxRemediations
      BY <1>8 DEF Remediable
    <3>4. Cardinality(RetryPositions(u)) <= state'.remediations /\ state'.remediations <= MaxRemediations
      BY <1>4, <2>1, <3>1, <3>2, <3>3
    <3> QED BY <3>4 DEF RemediationBounded, RetryPositions, Positions, u
  <2> QED BY <2>9, <2>10 DEF Retries
<1> QED BY <1>2, <1>5, <1>6, <1>7, <1>8 DEF GoesOn

LEMMA StepRetries ==
    ASSUME Types, Retries, [Next]_vars
    PROVE  Retries'
<1>1. state \in StateType /\ state.idx \in Nat /\ state.remediations \in Nat /\ Len(task.steps) \in Nat
      /\ state.remediations <= MaxRemediations
  BY TypesGive, BoundedMeans DEF StateType, Retries
<1>2. CASE Planner
  <2>1. CASE PlannerFails
    <3>1. task' = task /\ state' = [state EXCEPT !.error = TRUE]
      BY <2>1 DEF PlannerFails
    <3>2. state'.idx = state.idx /\ state'.remediations = state.remediations /\ state'.stats = state.stats
      BY <1>1, <3>1 DEF StateType
    <3> QED BY <3>1, <3>2, RetriesUnchanged
  <2>2. ASSUME NEW plan \in Plans, PlanSteps(plan) PROVE Retries'
    <3>1. /\ \A p \in 1..Len(task'.steps) : task'.steps[p].retry = FALSE
          /\ state'.remediations = state.remediations
      BY <2>2, PlanFacts
    <3> QED BY <3>1, RetriesGone
  <2> QED BY <1>2, <2>1, <2>2 DEF Planner
<1>3. CASE Decide
  <2>1. /\ \A p \in 1..Len(task'.steps) : task'.steps[p].retry = FALSE
        /\ state'.remediations = state.remediations
    BY <1>3, DecideFacts
  <2> QED BY <2>1, RetriesGone
<1>4. CASE NoStep
  <2>1. task' = task /\ state' = [state EXCEPT !.idx = @ + 1]
    BY <1>4 DEF NoStep
  <2>2. state'.idx = state.idx + 1 /\ state'.remediations = state.remediations
    BY <1>1, <2>1 DEF StateType
  <2> QED BY <1>1, <2>1, <2>2, RetriesKept
<1>5. CASE CancelBefore
  <2>1. CancelRest(task, Current) /\ Current \in Nat /\ state.idx < Len(task.steps)
        /\ task \in TaskType
    BY <1>1, <1>5, TypesGive DEF CancelBefore, Current
  <2>2. /\ Len(task'.steps) = Len(task.steps) /\ state'.idx = Len(task.steps)
        /\ state'.remediations = state.remediations
        /\ \A p \in Positions : task'.steps[p] = IF p >= Current /\ task.steps[p].status = "pending"
                                                 THEN [task.steps[p] EXCEPT !.status = "skipped"]
                                                 ELSE task.steps[p]
    BY <2>1, CancelRestFacts
  <2>3. \A p \in Positions : task.steps[p] \in Step
    BY TypesGive
  <2>4. \A p \in Positions : /\ task'.steps[p].retry = task.steps[p].retry
                             /\ task'.steps[p].tool = task.steps[p].tool
    BY <2>2, <2>3 DEF Step
  <2> QED BY <1>1, <2>1, <2>2, <2>4, RetriesKept
<1>6. CASE Solver \/ Reviewer
  BY <1>6, SolverFacts, ReviewerFacts, RetriesUnchanged DEF SameSteps
<1>7. CASE Aside
  BY <1>7, AsideFacts, RetriesUnchanged
<1> QED BY <1>2, <1>3, <1>4, <1>5, <1>6, <1>7, ExecuteRetries DEF Next, Executor, Aside

\* The place and the number of the retries are kept by every step of a run.
THEOREM RetriesHold == Spec => []Retries
<1>1. Init => Retries
  BY InitRetries
<1>2. Types /\ Retries /\ [Next]_vars => Retries'
  BY StepRetries
<1> QED BY <1>1, <1>2, TypesHold, PTL DEF Spec

\* However often a run replans or is reviewed, it never spends more remediations than the
\* task may have, and the retries in its plan are among those it counted.
THEOREM RemediationIsBounded == Spec => []RemediationBounded
<1>1. Retries => RemediationBounded
  BY DEF Retries
<1> QED BY <1>1, RetriesHold, PTL

\* No retry is ever followed by a retry of its own.
THEOREM RetryIsNotRetried == Spec => []NoRetryOfRetry
<1>1. Types /\ Retries => NoRetryOfRetry
  <2> SUFFICES ASSUME Types, Retries, NEW p \in Positions, task.steps[p].retry, p # 1
               PROVE  ~task.steps[p - 1].retry
    BY DEF NoRetryOfRetry
  <2>1. p > 1
    BY TypesGive DEF Positions
  <2> QED BY <2>1 DEF Retries, Apart
<1> QED BY <1>1, TypesHold, RetriesHold, PTL

-----------------------------------------------------------------------------
(* The rows of the steps.                                                   *)

DistinctIds(s) == \A p, q \in 1..Len(s) : s[p].id = s[q].id => p = q

LEMMA SavedRow ==
    ASSUME NEW rows, NEW s, DistinctIds(s), NEW P \in SUBSET (1..Len(s)), NEW p \in P
    PROVE  SaveSteps(rows, s, P)[s[p].id] = [position |-> p, step |-> s[p]]
<1> DEFINE At(i) == CHOOSE q \in P : s[q].id = i
<1>1. At(s[p].id) \in P /\ s[At(s[p].id)].id = s[p].id
  OBVIOUS
<1>2. At(s[p].id) = p
  BY <1>1 DEF DistinctIds
<1>3. s[p].id \in {s[q].id : q \in P}
  OBVIOUS
<1> QED BY <1>2, <1>3 DEF SaveSteps

LEMMA OtherRow ==
    ASSUME NEW rows, NEW s, NEW P, NEW i \in DOMAIN rows, \A p \in P : s[p].id # i
    PROVE  SaveSteps(rows, s, P)[i] = rows[i]
BY DEF SaveSteps

LEMMA SaveIsFunction ==
    ASSUME NEW rows, NEW s, NEW P
    PROVE  SaveSteps(rows, s, P)
              = [i \in DOMAIN SaveSteps(rows, s, P) |-> SaveSteps(rows, s, P)[i]]
BY DEF SaveSteps

\* Saving what changed, on top of the rows of the old steps, gives the rows of the new ones:
\* no old step may lose its id, and what is not saved must be where it was.
LEMMA SaveAgain ==
    ASSUME NEW s, NEW u, DistinctIds(s), DistinctIds(u), NEW P \in SUBSET (1..Len(u)),
           \A p \in (1..Len(u)) \ P : p \in 1..Len(s) /\ u[p] = s[p],
           \A p \in 1..Len(s) : \E q \in 1..Len(u) : u[q].id = s[p].id
    PROVE  SaveSteps(SaveSteps(<<>>, s, 1..Len(s)), u, P) = SaveSteps(<<>>, u, 1..Len(u))
<1> DEFINE old == SaveSteps(<<>>, s, 1..Len(s))
           new == SaveSteps(old, u, P)
           all == SaveSteps(<<>>, u, 1..Len(u))
<1>1. \A i : i \in DOMAIN old <=> \E p \in 1..Len(s) : i = s[p].id
  BY DEF SaveSteps
<1>2. \A i : i \in DOMAIN all <=> \E p \in 1..Len(u) : i = u[p].id
  BY DEF SaveSteps
<1>3. \A i : i \in DOMAIN new <=> i \in DOMAIN old \/ \E p \in P : i = u[p].id
  <2> HIDE DEF old
  <2> QED BY DEF SaveSteps
<1>4. \A i : i \in DOMAIN new <=> i \in DOMAIN all
  <2>1. ASSUME NEW i \in DOMAIN new PROVE i \in DOMAIN all
    <3> HIDE DEF new, all, old
    <3>1. CASE \E p \in P : i = u[p].id
      BY <1>2, <3>1
    <3>2. CASE i \in DOMAIN old
      BY <1>1, <1>2, <3>2
    <3> QED BY <1>3, <3>1, <3>2
  <2>2. ASSUME NEW i \in DOMAIN all PROVE i \in DOMAIN new
    <3> HIDE DEF new, all, old
    <3>1. PICK p \in 1..Len(u) : i = u[p].id
      BY <1>2
    <3>2. CASE p \in P
      BY <1>3, <3>1, <3>2
    <3>3. CASE p \notin P
      BY <1>1, <1>3, <3>1, <3>3
    <3> QED BY <3>2, <3>3
  <2> QED BY <2>1, <2>2
<1>5. ASSUME NEW p \in 1..Len(u) PROVE new[u[p].id] = all[u[p].id]
  <2>1. all[u[p].id] = [position |-> p, step |-> u[p]]
    BY SavedRow
  <2>2. CASE p \in P
    <3> HIDE DEF old
    <3>1. new[u[p].id] = [position |-> p, step |-> u[p]]
      BY <2>2, SavedRow
    <3> QED BY <2>1, <3>1
  <2>3. CASE p \notin P
    <3>1. p \in 1..Len(s) /\ u[p] = s[p]
      BY <2>3
    <3>2. old[s[p].id] = [position |-> p, step |-> s[p]]
      BY <3>1, SavedRow
    <3>3. \A q \in P : u[q].id # s[p].id
      BY <2>3, <3>1 DEF DistinctIds
    <3>4. s[p].id \in DOMAIN old
      BY <1>1, <3>1
    <3> HIDE DEF old
    <3>5. new[s[p].id] = old[s[p].id]
      BY <3>3, <3>4, OtherRow
    <3> QED BY <2>1, <3>1, <3>2, <3>5
  <2> QED BY <2>2, <2>3
<1>6. new = [i \in DOMAIN new |-> new[i]] /\ all = [i \in DOMAIN all |-> all[i]]
  BY SaveIsFunction
<1> HIDE DEF new, all
<1>7. \A i \in DOMAIN all : new[i] = all[i]
  BY <1>2, <1>5
<1>8. DOMAIN new = DOMAIN all
  BY <1>4
<1>9. new = all
  BY <1>6, <1>7, <1>8
<1> QED BY <1>9 DEF new, all

-----------------------------------------------------------------------------
(* What a run without a planner error keeps at each node.                   *)

Mirror == DistinctIds(task.steps) /\ stepRows = SaveSteps(<<>>, task.steps, Positions)

Some(status) == \E p \in Positions : task.steps[p].status = status

\* A plan is there and nothing of it is saved.
AtDecision ==
    /\ stepRows = <<>> /\ Len(task.steps) > 0 /\ state.idx = 0
    /\ ~state.replanning /\ ~state.cancel /\ ~task.cancel /\ task.pending = "none"

\* The steps before the current one have settled, it and the others are pending, and both
\* lists of steps are as long.
AtExecutor ==
    /\ state.idx < Len(task.steps) /\ state.legacy = Len(task.steps)
    /\ ~state.replanning /\ ~state.cancel /\ task.pending = "none"
    /\ \A p \in Positions : task.steps[p].status = "pending" <=> p > state.idx
    /\ task.cancel <=> Some("skipped")

AtSolver ==
    /\ ~Some("pending") /\ task.pending = "none"
    /\ state.cancel <=> Some("skipped")
    /\ state.cancel => task.status = "canceled"
    /\ ~state.cancel => ~task.cancel

AtReviewer ==
    /\ ~Some("pending")
    /\ Some("skipped") => task.status = "canceled" /\ task.pending = "none"
    /\ ~Some("skipped") => task.pending = IF Some("failed") THEN "partial" ELSE "success"

AtEnd ==
    /\ ~Some("pending")
    /\ Some("skipped") => row.status = "canceled"
    /\ ~Some("skipped") => row.status = IF Some("failed") THEN "partial" ELSE "success"

Course ==
    ~state.error =>
        /\ pc = "planner" => state.replanning \/ stepRows = <<>>
        /\ pc = "decision" => AtDecision
        /\ pc = "executor" => AtExecutor /\ Mirror
        /\ pc = "solver" => AtSolver /\ Mirror
        /\ pc = "reviewer" => AtReviewer /\ Mirror
        /\ pc = "end" => AtEnd /\ Mirror

LEMMA MirrorUnchanged ==
    ASSUME Mirror, task'.steps = task.steps, UNCHANGED stepRows
    PROVE  Mirror'
BY DEF Mirror, Positions

LEMMA SomeUnchanged ==
    ASSUME task'.steps = task.steps
    PROVE  \A status : Some(status)' <=> Some(status)
BY DEF Some, Positions

LEMMA InitCourse == Init => Course
BY DEF Init, Course

\* The planner and the decision node build a plan and save it.
LEMMA PlannerCourse ==
    ASSUME Types, Course, Planner
    PROVE  Course'
<1> SUFFICES ASSUME ~state'.error PROVE Course'
  BY DEF Course
<1>1. CASE PlannerFails
  <2>1. state' = [state EXCEPT !.error = TRUE] /\ state \in StateType
    BY <1>1, TypesGive DEF PlannerFails
  <2>2. state'.error
    BY <2>1 DEF StateType
  <2> QED BY <2>2
<1>2. ASSUME NEW plan \in Plans, PlanSteps(plan) PROVE Course'
  <2>1. /\ Kept /\ pc' = "decision" /\ Len(task'.steps) = Len(plan) /\ Len(plan) > 0
        /\ ~task'.cancel /\ task'.pending = "none"
        /\ state'.idx = 0 /\ ~state'.replanning /\ ~state'.cancel
        /\ stepRows' = IF state.replanning THEN <<>> ELSE stepRows
    BY <1>2, PlanFacts
  <2>2. pc = "planner"
    BY <1>2 DEF PlanSteps, Enter
  <2>3. state.replanning \/ stepRows = <<>>
    BY <2>1, <2>2 DEF Course, Kept
  <2>4. AtDecision'
    BY <2>1, <2>3 DEF AtDecision
  <2> QED BY <2>1, <2>4 DEF Course
<1> QED BY <1>1, <1>2 DEF Planner

LEMMA DecideCourse ==
    ASSUME Types, Course, Decide
    PROVE  Course'
<1> SUFFICES ASSUME ~state'.error PROVE Course'
  BY DEF Course
<1>1. /\ task' \in TaskType /\ Kept /\ pc' = "executor"
      /\ Len(task.steps) > 0 => Len(task'.steps) > 0
      /\ \A p \in 1..Len(task'.steps) : /\ task'.steps[p].id = LastId + p
                                        /\ task'.steps[p].status = "pending"
      /\ task'.cancel = task.cancel /\ task'.pending = task.pending
      /\ stepRows' = SaveSteps(stepRows, task'.steps, 1..Len(task'.steps))
      /\ state'.idx = state.idx /\ state'.replanning = state.replanning
      /\ state'.cancel = state.cancel /\ state'.legacy = Len(task'.steps)
  BY DecideFacts
<1>2. AtDecision
  <2>1. pc = "decision"
    BY DEF Decide, Enter
  <2> QED BY <1>1, <2>1 DEF Course, Kept
<1>3. LastId \in Nat /\ Len(task'.steps) \in Nat
  <2>1. task'.steps \in Seq(Step)
    BY <1>1 DEF TaskType
  <2> QED BY <2>1, LastIdFacts, LenProperties DEF Types
<1>4. Mirror'
  <2>1. DistinctIds(task'.steps)
    BY <1>1, <1>3 DEF DistinctIds
  <2>2. stepRows' = SaveSteps(<<>>, task'.steps, 1..Len(task'.steps))
    BY <1>1, <1>2 DEF AtDecision
  <2> QED BY <2>1, <2>2 DEF Mirror, Positions
<1>5. AtExecutor'
  <2>1. \A p \in 1..Len(task'.steps) : task'.steps[p].status = "pending" /\ p > state'.idx
    BY <1>1, <1>2, <1>3 DEF AtDecision
  <2>2. ~Some("skipped")'
    BY <2>1 DEF Some, Positions
  <2>3. state'.idx < Len(task'.steps) /\ ~state'.replanning /\ ~state'.cancel
        /\ ~task'.cancel /\ task'.pending = "none" /\ state'.legacy = Len(task'.steps)
    BY <1>1, <1>2, <1>3 DEF AtDecision
  <2> QED BY <2>1, <2>2, <2>3 DEF AtExecutor, Positions
<1> QED BY <1>1, <1>4, <1>5 DEF Course

\* The ids of the executor's steps are those of the rows: a save of the steps from the
\* current one on, of which the earlier ones did not change, keeps the mirror.
LEMMA SaveKeepsMirror ==
    ASSUME Types, Mirror, NEW P \in SUBSET (1..Len(task'.steps)),
           stepRows' = SaveSteps(stepRows, task'.steps, P), DistinctIds(task'.steps),
           \A p \in (1..Len(task'.steps)) \ P : p \in Positions /\ task'.steps[p] = task.steps[p],
           \A p \in Positions : \E q \in 1..Len(task'.steps) : task'.steps[q].id = task.steps[p].id
    PROVE  Mirror'
<1> DEFINE s == task.steps
           u == task'.steps
<1>1. DistinctIds(s) /\ stepRows = SaveSteps(<<>>, s, 1..Len(s))
  BY DEF Mirror, Positions
<1>2. /\ \A p \in (1..Len(u)) \ P : p \in 1..Len(s) /\ u[p] = s[p]
      /\ \A p \in 1..Len(s) : \E q \in 1..Len(u) : u[q].id = s[p].id
      /\ stepRows' = SaveSteps(SaveSteps(<<>>, s, 1..Len(s)), u, P)
      /\ DistinctIds(u) /\ P \in SUBSET (1..Len(u))
  BY <1>1 DEF Positions
<1> HIDE DEF s, u
<1>3. stepRows' = SaveSteps(<<>>, u, 1..Len(u))
  BY <1>1, <1>2, SaveAgain
<1> QED BY <1>2, <1>3 DEF Mirror, Positions, u

\* The same, when the steps kept their ids.
LEMMA SameIdsKeepMirror ==
    ASSUME Types, Mirror, NEW P \in SUBSET Positions,
           stepRows' = SaveSteps(stepRows, task'.steps, P), Len(task'.steps) = Len(task.steps),
           \A p \in Positions : task'.steps[p].id = task.steps[p].id,
           \A p \in Positions \ P : task'.steps[p] = task.steps[p]
    PROVE  Mirror'
<1>1. Positions = 1..Len(task'.steps) /\ Positions = 1..Len(task.steps)
  BY DEF Positions
<1>2. DistinctIds(task'.steps)
  BY <1>1 DEF Mirror, DistinctIds
<1>3. \A p \in Positions : \E q \in 1..Len(task'.steps) : task'.steps[q].id = task.steps[p].id
  BY <1>1
<1> QED BY <1>1, <1>2, <1>3, SaveKeepsMirror

\* The rest of the plan is skipped and the solver comes next.
LEMMA CancelCourse ==
    ASSUME Types, AtExecutor, Mirror, NEW t \in TaskType, NEW c \in Nat, CancelRest(t, c),
           Len(t.steps) = Len(task.steps), t.pending = task.pending,
           \A p \in Positions : t.steps[p].id = task.steps[p].id,
           \A p \in Positions : p < Current => t.steps[p] = task.steps[p],
           \A p \in Positions : p < c => t.steps[p].status # "pending",
           c >= Current,
           \E p \in Positions : t.steps[p].status = "skipped" \/ (p >= c /\ t.steps[p].status = "pending")
    PROVE  pc' = "solver" /\ AtSolver' /\ Mirror' /\ state'.error = state.error
<1>1. /\ pc' = CheckNextStep(state') /\ Kept
      /\ task'.cancel /\ task'.pending = t.pending /\ task'.status = "canceled"
      /\ Len(task'.steps) = Len(task.steps)
      /\ \A p \in Positions : task'.steps[p] = IF p >= c /\ t.steps[p].status = "pending"
                                               THEN [t.steps[p] EXCEPT !.status = "skipped"]
                                               ELSE t.steps[p]
      /\ stepRows' = SaveSteps(stepRows, task'.steps, Current..Len(task.steps))
      /\ state'.idx = Len(task.steps) /\ state'.legacy = state.legacy
      /\ state'.replanning = state.replanning /\ state'.cancel
  BY CancelRestFacts
<1>2. /\ Len(task.steps) \in Nat /\ state.idx \in Nat /\ Current = state.idx + 1
      /\ \A p \in Positions : t.steps[p] \in Step /\ p \in Nat
      /\ Positions' = Positions
  <2>1. t.steps \in Seq(Step)
    BY DEF TaskType
  <2> QED BY <1>1, <2>1, ElementOfSeq, TypesGive DEF Positions, StateType, Current
<1>3. pc' = "solver"
  BY <1>1, <1>2 DEF CheckNextStep, AtExecutor
<1>4. \A p \in Positions :
         /\ task'.steps[p].id = task.steps[p].id
         /\ task'.steps[p].status = IF p >= c /\ t.steps[p].status = "pending"
                                    THEN "skipped" ELSE t.steps[p].status
  BY <1>1, <1>2 DEF Step
<1>5. Some("skipped")' /\ ~Some("pending")'
  <2>1. Some("skipped")'
    BY <1>2, <1>4 DEF Some
  <2>2. \A p \in Positions : task'.steps[p].status # "pending"
    <3> TAKE p \in Positions
    <3>1. p < c \/ p >= c
      BY <1>2
    <3> QED BY <1>4, <3>1
  <2> QED BY <1>2, <2>1, <2>2 DEF Some
<1>6. AtSolver'
  BY <1>1, <1>5 DEF AtSolver, AtExecutor
<1>7. Mirror'
  <2> DEFINE P == Current..Len(task.steps)
  <2>1. P \in SUBSET Positions
    BY <1>2 DEF Positions
  <2>2. \A p \in Positions \ P : task'.steps[p] = task.steps[p]
    <3> TAKE p \in Positions \ P
    <3>1. p < Current /\ p < c
      BY <1>2 DEF Positions
    <3> QED BY <1>1, <1>2, <3>1
  <2>3. stepRows' = SaveSteps(stepRows, task'.steps, P)
    BY <1>1
  <2> HIDE DEF P
  <2> QED BY <1>1, <1>4, <2>1, <2>2, <2>3, SameIdsKeepMirror
<1> QED BY <1>1, <1>3, <1>6, <1>7 DEF Kept

\* A step that ran without being canceled is followed by the next one, or by the solver.
LEMMA FinishCourse ==
    ASSUME Types, AtExecutor, Mirror, Current \in Positions, ~task.cancel,
           NEW t \in TaskType, NEW stats \in Stats, Settles(t), ~t.cancel, FinishStep(t, stats)
    PROVE  /\ state'.error = state.error
           /\ \/ pc' = "executor" /\ AtExecutor' /\ Mirror'
              \/ pc' = "solver" /\ AtSolver' /\ Mirror'
<1>1. /\ task' = t /\ Kept /\ pc' = CheckNextStep(state')
      /\ stepRows' = SaveSteps(stepRows, task'.steps, {Current})
      /\ ~state'.replanning /\ state'.idx = Current /\ state'.legacy = state.legacy
      /\ state'.cancel = state.cancel
  BY FinishStepFacts DEF SaveCurrent
<1>2. /\ Len(task'.steps) = Len(task.steps) /\ task'.pending = task.pending
      /\ \A p \in Positions \ {Current} : task'.steps[p] = task.steps[p]
      /\ task'.steps[Current].status \in {"success", "failed"}
  <2>1. PICK status \in {"success", "failed", "skipped"} :
            /\ t.steps[Current] = [task.steps[Current] EXCEPT !.status = status]
            /\ t.cancel <=> status = "skipped"
    BY DEF Settles
  <2>2. task.steps[Current] \in Step
    BY TypesGive
  <2>3. t.steps[Current].status \in {"success", "failed"}
    BY <2>1, <2>2 DEF Step
  <2> QED BY <1>1, <2>3 DEF Settles
<1>3. /\ Positions' = Positions /\ Len(task.steps) \in Nat /\ state.idx \in Nat
      /\ Current = state.idx + 1 /\ \A p \in Positions : p \in Nat
  BY <1>2, TypesGive DEF Positions, StateType, Current
<1>4. Mirror'
  <2>1. \A p \in Positions : task'.steps[p].id = task.steps[p].id
    BY <1>1, SettledIds
  <2>2. {Current} \in SUBSET Positions
    OBVIOUS
  <2> QED BY <1>1, <1>2, <2>1, <2>2, SameIdsKeepMirror
<1>5. ~Some("skipped")'
  <2>1. ~Some("skipped")
    BY DEF AtExecutor
  <2>2. \A p \in Positions : task'.steps[p].status # "skipped"
    BY <1>2, <2>1 DEF Some
  <2> QED BY <1>3, <2>2 DEF Some
<1>6. \A p \in Positions : task'.steps[p].status = "pending" <=> p > Current
  <2> TAKE p \in Positions
  <2>1. CASE p = Current
    BY <1>2, <1>3, <2>1
  <2>2. CASE p # Current
    <3>1. p > state.idx <=> p > Current
      BY <1>3, <2>2
    <3> QED BY <1>2, <2>2, <3>1 DEF AtExecutor
  <2> QED BY <2>1, <2>2
<1>7. CASE Current < Len(task.steps)
  <2>1. pc' = "executor"
    BY <1>1, <1>3, <1>7 DEF CheckNextStep, AtExecutor
  <2>2. AtExecutor'
    BY <1>1, <1>2, <1>3, <1>5, <1>6, <1>7 DEF AtExecutor
  <2> QED BY <1>1, <1>4, <2>1, <2>2 DEF Kept
<1>8. CASE ~(Current < Len(task.steps))
  <2>1. pc' = "solver"
    BY <1>1, <1>3, <1>8 DEF CheckNextStep, AtExecutor
  <2>2. \A p \in Positions : ~(p > Current)
    BY <1>3, <1>8 DEF Positions
  <2>3. ~Some("pending")'
    BY <1>3, <1>6, <2>2 DEF Some
  <2>4. AtSolver'
    BY <1>1, <1>2, <1>5, <2>3 DEF AtSolver, AtExecutor
  <2> QED BY <1>1, <1>4, <2>1, <2>4 DEF Kept
<1> QED BY <1>7, <1>8

\* A retry is inserted and comes next; its id is new, since the rows have every other one.
LEMMA RetryCourse ==
    ASSUME Types, AtExecutor, Mirror, Current \in Positions, ~task.cancel,
           NEW t \in TaskType, NEW stats \in Stats, Settles(t), RetryStep(t, stats)
    PROVE  state'.error = state.error /\ pc' = "executor" /\ AtExecutor' /\ Mirror'
<1> DEFINE new == [id |-> LastId + 1, tool |-> t.steps[Current].tool,
                   status |-> "pending", retry |-> TRUE]
           s == task.steps
           u == task'.steps
<1>1. /\ Kept /\ pc' = CheckNextStep(state')
      /\ task'.cancel = t.cancel /\ task'.pending = t.pending
      /\ Len(u) = Len(s) + 1
      /\ \A p \in 1..(Len(s) + 1) : u[p] = IF p <= Current THEN t.steps[p]
                                           ELSE IF p = Current + 1 THEN new ELSE t.steps[p - 1]
      /\ stepRows' = SaveSteps(stepRows, u, Current..Len(u))
      /\ state'.idx = Current /\ state'.legacy = Len(u) /\ ~state'.replanning
      /\ state'.cancel = state.cancel
  BY RetryStepFacts DEF Settles
<1>2. PICK status \in {"success", "failed", "skipped"} :
          /\ t.steps[Current] = [s[Current] EXCEPT !.status = status]
          /\ t.cancel <=> status = "skipped"
  BY DEF Settles
<1>3. /\ Len(s) \in Nat /\ state.idx \in Nat /\ Current = state.idx + 1 /\ Current \in 1..Len(s)
      /\ \A p \in 1..Len(s) : s[p] \in Step /\ t.steps[p].id = s[p].id
      /\ \A p \in 1..Len(s) : p # Current => t.steps[p] = s[p]
      /\ t.steps[Current].status = status /\ t.pending = task.pending
  <2>1. /\ Len(s) \in Nat /\ state.idx \in Nat /\ Current = state.idx + 1 /\ Current \in 1..Len(s)
        /\ \A p \in 1..Len(s) : s[p] \in Step
    BY TypesGive DEF Positions, StateType, Current
  <2>2. \A p \in 1..Len(s) : t.steps[p].id = s[p].id
    BY SettledIds DEF Positions
  <2>3. t.pending = task.pending /\ \A p \in 1..Len(s) : p # Current => t.steps[p] = s[p]
    BY DEF Settles, Positions
  <2>4. t.steps[Current].status = status
    BY <1>2, <2>1 DEF Step
  <2> QED BY <2>1, <2>2, <2>3, <2>4
<1>4. new.id = LastId + 1 /\ new.status = "pending"
  OBVIOUS
<1>5. LastId \in Nat /\ \A p \in 1..Len(s) : s[p].id \in Nat /\ s[p].id <= LastId
  <2>1. \A p \in 1..Len(s) : s[p].id \in DOMAIN stepRows
    BY DEF Mirror, Positions, SaveSteps
  <2> QED BY <1>3, <2>1, LastIdFacts DEF Types, Step
<1> HIDE DEF new, s, u
<1>6. /\ \A p \in 1..Len(s) : p <= Current => u[p] = t.steps[p]
      /\ u[Current + 1] = new
      /\ \A p \in 1..Len(s) : p > Current => u[p + 1] = s[p]
  <2>1. \A p \in 1..Len(s) : p <= Current => u[p] = t.steps[p]
    BY <1>1, <1>3
  <2>2. u[Current + 1] = new
    <3>1. Current + 1 \in 1..(Len(s) + 1) /\ ~(Current + 1 <= Current)
      BY <1>3
    <3> QED BY <1>1, <3>1
  <2>3. ASSUME NEW p \in 1..Len(s), p > Current PROVE u[p + 1] = s[p]
    <3>1. p + 1 \in 1..(Len(s) + 1) /\ ~(p + 1 <= Current) /\ p + 1 # Current + 1
          /\ (p + 1) - 1 = p /\ p # Current
      BY <1>3, <2>3
    <3> QED BY <1>1, <1>3, <3>1
  <2> QED BY <2>1, <2>2, <2>3
<1>7. ASSUME NEW q \in 1..Len(u)
      PROVE  \/ q <= Current /\ q \in 1..Len(s)
             \/ q = Current + 1
             \/ q - 1 > Current /\ q - 1 \in 1..Len(s) /\ (q - 1) + 1 = q
  BY <1>1, <1>3
<1>8. Mirror'
  <2>1. \A p \in 1..Len(s) : /\ p <= Current => u[p].id = s[p].id
                             /\ p > Current => u[p + 1].id = s[p].id
    BY <1>3, <1>6
  <2>2. DistinctIds(s)
    BY DEF Mirror, s
  <2>3. ASSUME NEW p \in 1..Len(u), NEW q \in 1..Len(u), u[p].id = u[q].id, p < q PROVE FALSE
    <3>1. CASE q = Current + 1
      <4>1. p <= Current /\ p \in 1..Len(s)
        BY <1>3, <2>3, <3>1, <1>7
      <4> QED BY <1>4, <1>5, <1>6, <2>1, <2>3, <3>1, <4>1
    <3>2. CASE p = Current + 1
      <4>1. q - 1 > Current /\ q - 1 \in 1..Len(s) /\ (q - 1) + 1 = q
        BY <1>1, <1>3, <2>3, <3>2
      <4>2. u[q].id = s[q - 1].id
        BY <2>1, <4>1
      <4> QED BY <1>4, <1>5, <1>6, <2>3, <3>2, <4>1, <4>2
    <3>3. CASE p # Current + 1 /\ q # Current + 1
      <4> DEFINE a == IF p <= Current THEN p ELSE p - 1
                 b == IF q <= Current THEN q ELSE q - 1
      <4>1. a \in 1..Len(s) /\ u[p].id = s[a].id
        <5>1. CASE p <= Current /\ p \in 1..Len(s)
          BY <2>1, <5>1
        <5>2. CASE p - 1 > Current /\ p - 1 \in 1..Len(s) /\ (p - 1) + 1 = p
          <6>1. a = p - 1 /\ u[(p - 1) + 1].id = s[p - 1].id
            BY <1>3, <2>1, <5>2
          <6> QED BY <5>2, <6>1
        <5> QED BY <1>7, <3>3, <5>1, <5>2
      <4>2. b \in 1..Len(s) /\ u[q].id = s[b].id
        <5>1. CASE q <= Current /\ q \in 1..Len(s)
          BY <2>1, <5>1
        <5>2. CASE q - 1 > Current /\ q - 1 \in 1..Len(s) /\ (q - 1) + 1 = q
          <6>1. b = q - 1 /\ u[(q - 1) + 1].id = s[q - 1].id
            BY <1>3, <2>1, <5>2
          <6> QED BY <5>2, <6>1
        <5> QED BY <1>7, <3>3, <5>1, <5>2
      <4>3. a # b
        BY <1>3, <2>3, <3>3, <1>1
      <4> HIDE DEF a, b
      <4> QED BY <2>2, <2>3, <4>1, <4>2, <4>3 DEF DistinctIds
    <3> QED BY <3>1, <3>2, <3>3
  <2>4. DistinctIds(u)
    <3> SUFFICES ASSUME NEW p \in 1..Len(u), NEW q \in 1..Len(u), u[p].id = u[q].id, p # q
                 PROVE  FALSE
      BY DEF DistinctIds
    <3>1. p < q \/ q < p
      BY <1>1, <1>3
    <3> QED BY <2>3, <3>1
  <2> DEFINE P == Current..Len(u)
  <2>5. P \in SUBSET (1..Len(u))
    BY <1>1, <1>3
  <2>6. \A p \in (1..Len(u)) \ P : p \in Positions /\ u[p] = s[p]
    <3> TAKE p \in (1..Len(u)) \ P
    <3>1. p \in 1..Len(s) /\ p <= Current /\ p # Current
      BY <1>1, <1>3
    <3> QED BY <1>3, <1>6, <3>1 DEF Positions, s
  <2>7. \A p \in Positions : \E q \in 1..Len(u) : u[q].id = s[p].id
    <3> TAKE p \in Positions
    <3>1. p \in 1..Len(s)
      BY DEF Positions, s
    <3>2. CASE p <= Current
      <4>1. p \in 1..Len(u)
        BY <1>1, <1>3, <3>1
      <4> QED BY <2>1, <3>1, <3>2, <4>1
    <3>3. CASE p > Current
      <4>1. p + 1 \in 1..Len(u)
        BY <1>1, <1>3, <3>1
      <4> QED BY <2>1, <3>1, <3>3, <4>1
    <3> QED BY <1>3, <3>1, <3>2, <3>3
  <2>8. stepRows' = SaveSteps(stepRows, u, P)
    BY <1>1
  <2> HIDE DEF P
  <2> QED BY <2>4, <2>5, <2>6, <2>7, <2>8, SaveKeepsMirror DEF u, s
<1>9. /\ \A p \in 1..Len(u) : u[p].status = "pending" <=> p > Current
      /\ (\E p \in 1..Len(u) : u[p].status = "skipped") <=> t.cancel
  <2>1. \A p \in 1..Len(s) : (s[p].status = "pending" <=> p > state.idx) /\ s[p].status # "skipped"
    BY DEF AtExecutor, Positions, Some, s
  <2>2. ASSUME NEW q \in 1..Len(u)
        PROVE  /\ u[q].status = "pending" <=> q > Current
               /\ u[q].status = "skipped" <=> q = Current /\ t.cancel
    <3>1. CASE q = Current
      <4>1. u[q].status = status /\ status # "pending" /\ ~(q > Current)
        BY <1>3, <1>6, <3>1
      <4> QED BY <1>2, <3>1, <4>1
    <3>2. CASE q < Current
      BY <1>3, <1>6, <1>7, <2>1, <3>2
    <3>3. CASE q = Current + 1
      BY <1>3, <1>4, <1>6, <3>3
    <3>4. CASE q > Current + 1
      <4>1. q - 1 > Current /\ q - 1 \in 1..Len(s) /\ u[q] = s[q - 1]
        <5>1. q - 1 > Current /\ q - 1 \in 1..Len(s) /\ (q - 1) + 1 = q
          BY <1>3, <1>7, <3>4
        <5> QED BY <1>6, <5>1
      <4> QED BY <1>3, <2>1, <3>4, <4>1
    <3> QED BY <1>3, <3>1, <3>2, <3>3, <3>4
  <2>3. Current \in 1..Len(u)
    BY <1>1, <1>3
  <2> QED BY <2>2, <2>3
<1>10. pc' = "executor" /\ Current < Len(u)
  BY <1>1, <1>3 DEF CheckNextStep
<1>11. ~state.cancel /\ task.pending = "none"
  BY DEF AtExecutor
<1>12. AtExecutor'
  BY <1>1, <1>3, <1>9, <1>10, <1>11 DEF AtExecutor, Some, Positions, u
<1> QED BY <1>1, <1>8, <1>10, <1>12 DEF Kept

LEMMA ExecutorCourse ==
    ASSUME Types, Course, Executor
    PROVE  Course'
<1> SUFFICES ASSUME ~state'.error PROVE Course'
  BY DEF Course
<1>1. pc = "executor"
  BY DEF Executor, NoStep, CancelBefore, ExecuteStep, Enter
<1>2. ASSUME ~state.error PROVE AtExecutor /\ Mirror
  BY <1>1, <1>2 DEF Course
<1>3. CASE NoStep
  <2>1. state' = [state EXCEPT !.idx = @ + 1] /\ state.idx >= Len(task.steps)
        /\ state \in StateType /\ Len(task.steps) \in Nat
    BY <1>3, TypesGive DEF NoStep
  <2>2. ~state.error /\ state.idx \in Nat
    BY <2>1 DEF StateType
  <2> QED BY <1>2, <2>1, <2>2 DEF AtExecutor
<1>4. CASE CancelBefore
  <2>1. /\ CancelRest(task, Current) /\ task \in TaskType /\ state.idx < Len(task.steps)
        /\ Current \in Nat /\ Current = state.idx + 1 /\ state.idx \in Nat
        /\ Len(task.steps) \in Nat /\ \A p \in Positions : p \in Nat
    BY <1>4, TypesGive DEF CancelBefore, Current, StateType, Positions
  <2>2. ~state.error
    BY <2>1, CancelRestFacts DEF Kept
  <2>3. Current \in Positions /\ task.steps[Current].status = "pending"
    BY <1>2, <2>1, <2>2 DEF AtExecutor, Positions
  <2>4. \A p \in Positions : p < Current => task.steps[p].status # "pending"
    BY <1>2, <2>1, <2>2 DEF AtExecutor
  <2>5. \E p \in Positions : \/ task.steps[p].status = "skipped"
                             \/ p >= Current /\ task.steps[p].status = "pending"
    BY <2>1, <2>3
  <2>6. pc' = "solver" /\ AtSolver' /\ Mirror'
    <3>1. Current >= Current
      BY <2>1
    <3> QED BY <1>2, <2>1, <2>2, <2>4, <2>5, <3>1, CancelCourse
  <2> QED BY <2>6 DEF Course
<1>5. CASE ExecuteStep
  <2>1. Current \in Positions /\ ~task.cancel
    BY <1>5, ExecuteStepSplits
  <2>2. PICK t \in TaskType, stats \in Stats : Settles(t) /\ GoesOn(t, stats)
    BY <1>5, ExecuteStepSplits
  <2>3. /\ Len(t.steps) = Len(task.steps) /\ t.pending = task.pending
        /\ \A p \in Positions : t.steps[p].id = task.steps[p].id
        /\ \A p \in Positions \ {Current} : t.steps[p] = task.steps[p]
    BY <2>1, <2>2, SettledIds DEF Settles
  <2>4. Current = state.idx + 1 /\ state.idx \in Nat /\ Current \in Nat /\ Current + 1 \in Nat
        /\ \A p \in Positions : p \in Nat
    BY TypesGive DEF Current, StateType, Positions
  <2>5. CASE RetryStep(t, stats)
    <3>1. ~state.error
      BY <2>1, <2>3, <2>5, RetryStepFacts DEF Kept
    <3>2. pc' = "executor" /\ AtExecutor' /\ Mirror'
      BY <1>2, <2>1, <2>2, <2>5, <3>1, RetryCourse
    <3> QED BY <3>2 DEF Course
  <2>6. CASE ControlledReplan(t, stats) \/ DefaultReplan(t)
    <3>1. pc' = "planner" /\ state'.replanning
      BY <2>6, ControlledReplanFacts, DefaultReplanFacts
    <3> QED BY <3>1 DEF Course
  <2>7. CASE t.cancel /\ CancelRest(t, Current + 1)
    <3>1. ~state.error
      BY <2>3, <2>4, <2>7, CancelRestFacts DEF Kept
    <3>2. t.steps[Current].status = "skipped"
      <4>1. PICK status \in {"success", "failed", "skipped"} :
                /\ t.steps[Current] = [task.steps[Current] EXCEPT !.status = status]
                /\ t.cancel <=> status = "skipped"
        BY <2>2 DEF Settles
      <4>2. task.steps[Current] \in Step /\ status = "skipped"
        BY <2>1, <2>7, <4>1, TypesGive
      <4> QED BY <4>1, <4>2 DEF Step
    <3>3. \A p \in Positions : p < Current + 1 => t.steps[p].status # "pending"
      <4> TAKE p \in Positions
      <4>1. CASE p = Current
        BY <3>2, <4>1
      <4>2. CASE p < Current
        <5>1. p # Current /\ ~(p > state.idx)
          BY <2>4, <4>2
        <5> QED BY <1>2, <2>3, <3>1, <5>1 DEF AtExecutor
      <4> QED BY <2>4, <4>1, <4>2
    <3>4. \A p \in Positions : p < Current => t.steps[p] = task.steps[p]
      BY <2>3, <2>4
    <3>5. Current + 1 >= Current
      BY <2>4
    <3>6. \E p \in Positions : \/ t.steps[p].status = "skipped"
                               \/ p >= Current + 1 /\ t.steps[p].status = "pending"
      BY <2>1, <3>2
    <3>7. pc' = "solver" /\ AtSolver' /\ Mirror'
      BY <1>2, <2>3, <2>4, <2>7, <3>1, <3>3, <3>4, <3>5, <3>6, CancelCourse
    <3> QED BY <3>7 DEF Course
  <2>8. CASE ~t.cancel /\ FinishStep(t, stats)
    <3>1. ~state.error
      BY <2>8, FinishStepFacts DEF Kept
    <3>2. \/ pc' = "executor" /\ AtExecutor' /\ Mirror'
          \/ pc' = "solver" /\ AtSolver' /\ Mirror'
      BY <1>2, <2>1, <2>2, <2>8, <3>1, FinishCourse
    <3> QED BY <3>2 DEF Course
  <2> QED BY <2>2, <2>5, <2>6, <2>7, <2>8 DEF GoesOn
<1> QED BY <1>3, <1>4, <1>5 DEF Executor

\* The solver keeps the status the steps call for, the reviewer gives it to the row.
LEMMA SolverCourse ==
    ASSUME Types, Course, Solver
    PROVE  Course'
<1> SUFFICES ASSUME ~state'.error PROVE Course'
  BY DEF Course
<1>1. /\ SameSteps /\ pc = "solver" /\ pc' = "reviewer"
      /\ ~state.error =>
            \/ state.cancel /\ task'.status = "canceled" /\ task'.pending = task.pending
            \/ ~state.cancel /\ task'.pending = DeriveStatus(task)
  BY SolverFacts
<1>2. ~state.error /\ AtSolver /\ Mirror
  BY <1>1 DEF SameSteps, Course
<1>3. Mirror'
  BY <1>1, <1>2, MirrorUnchanged DEF SameSteps
<1>4. \A status : Some(status)' <=> Some(status)
  BY <1>1, SomeUnchanged DEF SameSteps
<1>5. CASE state.cancel
  <2>1. Some("skipped") /\ ~Some("pending") /\ task'.status = "canceled" /\ task'.pending = "none"
    BY <1>1, <1>2, <1>5 DEF AtSolver
  <2>2. AtReviewer'
    BY <1>4, <2>1 DEF AtReviewer
  <2> QED BY <1>1, <1>3, <2>2 DEF Course
<1>6. CASE ~state.cancel
  <2>1. ~Some("skipped") /\ ~Some("pending") /\ ~task.cancel /\ task'.pending = DeriveStatus(task)
    BY <1>1, <1>2, <1>6 DEF AtSolver
  <2>2. DeriveStatus(task) = IF Some("failed") THEN "partial" ELSE "success"
    BY <2>1 DEF DeriveStatus, Some, Positions
  <2>3. task'.pending = IF Some("failed")' THEN "partial" ELSE "success"
    BY <1>4, <2>1, <2>2
  <2>4. AtReviewer'
    BY <1>4, <2>1, <2>3 DEF AtReviewer
  <2> QED BY <1>1, <1>3, <2>4 DEF Course
<1> QED BY <1>5, <1>6

LEMMA ReviewerCourse ==
    ASSUME Types, Course, Reviewer
    PROVE  Course'
<1> SUFFICES ASSUME ~state'.error PROVE Course'
  BY DEF Course
<1>1. /\ SameSteps /\ pc = "reviewer"
      /\ \/ pc' = "planner" /\ state'.replanning
         \/ /\ pc' = "end" /\ row' = SavedTask(task')
            /\ task'.status = IF task.pending = "none" THEN task.status ELSE task.pending
  BY ReviewerFacts
<1>2. ~state.error /\ AtReviewer /\ Mirror
  BY <1>1 DEF SameSteps, Course
<1>3. CASE pc' = "planner" /\ state'.replanning
  BY <1>3 DEF Course
<1>4. CASE pc' = "end" /\ row' = SavedTask(task')
           /\ task'.status = IF task.pending = "none" THEN task.status ELSE task.pending
  <2>1. Mirror'
    BY <1>1, <1>2, MirrorUnchanged DEF SameSteps
  <2>2. \A status : Some(status)' <=> Some(status)
    BY <1>1, SomeUnchanged DEF SameSteps
  <2>3. row'.status = task'.status
    BY <1>4 DEF SavedTask
  <2>4. CASE Some("skipped")
    <3>1. row'.status = "canceled"
      BY <1>2, <1>4, <2>3, <2>4 DEF AtReviewer
    <3>2. AtEnd'
      BY <1>2, <2>2, <2>4, <3>1 DEF AtEnd, AtReviewer
    <3> QED BY <1>4, <2>1, <3>2 DEF Course
  <2>5. CASE ~Some("skipped")
    <3>1. task.pending = IF Some("failed") THEN "partial" ELSE "success"
      BY <1>2, <2>5 DEF AtReviewer
    <3>2. row'.status = IF Some("failed")' THEN "partial" ELSE "success"
      BY <1>4, <2>2, <2>3, <3>1
    <3>3. AtEnd'
      BY <1>2, <2>2, <2>5, <3>2 DEF AtEnd, AtReviewer
    <3> QED BY <1>4, <2>1, <3>3 DEF Course
  <2> QED BY <2>4, <2>5
<1> QED BY <1>1, <1>3, <1>4

LEMMA AsideCourse ==
    ASSUME Types, Course, Aside
    PROVE  Course'
<1>1. UNCHANGED <<task, state, row, stepRows>> /\ (pc' = pc \/ pc' \in {"raised", "exhausted"})
  BY AsideFacts
<1>2. CASE pc' = pc
  BY <1>1, <1>2
     DEF Course, AtDecision, AtExecutor, AtSolver, AtReviewer, AtEnd, Mirror, Some, Positions
<1>3. CASE pc' \in {"raised", "exhausted"}
  BY <1>3 DEF Course
<1> QED BY <1>1, <1>2, <1>3

\* What a run keeps at each node is an invariant.
THEOREM CourseHolds == Spec => []Course
<1>1. Init => Course
  BY InitCourse
<1>2. Types /\ Course /\ [Next]_vars => Course'
  BY PlannerCourse, DecideCourse, ExecutorCourse, SolverCourse, ReviewerCourse, AsideCourse
     DEF Next, Aside
<1> QED BY <1>1, <1>2, TypesHold, PTL DEF Spec

\* Until the planner fails, the rows of agent_steps are those of the current plan.
THEOREM RowsMirrorSteps == Spec => []StepRowsMirror
<1>1. Course => StepRowsMirror
  BY DEF Course, StepRowsMirror, Mirror
<1> QED BY <1>1, CourseHolds, PTL

\* Until the planner fails, the solver answers with every step run or skipped.
THEOREM StepsAreSettled == Spec => []AllStepsSettled
<1>1. Course => AllStepsSettled
  BY DEF Course, AllStepsSettled, AtSolver, AtReviewer, AtEnd, Some, WithStatus
<1> QED BY <1>1, CourseHolds, PTL

\* Until the planner fails, a finished run leaves the status its steps call for.
THEOREM EndStatusIsDerived == Spec => []EndStatusDerived
<1>1. Course => EndStatusDerived
  BY DEF Course, EndStatusDerived, AtEnd, Some, WithStatus
<1> QED BY <1>1, CourseHolds, PTL

-----------------------------------------------------------------------------
(* The recursion limit.                                                     *)

\* The most nodes between a planner and the end of a review, without retries: a plan of
\* MaxSteps steps, one the decision adds, and the four other nodes.
Round == MaxSteps + 5

StepCount == Len(task.steps)

\* The nodes still to come in the current round.
Left == CASE pc = "planner"  -> Round
          [] pc = "decision" -> MaxSteps + 4
          [] pc = "executor" -> StepCount - state.idx + 2
          [] pc = "solver"   -> 2
          [] pc = "reviewer" -> 1

\* While neither the executor replanned nor the planner failed, what is left of the limit
\* suffices for the rounds and the retries that may follow.
Ample ==
    ~state.error /\ state.replans = 0 =>
        /\ pc # "exhausted"
        /\ pc \in Nodes =>
              /\ state.reviews <= MaxReviews
              /\ fuel >= (MaxReviews - state.reviews) * Round
                            + (MaxRemediations - state.remediations) + Left
        /\ pc = "decision" => Len(task.steps) <= MaxSteps

\* A step of a node that leaves reviews and replans alone uses one node of the round, or
\* spends a remediation on it.
LEMMA AmpleStep ==
    ASSUME Types, Ample, pc \in Nodes, fuel > 0, fuel' = fuel - 1,
           state'.error = state.error, state'.replans = state.replans,
           state'.reviews = state.reviews, state'.remediations \in Nat,
           Left \in Int, pc' # "exhausted", pc' # "decision",
           pc' \in Nodes => /\ Left' \in Int
                           /\ Left' + 1 - state'.remediations <= Left - state.remediations
    PROVE  Ample'
<1> SUFFICES ASSUME ~state'.error, state'.replans = 0, pc' \in Nodes
             PROVE  /\ state'.reviews <= MaxReviews
                    /\ fuel' >= (MaxReviews - state'.reviews) * Round
                                    + (MaxRemediations - state'.remediations) + Left'
  BY DEF Ample
<1> DEFINE rest == (MaxReviews - state.reviews) * Round
<1>1. /\ state.reviews \in Nat /\ state.remediations \in Nat /\ fuel \in Nat
      /\ MaxReviews \in Nat /\ MaxRemediations \in Nat /\ rest \in Int
  BY TypesGive, BoundsAssumption DEF StateType, Types, TypeOK, Round
<1>2. /\ state.reviews <= MaxReviews
      /\ fuel >= rest + (MaxRemediations - state.remediations) + Left
  BY DEF Ample
<1>3. rest = (MaxReviews - state'.reviews) * Round
  OBVIOUS
<1> HIDE DEF rest
<1> QED BY <1>1, <1>2, <1>3


LEMMA LeftAt ==
    ASSUME Types
    PROVE  /\ pc = "planner" => Left = Round
           /\ pc = "decision" => Left = MaxSteps + 4
           /\ pc = "executor" => Left = StepCount - state.idx + 2
           /\ pc = "solver" => Left = 2
           /\ pc = "reviewer" => Left = 1
           /\ pc \in Nodes => Left \in Int
<1>1. MaxSteps \in Nat /\ StepCount \in Nat /\ state.idx \in Nat
  BY TypesGive, BoundsAssumption DEF StateType, StepCount
<1> QED BY <1>1 DEF Left, Round, Nodes

LEMMA InitAmple ==
    ASSUME Init, RecursionLimit >= (MaxReviews + 1) * Round + MaxRemediations
    PROVE  Ample
<1>1. pc = "planner" /\ fuel = RecursionLimit /\ state.reviews = 0 /\ state.remediations = 0
  BY DEF Init, InitialState
<1>2. Left = Round /\ Round \in Nat /\ MaxReviews \in Nat /\ MaxRemediations \in Nat
      /\ RecursionLimit \in Nat
  BY <1>1, BoundsAssumption DEF Left, Round
<1>3. (MaxReviews + 1) * Round = MaxReviews * Round + Round /\ MaxReviews * Round \in Nat
  BY <1>2
<1> DEFINE rounds == MaxReviews * Round
<1>4. (MaxReviews - state.reviews) * Round = rounds
  BY <1>1, <1>2
<1>5. fuel >= rounds + (MaxRemediations - state.remediations) + Left
  <2> HIDE DEF rounds
  <2>1. RecursionLimit >= (rounds + Round) + MaxRemediations /\ rounds \in Nat
    BY <1>3 DEF rounds
  <2> QED BY <1>1, <1>2, <2>1
<1> QED BY <1>1, <1>2, <1>4, <1>5 DEF Ample

LEMMA PlannerAmple ==
    ASSUME Types, Ample, Planner
    PROVE  Ample'
<1> SUFFICES ASSUME ~state'.error PROVE Ample'
  BY DEF Ample
<1>1. CASE PlannerFails
  <2>1. state'.error = TRUE
    BY <1>1, TypesGive DEF PlannerFails, StateType
  <2> QED BY <2>1
<1>2. ASSUME NEW plan \in Plans, PlanSteps(plan) PROVE Ample'
  <2>1. /\ pc = "planner" /\ fuel > 0 /\ fuel' = fuel - 1 /\ pc' = "decision"
        /\ state'.error = state.error /\ state'.reviews = state.reviews
        /\ state'.remediations = state.remediations /\ state'.replans = state.replans
        /\ Len(task'.steps) <= MaxSteps
    BY <1>2, PlanFacts DEF PlanSteps, Enter, Kept
  <2> SUFFICES ASSUME ~state.error, state.replans = 0
               PROVE  /\ state.reviews <= MaxReviews
                      /\ fuel' >= (MaxReviews - state.reviews) * Round
                                      + (MaxRemediations - state.remediations) + Left'
    BY <2>1 DEF Ample
  <2>2. Left = Round /\ Round = MaxSteps + 5 /\ MaxSteps \in Nat /\ MaxReviews \in Nat
        /\ MaxRemediations \in Nat /\ state.reviews \in Nat /\ state.remediations \in Nat
        /\ fuel \in Nat
    BY <2>1, LeftAt, TypesGive, BoundsAssumption DEF Round, StateType, Types, TypeOK
  <2>3. Left' = MaxSteps + 4
    BY <2>1 DEF Left
  <2> DEFINE rest == (MaxReviews - state.reviews) * Round
  <2>4. state.reviews <= MaxReviews /\ rest \in Int
        /\ fuel >= rest + (MaxRemediations - state.remediations) + Left
    BY <2>1, <2>2 DEF Ample, Nodes
  <2> HIDE DEF rest
  <2>5. fuel' >= rest + (MaxRemediations - state.remediations) + Left'
    BY <2>1, <2>2, <2>3, <2>4
  <2> QED BY <2>4, <2>5 DEF rest
<1> QED BY <1>1, <1>2 DEF Planner

LEMMA DecideAmple ==
    ASSUME Types, Course, Ample, Decide
    PROVE  Ample'
<1> SUFFICES ASSUME ~state'.error, state'.replans = 0 PROVE Ample'
  BY DEF Ample
<1>1. /\ pc = "decision" /\ fuel > 0 /\ fuel' = fuel - 1 /\ pc' = "executor"
      /\ state'.error = state.error /\ state'.reviews = state.reviews
      /\ state'.remediations = state.remediations /\ state'.replans = state.replans
      /\ state'.idx = state.idx
  BY DecideFacts DEF Decide, Enter, Kept
<1>2. AtDecision /\ Len(task.steps) <= MaxSteps
  BY <1>1 DEF Course, Ample
<1>3. Len(task'.steps) <= Len(task.steps) + 1 /\ state'.idx = 0 /\ Len(task'.steps) \in Nat
  BY <1>1, <1>2, DecideFacts, LenProperties DEF AtDecision, TaskType
<1>4. state.remediations \in Nat /\ MaxSteps \in Nat /\ Len(task.steps) \in Nat
  BY TypesGive, BoundsAssumption DEF StateType
<1>5. Left = MaxSteps + 4 /\ Left' = StepCount' - state'.idx + 2
  BY <1>1 DEF Left
<1>7. StepCount' \in Nat /\ StepCount' <= MaxSteps + 1
  BY <1>2, <1>3, <1>4 DEF StepCount
<1>6. Left \in Int /\ Left' \in Int /\ Left' + 1 - state'.remediations <= Left - state.remediations
  BY <1>1, <1>3, <1>4, <1>5, <1>7
<1> QED BY <1>1, <1>4, <1>6, AmpleStep DEF Nodes

LEMMA ExecutorAmple ==
    ASSUME Types, Course, Ample, Executor
    PROVE  Ample'
<1> SUFFICES ASSUME ~state'.error, state'.replans = 0 PROVE Ample'
  BY DEF Ample
<1>1. pc = "executor" /\ fuel > 0 /\ fuel' = fuel - 1
  BY DEF Executor, NoStep, CancelBefore, ExecuteStep, Enter
<1>2. state.idx \in Nat /\ state.replans \in Nat /\ state.remediations \in Nat
      /\ StepCount \in Nat /\ state \in StateType
  BY TypesGive DEF StateType, StepCount
<1>3. Left = StepCount - state.idx + 2
  BY <1>1, LeftAt
<1>4. ASSUME ~state.error, state'.replans = state.replans, Kept, state'.remediations \in Nat,
             pc' = CheckNextStep(state'), ~state'.replanning,
             StepCount' \in Nat, state'.idx \in Nat,
             StepCount' + state.idx + state.remediations + 1
                <= StepCount + state'.idx + state'.remediations,
             state'.remediations >= state.remediations
      PROVE  Ample'
  <2>1. pc' \in {"executor", "solver"}
    BY <1>4 DEF CheckNextStep
  <2>2. state.idx < StepCount
    BY <1>1, <1>4 DEF Course, AtExecutor, StepCount
  <2>3. /\ state'.remediations \in Nat /\ StepCount' \in Nat /\ state'.idx \in Nat
        /\ StepCount' + state.idx + state.remediations + 1
                <= StepCount + state'.idx + state'.remediations
        /\ state'.remediations >= state.remediations
    BY <1>4
  <2>4. CASE pc' = "executor"
    <3>1. Left' = StepCount' - state'.idx + 2
      BY <2>4 DEF Left
    <3>2. Left' \in Int /\ Left' + 1 - state'.remediations <= Left - state.remediations
      BY <1>2, <1>3, <2>3, <3>1
    <3> QED BY <1>1, <1>2, <1>3, <1>4, <2>4, <3>2, AmpleStep DEF Nodes, Kept
  <2>5. CASE pc' = "solver"
    <3>1. Left' = 2
      BY <2>5 DEF Left
    <3>2. Left' \in Int /\ Left' + 1 - state'.remediations <= Left - state.remediations
      BY <1>2, <1>3, <2>2, <2>3, <3>1
    <3> QED BY <1>1, <1>2, <1>3, <1>4, <2>5, <3>2, AmpleStep DEF Nodes, Kept
  <2> QED BY <2>1, <2>4, <2>5
<1>5. CASE NoStep
  <2>1. state'.error = state.error /\ state.idx >= StepCount
    BY <1>2, <1>5 DEF NoStep, StateType, StepCount
  <2> QED BY <1>1, <1>2, <2>1 DEF Course, AtExecutor, StepCount
<1>6. ASSUME NEW t \in TaskType, NEW c \in Nat, CancelRest(t, c),
             Len(t.steps) = Len(task.steps)
      PROVE  Ample'
  <2>1. /\ Kept /\ pc' = CheckNextStep(state') /\ StepCount' = StepCount
        /\ state'.idx = StepCount /\ state'.replanning = state.replanning
        /\ state'.remediations = state.remediations /\ state'.replans = state.replans
    BY <1>6, CancelRestFacts DEF StepCount
  <2>2. ~state.error
    BY <2>1 DEF Kept
  <2>3. ~state.replanning /\ state.idx < StepCount
    BY <1>1, <2>2 DEF Course, AtExecutor, StepCount
  <2>4. /\ state'.remediations \in Nat /\ StepCount' \in Nat /\ state'.idx \in Nat
        /\ StepCount' + state.idx + state.remediations + 1
                <= StepCount + state'.idx + state'.remediations
        /\ state'.remediations >= state.remediations
    <3>1. /\ StepCount' = StepCount /\ state'.idx = StepCount
          /\ state'.remediations = state.remediations
      BY <2>1
    <3> QED BY <1>2, <2>3, <3>1
  <2> QED BY <1>4, <2>1, <2>2, <2>3, <2>4
<1>7. CASE CancelBefore
  <2>1. CancelRest(task, Current) /\ task \in TaskType /\ Current \in Nat
    BY <1>2, <1>7, TypesGive DEF CancelBefore, Current
  <2> QED BY <1>6, <2>1
<1>8. CASE ExecuteStep
  <2>1. PICK t \in TaskType, stats \in Stats : Settles(t) /\ GoesOn(t, stats)
    BY <1>8, ExecuteStepSplits
  <2>2. Len(t.steps) = Len(task.steps) /\ Current \in Positions
        /\ Current = state.idx + 1 /\ Current + 1 \in Nat
    BY <1>2, <1>8, <2>1, ExecuteStepSplits DEF Settles, Current
  <2>3. CASE RetryStep(t, stats)
    <3>1. /\ Kept /\ pc' = CheckNextStep(state') /\ StepCount' = StepCount + 1
          /\ state'.idx = Current /\ ~state'.replanning
          /\ state'.remediations = state.remediations + 1 /\ state'.replans = state.replans
      BY <2>2, <2>3, RetryStepFacts DEF StepCount
    <3>2. ~state.error
      BY <3>1 DEF Kept
    <3>3. /\ state'.remediations \in Nat /\ StepCount' \in Nat /\ state'.idx \in Nat
          /\ StepCount' + state.idx + state.remediations + 1
                <= StepCount + state'.idx + state'.remediations
          /\ state'.remediations >= state.remediations
      <4>1. StepCount' = StepCount + 1 /\ state'.idx = state.idx + 1
            /\ state'.remediations = state.remediations + 1
        BY <2>2, <3>1
      <4> QED BY <1>2, <4>1
    <3> QED BY <1>4, <3>1, <3>2, <3>3
  <2>4. CASE ControlledReplan(t, stats) \/ DefaultReplan(t)
    <3>1. state'.replans = state.replans + 1
      BY <2>4, ControlledReplanFacts, DefaultReplanFacts
    <3> QED BY <1>2, <3>1
  <2>5. CASE t.cancel /\ CancelRest(t, Current + 1)
    BY <1>6, <2>2, <2>5
  <2>6. CASE ~t.cancel /\ FinishStep(t, stats)
    <3>1. /\ Kept /\ pc' = CheckNextStep(state') /\ StepCount' = StepCount
          /\ state'.idx = Current /\ ~state'.replanning
          /\ state'.remediations = state.remediations /\ state'.replans = state.replans
      BY <2>2, <2>6, FinishStepFacts DEF StepCount
    <3>2. ~state.error
      BY <3>1 DEF Kept
    <3>3. /\ state'.remediations \in Nat /\ StepCount' \in Nat /\ state'.idx \in Nat
          /\ StepCount' + state.idx + state.remediations + 1
                <= StepCount + state'.idx + state'.remediations
          /\ state'.remediations >= state.remediations
      <4>1. StepCount' = StepCount /\ state'.idx = state.idx + 1
            /\ state'.remediations = state.remediations
        BY <2>2, <3>1
      <4> QED BY <1>2, <4>1
    <3> QED BY <1>4, <3>1, <3>2, <3>3
  <2> QED BY <2>1, <2>3, <2>4, <2>5, <2>6 DEF GoesOn
<1> QED BY <1>5, <1>7, <1>8 DEF Executor

LEMMA SolverAmple ==
    ASSUME Types, Ample, Solver
    PROVE  Ample'
<1>1. /\ SameSteps /\ pc = "solver" /\ pc' = "reviewer" /\ fuel > 0 /\ fuel' = fuel - 1
      /\ state'.reviews = state.reviews
  BY SolverFacts
<1>2. Left = 2 /\ Left' = 1 /\ state.remediations \in Nat
  BY <1>1, TypesGive DEF Left, StateType
<1>3. Left' + 1 - state'.remediations <= Left - state.remediations
  BY <1>1, <1>2 DEF SameSteps
<1> QED BY <1>1, <1>2, <1>3, AmpleStep DEF Nodes, SameSteps

LEMMA ReviewerAmple ==
    ASSUME Types, Ample, Reviewer, MaxReviews # 0
    PROVE  Ample'
<1>1. /\ SameSteps /\ pc = "reviewer" /\ fuel > 0 /\ fuel' = fuel - 1
      /\ \/ pc' = "planner" /\ ~AtReviewLimit /\ state'.reviews = state.reviews + 1
         \/ pc' = "end"
  BY ReviewerFacts
<1>2. CASE pc' = "end"
  BY <1>2 DEF Ample, Nodes
<1>3. CASE pc' = "planner" /\ ~AtReviewLimit /\ state'.reviews = state.reviews + 1
  <2> SUFFICES ASSUME ~state'.error, state'.replans = 0
               PROVE  /\ state'.reviews <= MaxReviews
                      /\ fuel' >= (MaxReviews - state'.reviews) * Round
                                      + (MaxRemediations - state'.remediations) + Left'
    BY <1>3 DEF Ample
  <2>1. Left = 1 /\ Left' = Round /\ Round \in Nat /\ MaxReviews \in Nat /\ fuel \in Nat
        /\ MaxRemediations \in Nat /\ state.reviews \in Nat /\ state.remediations \in Nat
    BY <1>1, <1>3, TypesGive, BoundsAssumption DEF Left, Round, StateType, Types, TypeOK
  <2>2. state'.reviews <= MaxReviews
    BY <1>3, <2>1 DEF AtReviewLimit
  <2> DEFINE rest == (MaxReviews - state'.reviews) * Round
  <2>3. (MaxReviews - state.reviews) * Round = rest + Round /\ rest \in Int
    <3>1. \A m \in Int, n \in Nat : m * n = (m - 1) * n + n /\ (m - 1) * n \in Int
      OBVIOUS
    <3>2. MaxReviews - state'.reviews = (MaxReviews - state.reviews) - 1
      BY <1>3, <2>1
    <3>3. MaxReviews - state.reviews \in Int
      BY <2>1
    <3> QED BY <2>1, <3>1, <3>2, <3>3
  <2>4. fuel >= (MaxReviews - state.reviews) * Round + (MaxRemediations - state.remediations) + Left
    BY <1>1 DEF Ample, SameSteps, Nodes
  <2> HIDE DEF rest
  <2>5. fuel >= (rest + Round) + (MaxRemediations - state.remediations) + Left
    BY <2>3, <2>4
  <2>6. fuel' >= rest + (MaxRemediations - state'.remediations) + Left'
    BY <1>1, <2>1, <2>3, <2>5 DEF SameSteps
  <2> QED BY <2>2, <2>6 DEF rest
<1> QED BY <1>1, <1>2, <1>3

LEMMA AsideAmple ==
    ASSUME Types, Retries, Course, Ample, Aside
    PROVE  Ample'
<1>1. UNCHANGED <<task, state>>
  BY AsideFacts
<1>2. CASE NodeRaises
  BY <1>2 DEF NodeRaises, Ample, Nodes
<1>3. CASE Exhausted
  <2> SUFFICES ASSUME ~state.error, state.replans = 0 PROVE FALSE
    BY <1>1 DEF Ample
  <2>1. pc \in Nodes /\ fuel = 0
    BY <1>3 DEF Exhausted
  <2>2. /\ state.reviews <= MaxReviews
        /\ fuel >= (MaxReviews - state.reviews) * Round + (MaxRemediations - state.remediations) + Left
    BY <2>1 DEF Ample
  <2>3. /\ MaxReviews \in Nat /\ state.reviews \in Nat /\ MaxRemediations \in Nat
        /\ state.remediations \in Nat /\ MaxSteps \in Nat /\ Round \in Nat
        /\ state.idx \in Nat /\ StepCount \in Nat
    BY TypesGive, BoundsAssumption DEF StateType, Round, StepCount
  <2>4. state.remediations <= MaxRemediations
    BY DEF Retries, RemediationBounded
  <2> DEFINE rest == (MaxReviews - state.reviews) * Round
  <2>5. rest \in Nat
    BY <2>2, <2>3
  <2>6. Left \in Int /\ Left >= 1
    <3>1. pc = "executor" => state.idx < StepCount
      BY DEF Course, AtExecutor, StepCount
    <3> QED BY <2>1, <2>3, <3>1, LeftAt DEF Nodes, Round
  <2> HIDE DEF rest
  <2>7. fuel >= rest + (MaxRemediations - state.remediations) + Left
    BY <2>2 DEF rest
  <2> QED BY <2>1, <2>3, <2>4, <2>5, <2>6, <2>7
<1>4. CASE Cancel \/ UNCHANGED vars
  <2>1. UNCHANGED <<pc, fuel>>
    BY <1>4 DEF Cancel, vars
  <2> QED BY <1>1, <2>1 DEF Ample, Left, StepCount
<1> QED BY <1>2, <1>3, <1>4 DEF Aside

\* With a limit that pays for the first round, one more for every failed review and the
\* retries, only a replan of the executor or a failure of the planner exhausts it.
THEOREM LimitIsEnough ==
    ASSUME MaxReviews # 0, RecursionLimit >= (MaxReviews + 1) * Round + MaxRemediations
    PROVE  Spec => []LimitNeedsReplan
<1>1. Init => Ample
  BY InitAmple
<1>2. Types /\ Retries /\ Course /\ Ample /\ [Next]_vars => Ample'
  BY PlannerAmple, DecideAmple, ExecutorAmple, SolverAmple, ReviewerAmple, AsideAmple
     DEF Next, Aside
<1>3. Types /\ Ample => LimitNeedsReplan
  <2>1. Types => state.replans \in Nat
    BY TypesGive DEF StateType
  <2> QED BY <2>1 DEF Ample, LimitNeedsReplan
<1> QED BY <1>1, <1>2, <1>3, TypesHold, RetriesHold, CourseHolds, PTL DEF Spec
-----------------------------------------------------------------------------
(* The outline of a run.                                                    *)

\* What the run needs that its outline does not have: the edge after the executor counts
\* the steps of the task, and a run that noticed its cancellation has it on the task.
Agrees == state.legacy = Len(task.steps) /\ (state.cancel => task.cancel)

RunFields == {"node", "status", "pending", "cancel", "error", "replan"}

\* The outline has these fields, and the view of the run gives them.
LEMMA ViewFields ==
    /\ View = [f \in RunFields |-> View[f]]
    /\ View.node = NodeName /\ View.status = task.status /\ View.pending = task.pending
    /\ View.cancel = task.cancel /\ View.error = state.error /\ View.replan = state.replanning
BY DEF View, RunFields

\* The view becomes the record whose fields it gets.
LEMMA ViewBecomes ==
    ASSUME NEW new, new = [f \in RunFields |-> new[f]],
           NodeName' = new.node, task'.status = new.status, task'.pending = new.pending,
           task'.cancel = new.cancel, state'.error = new.error, state'.replanning = new.replan
    PROVE  Graph!Becomes("run", new)
<1>1. View' = [f \in RunFields |-> View'[f]]
  BY DEF View, RunFields
<1>2. \A f \in RunFields : View'[f] = new[f]
  BY DEF View, RunFields
<1>3. View' = new
  BY <1>1, <1>2
<1> QED BY <1>3 DEF Graph!Becomes

\* The one run among the runs of the graph is this one.
LEMMA OneRun == \A node : Graph!At("run", node) <=> NodeName = node
BY DEF Graph!At, View

\* A node's step is the outline's step when its fields are.
LEMMA StepIsRunStep ==
    ASSUME Graph!Step("run") \/ Graph!Raise("run")
    PROVE  Graph!Next
BY DEF Graph!Next

LEMMA InitFollows == Init => Graph!Init
<1> SUFFICES ASSUME Init PROVE Graph!Init
  OBVIOUS
<1> DEFINE new == Graph!Fresh
<1>0. /\ new = [f \in RunFields |-> new[f]]
      /\ new.node = "plan" /\ new.status = "running" /\ new.pending = "none"
      /\ new.cancel = FALSE /\ new.error = FALSE /\ new.replan = FALSE
  BY DEF RunFields, Graph!Fresh, Graph!Idle
<1> HIDE DEF new
<1>1. /\ NodeName = "plan" /\ task.status = "running" /\ task.pending = "none"
      /\ task.cancel = FALSE /\ state.error = FALSE /\ state.replanning = FALSE
  BY DEF Init, NodeName, InitialTask, InitialState
<1>2. View = Graph!Fresh
  <2>1. \A f \in RunFields : View[f] = new[f]
    BY <1>0, <1>1, ViewFields DEF RunFields
  <2>2. View = new
    BY <1>0, <2>1, ViewFields
  <2> QED BY <2>2 DEF new
<1>3. [r \in {"run"} |-> View] = [r \in {"run"} |-> IF r = "run" THEN Graph!Fresh ELSE Graph!Idle]
  BY <1>2
<1> QED BY <1>3 DEF Graph!Init

LEMMA PlannerFollows ==
    ASSUME Types, Agrees, Planner
    PROVE  Graph!Next /\ Agrees'
<1>1. CASE PlannerFails
  <2>1. /\ pc = "planner" /\ pc' = "decision" /\ task' = task
        /\ state' = [state EXCEPT !.error = TRUE] /\ state \in StateType
    BY <1>1, TypesGive DEF PlannerFails, Enter
  <2>2. /\ state'.error = TRUE /\ state'.replanning = state.replanning
        /\ state'.legacy = state.legacy /\ state'.cancel = state.cancel
    BY <2>1 DEF StateType
  <2>3. Agrees'
    BY <2>1, <2>2 DEF Agrees
  <2>4. NodeName = "plan" /\ NodeName' = "decide"
    BY <2>1 DEF NodeName
  <2> DEFINE new == [View EXCEPT !.node = "decide", !.error = TRUE]
  <2>5. /\ new = [f \in RunFields |-> new[f]]
        /\ new.node = "decide" /\ new.status = task.status /\ new.pending = task.pending
        /\ new.cancel = task.cancel /\ new.error = TRUE /\ new.replan = state.replanning
    BY ViewFields DEF RunFields
  <2> HIDE DEF new
  <2>6. Graph!Becomes("run", new)
    BY <2>1, <2>2, <2>4, <2>5, ViewBecomes
  <2>7. Graph!PlanFails("run")
    BY <2>4, <2>6, OneRun DEF Graph!PlanFails, new
  <2> QED BY <2>3, <2>7, StepIsRunStep DEF Graph!Step
<1>2. ASSUME NEW plan \in Plans, PlanSteps(plan) PROVE Graph!Next /\ Agrees'
  <2>1. /\ pc' = "decision" /\ Kept /\ Len(task'.steps) = Len(plan) /\ state'.legacy = Len(plan)
        /\ ~task'.cancel /\ task'.pending = "none" /\ task'.status = "running"
        /\ ~state'.replanning /\ ~state'.cancel
        /\ task' \in TaskType /\ state' \in StateType
    BY <1>2, PlanFacts
  <2>2. pc = "planner"
    BY <1>2 DEF PlanSteps, Enter
  <2>3. Agrees'
    BY <2>1 DEF Agrees
  <2>4. NodeName = "plan" /\ NodeName' = "decide"
    BY <2>1, <2>2 DEF NodeName
  <2>5. task'.cancel = FALSE /\ state'.replanning = FALSE /\ state'.error = state.error
    BY <2>1 DEF Kept, TaskType, StateType
  <2> DEFINE new == [Graph!Fresh EXCEPT !.node = "decide", !.error = View.error]
  <2>6. /\ new = [f \in RunFields |-> new[f]]
        /\ new.node = "decide" /\ new.status = "running" /\ new.pending = "none"
        /\ new.cancel = FALSE /\ new.error = state.error /\ new.replan = FALSE
    BY ViewFields DEF RunFields, Graph!Fresh, Graph!Idle
  <2> HIDE DEF new
  <2>7. Graph!Becomes("run", new)
    BY <2>1, <2>4, <2>5, <2>6, ViewBecomes
  <2>8. Graph!Plan("run")
    BY <2>4, <2>7, OneRun DEF Graph!Plan, new
  <2> QED BY <2>3, <2>8, StepIsRunStep DEF Graph!Step
<1> QED BY <1>1, <1>2 DEF Planner
LEMMA DecideFollows ==
    ASSUME Types, Agrees, Decide
    PROVE  Graph!Next /\ Agrees'
<1>1. /\ pc' = "executor" /\ Kept /\ state'.legacy = Len(task'.steps)
      /\ task'.cancel = task.cancel /\ task'.pending = task.pending /\ task'.status = task.status
      /\ state'.replanning = state.replanning /\ state'.cancel = state.cancel
  BY DecideFacts
<1>2. pc = "decision"
  BY DEF Decide, Enter
<1>3. Agrees'
  BY <1>1 DEF Agrees
<1>4. NodeName = "decide" /\ NodeName' = "step"
  BY <1>1, <1>2 DEF NodeName
<1> DEFINE new == [View EXCEPT !.node = "step"]
<1>5. /\ new = [f \in RunFields |-> new[f]]
      /\ new.node = "step" /\ new.status = task.status /\ new.pending = task.pending
      /\ new.cancel = task.cancel /\ new.error = state.error /\ new.replan = state.replanning
  BY ViewFields DEF RunFields
<1> HIDE DEF new
<1>6. Graph!Becomes("run", new)
  BY <1>1, <1>4, <1>5, ViewBecomes DEF Kept
<1>7. Graph!Decide("run")
  BY <1>4, <1>6, OneRun DEF Graph!Decide, new
<1> QED BY <1>3, <1>7, StepIsRunStep DEF Graph!Step

\* With no step left the run goes where the outline sends it.
LEMMA DoneGoesOn ==
    ASSUME Types, Agrees, pc' = CheckNextStep(state'), state'.idx \in Nat,
           state'.idx >= Len(task.steps), state'.legacy = state.legacy,
           state'.replanning = state.replanning
    PROVE  NodeName' = Graph!WhenDone("run")
<1>1. state.legacy = Len(task.steps) /\ Len(task.steps) \in Nat
  BY TypesGive DEF Agrees
<1>2. ~(state'.idx < state'.legacy)
  BY <1>1
<1>3. pc' = IF state.replanning THEN "planner" ELSE "solver"
  BY <1>2 DEF CheckNextStep
<1>4. NodeName' = IF state.replanning THEN "plan" ELSE "solve"
  BY <1>3 DEF NodeName
<1> QED BY <1>4 DEF Graph!WhenDone, View

LEMMA NoStepFollows ==
    ASSUME Types, Agrees, NoStep
    PROVE  Graph!Next /\ Agrees'
<1>1. /\ state' = [state EXCEPT !.idx = @ + 1] /\ state.idx >= Len(task.steps)
      /\ pc = "executor" /\ pc' = CheckNextStep(state') /\ task' = task
      /\ state \in StateType /\ Len(task.steps) \in Nat
  BY TypesGive DEF NoStep, Enter
<1>2. /\ state'.idx \in Nat /\ state'.idx >= Len(task.steps) /\ state'.legacy = state.legacy
      /\ state'.replanning = state.replanning /\ state'.error = state.error
      /\ state'.cancel = state.cancel
  BY <1>1 DEF StateType
<1>3. Agrees'
  BY <1>1, <1>2 DEF Agrees
<1>4. NodeName = "step" /\ NodeName' = Graph!WhenDone("run")
  BY <1>1, <1>2, DoneGoesOn DEF NodeName
<1> DEFINE new == [View EXCEPT !.node = Graph!WhenDone("run")]
<1>5. /\ new = [f \in RunFields |-> new[f]]
      /\ new.node = Graph!WhenDone("run") /\ new.status = task.status
      /\ new.pending = task.pending /\ new.cancel = task.cancel
      /\ new.error = state.error /\ new.replan = state.replanning
  BY ViewFields DEF RunFields
<1>6. Graph!NoStep("run") <=> Graph!At("run", "step") /\ Graph!Becomes("run", new)
  BY DEF Graph!NoStep, View
<1> HIDE DEF new
<1>7. Graph!Becomes("run", new)
  BY <1>1, <1>2, <1>4, <1>5, ViewBecomes
<1> QED BY <1>3, <1>4, <1>6, <1>7, OneRun, StepIsRunStep DEF Graph!Step

\* The rest of the plan is dropped, before a step or after one.
LEMMA CancelFollows ==
    ASSUME Types, Agrees, pc = "executor", NEW t \in TaskType, Len(t.steps) = Len(task.steps),
           t.pending = task.pending, NEW c \in Nat, CancelRest(t, c)
    PROVE  Graph!Next /\ Agrees'
<1>1. /\ Kept /\ pc' = CheckNextStep(state') /\ task' \in TaskType
      /\ task'.cancel /\ task'.pending = task.pending /\ task'.status = "canceled"
      /\ Len(task'.steps) = Len(task.steps) /\ state'.idx = Len(task.steps)
      /\ state'.legacy = state.legacy /\ state'.replanning = state.replanning
  BY CancelRestFacts
<1>2. Agrees'
  BY <1>1 DEF Agrees
<1>3. Len(task.steps) \in Nat /\ Len(task.steps) >= Len(task.steps)
  BY TypesGive
<1>4. NodeName = "step" /\ NodeName' = Graph!WhenDone("run")
  BY <1>1, <1>3, DoneGoesOn DEF NodeName
<1>5. task'.cancel = TRUE
  BY <1>1 DEF TaskType
<1> DEFINE new == [View EXCEPT !.node = Graph!WhenDone("run"), !.status = "canceled",
                               !.cancel = TRUE]
<1>6. /\ new = [f \in RunFields |-> new[f]]
      /\ new.node = Graph!WhenDone("run") /\ new.status = "canceled"
      /\ new.pending = task.pending /\ new.cancel = TRUE
      /\ new.error = state.error /\ new.replan = state.replanning
  BY ViewFields DEF RunFields
<1>7. Graph!StepsCanceled("run") <=> Graph!At("run", "step") /\ Graph!Becomes("run", new)
  BY DEF Graph!StepsCanceled, View
<1> HIDE DEF new
<1>8. Graph!Becomes("run", new)
  BY <1>1, <1>4, <1>5, <1>6, ViewBecomes DEF Kept
<1> QED BY <1>2, <1>4, <1>7, <1>8, OneRun, StepIsRunStep DEF Graph!Step

\* A step is repeated by a new step or by a new plan.
LEMMA RepeatFollows ==
    ASSUME Types, pc = "executor", ~task.cancel, task'.status = task.status,
           task'.pending = task.pending, task'.cancel \in BOOLEAN, state'.error = state.error,
           NEW again \in BOOLEAN, state'.replanning = again,
           pc' = IF again THEN "planner" ELSE "executor"
    PROVE  Graph!Next
<1>1. NodeName = "step" /\ NodeName' = IF again THEN "plan" ELSE "step"
  BY DEF NodeName
<1>2. PICK seen \in BOOLEAN : seen = task'.cancel
  OBVIOUS
<1> DEFINE new == [View EXCEPT !.node = IF again THEN "plan" ELSE "step",
                               !.cancel = seen, !.replan = again]
<1>3. /\ new = [f \in RunFields |-> new[f]]
      /\ new.node = (IF again THEN "plan" ELSE "step") /\ new.status = task.status
      /\ new.pending = task.pending /\ new.cancel = seen
      /\ new.error = state.error /\ new.replan = again
  BY ViewFields DEF RunFields
<1>4. Graph!At("run", "step") /\ ~View.cancel /\ Graph!Becomes("run", new)
         => Graph!Repeat("run")
  BY DEF Graph!Repeat, View
<1> HIDE DEF new
<1>5. Graph!Becomes("run", new)
  BY <1>1, <1>2, <1>3, ViewBecomes
<1>6. ~View.cancel
  BY ViewFields
<1> QED BY <1>1, <1>4, <1>5, <1>6, OneRun, StepIsRunStep DEF Graph!Step

\* Or the next one follows.
LEMMA FinishFollows ==
    ASSUME Types, pc = "executor", ~task.cancel, task'.status = task.status,
           task'.pending = task.pending, task'.cancel = FALSE, state'.error = state.error,
           state'.replanning = FALSE, pc' \in {"executor", "solver"}
    PROVE  Graph!Next
<1>1. NodeName = "step" /\ NodeName' \in {"step", "solve"}
  BY DEF NodeName
<1>2. PICK next \in {"step", "solve"} : next = NodeName'
  BY <1>1
<1> DEFINE new == [View EXCEPT !.node = next, !.replan = FALSE]
<1>3. /\ new = [f \in RunFields |-> new[f]]
      /\ new.node = next /\ new.status = task.status
      /\ new.pending = task.pending /\ new.cancel = task.cancel
      /\ new.error = state.error /\ new.replan = FALSE
  BY ViewFields DEF RunFields
<1>4. Graph!At("run", "step") /\ ~View.cancel /\ Graph!Becomes("run", new)
         => Graph!FinishStep("run")
  BY DEF Graph!FinishStep, View
<1> HIDE DEF new
<1>5. task'.cancel = task.cancel
  BY TypesGive DEF TaskType
<1>6. Graph!Becomes("run", new)
  BY <1>2, <1>3, <1>5, ViewBecomes
<1>7. ~View.cancel
  BY ViewFields
<1> QED BY <1>1, <1>4, <1>6, <1>7, OneRun, StepIsRunStep DEF Graph!Step

LEMMA ExecutorFollows ==
    ASSUME Types, Agrees, Executor
    PROVE  Graph!Next /\ Agrees'
<1>1. pc = "executor"
  BY DEF Executor, NoStep, CancelBefore, ExecuteStep, Enter
<1>2. /\ state.legacy = Len(task.steps) /\ Len(task.steps) \in Nat
      /\ Current = state.idx + 1 /\ state.idx \in Nat /\ Current \in Nat /\ Current + 1 \in Nat
      /\ task \in TaskType
  BY TypesGive DEF Agrees, Current, StateType
<1>3. CASE NoStep
  BY <1>3, NoStepFollows
<1>4. CASE CancelBefore
  <2>1. CancelRest(task, Current)
    BY <1>4 DEF CancelBefore
  <2> QED BY <1>1, <1>2, <2>1, CancelFollows
<1>5. CASE ExecuteStep
  <2>1. Current \in Positions /\ ~task.cancel
    BY <1>5, ExecuteStepSplits
  <2>2. PICK t \in TaskType, stats \in Stats : Settles(t) /\ GoesOn(t, stats)
    BY <1>5, ExecuteStepSplits
  <2>3. /\ Len(t.steps) = Len(task.steps) /\ t.pending = task.pending /\ t.status = task.status
        /\ t.cancel \in BOOLEAN /\ ~state.cancel
    BY <2>1, <2>2 DEF Settles, TaskType, Agrees
  <2>4. CASE RetryStep(t, stats)
    <3>1. /\ task' \in TaskType /\ state' \in StateType /\ Kept /\ pc' = CheckNextStep(state')
          /\ task'.cancel = t.cancel /\ task'.pending = t.pending /\ task'.status = t.status
          /\ Len(task'.steps) = Len(task.steps) + 1 /\ state'.idx = Current
          /\ state'.legacy = Len(task'.steps) /\ ~state'.replanning
          /\ state'.cancel = state.cancel
      BY <2>1, <2>3, <2>4, RetryStepFacts
    <3>2. Agrees'
      BY <2>3, <3>1 DEF Agrees
    <3>3. Current <= Len(task.steps)
      BY <1>2, <2>1 DEF Positions
    <3>4. state'.idx < state'.legacy
      BY <1>2, <3>1, <3>3
    <3>5. pc' = "executor" /\ state'.replanning = FALSE
      BY <3>1, <3>4 DEF CheckNextStep, StateType
    <3> DEFINE again == FALSE
    <3>6. again \in BOOLEAN /\ state'.replanning = again
          /\ pc' = IF again THEN "planner" ELSE "executor"
      BY <3>5
    <3> HIDE DEF again
    <3> QED BY <1>1, <2>1, <2>3, <3>1, <3>2, <3>6, RepeatFollows DEF Kept
  <2>5. CASE ControlledReplan(t, stats) \/ DefaultReplan(t)
    <3>1. /\ task' = t /\ state' \in StateType /\ Kept /\ pc' = "planner"
          /\ state'.replanning /\ state'.legacy = state.legacy /\ state'.cancel = state.cancel
      BY <2>5, ControlledReplanFacts, DefaultReplanFacts
    <3>2. Agrees'
      BY <1>2, <2>3, <3>1 DEF Agrees
    <3> DEFINE again == TRUE
    <3>3. again \in BOOLEAN /\ state'.replanning = again
          /\ pc' = IF again THEN "planner" ELSE "executor"
      BY <3>1 DEF StateType
    <3> HIDE DEF again
    <3> QED BY <1>1, <2>1, <2>3, <3>1, <3>2, <3>3, RepeatFollows DEF Kept
  <2>6. CASE t.cancel /\ CancelRest(t, Current + 1)
    BY <1>1, <1>2, <2>3, <2>6, CancelFollows
  <2>7. CASE ~t.cancel /\ FinishStep(t, stats)
    <3>1. /\ task' = t /\ state' \in StateType /\ Kept /\ pc' = CheckNextStep(state')
          /\ ~state'.replanning /\ state'.legacy = state.legacy /\ state'.cancel = state.cancel
      BY <2>7, FinishStepFacts
    <3>2. Agrees'
      BY <1>2, <2>3, <3>1 DEF Agrees
    <3>3. pc' \in {"executor", "solver"} /\ state'.replanning = FALSE /\ task'.cancel = FALSE
      BY <2>3, <2>7, <3>1 DEF CheckNextStep, StateType
    <3> QED BY <1>1, <2>1, <2>3, <3>1, <3>2, <3>3, FinishFollows DEF Kept
  <2> QED BY <2>2, <2>4, <2>5, <2>6, <2>7 DEF GoesOn
<1> QED BY <1>3, <1>4, <1>5 DEF Executor

\* The solver finds the two cancel flags in agreement, as no planner error is there.
LEMMA SolverFollows ==
    ASSUME Types, Agrees, Course, Solver
    PROVE  Graph!Next /\ Agrees'
<1>1. /\ pc = "solver" /\ pc' = "reviewer" /\ task \in TaskType /\ state \in StateType
  BY SolverFacts, TypesGive
<1>2. NodeName = "solve" /\ NodeName' = "review"
  BY <1>1 DEF NodeName
<1>3. CASE SolveError
  <2>1. /\ task' = [task EXCEPT !.status = "failed", !.answer = "error"] /\ state.error
        /\ state' = [state EXCEPT !.answer = "error"]
    BY <1>3 DEF SolveError, SolverReturns
  <2>2. /\ task'.status = "failed" /\ task'.pending = task.pending /\ task'.cancel = task.cancel
        /\ task'.steps = task.steps /\ state'.error = state.error
        /\ state'.replanning = state.replanning /\ state'.legacy = state.legacy
        /\ state'.cancel = state.cancel
    BY <1>1, <2>1 DEF TaskType, StateType
  <2>3. Agrees'
    BY <2>2 DEF Agrees
  <2> DEFINE new == [View EXCEPT !.node = "review", !.status = "failed"]
  <2>4. /\ new = [f \in RunFields |-> new[f]]
        /\ new.node = "review" /\ new.status = "failed" /\ new.pending = task.pending
        /\ new.cancel = task.cancel /\ new.error = state.error /\ new.replan = state.replanning
    BY ViewFields DEF RunFields
  <2>5. Graph!At("run", "solve") /\ View.error /\ Graph!Becomes("run", new)
           => Graph!SolveError("run")
    BY DEF Graph!SolveError, View
  <2> HIDE DEF new
  <2>6. Graph!Becomes("run", new)
    BY <1>2, <2>2, <2>4, ViewBecomes
  <2>7. View.error
    BY <2>1, ViewFields
  <2> QED BY <1>2, <2>3, <2>5, <2>6, <2>7, OneRun, StepIsRunStep DEF Graph!Step
<1>4. CASE SolveCanceled
  <2>1. /\ task' = [task EXCEPT !.cancel = TRUE, !.status = "canceled"]
        /\ state' = [state EXCEPT !.answer = task.answer] /\ ~state.error /\ state.cancel
    BY <1>4 DEF SolveCanceled, SolverReturns
  <2>2. task.cancel = TRUE
    BY <1>1, <2>1 DEF Agrees, TaskType
  <2>3. /\ task'.status = "canceled" /\ task'.pending = task.pending /\ task'.cancel = task.cancel
        /\ task'.steps = task.steps /\ state'.error = state.error
        /\ state'.replanning = state.replanning /\ state'.legacy = state.legacy
        /\ state'.cancel = state.cancel
    BY <1>1, <2>1, <2>2 DEF TaskType, StateType
  <2>4. Agrees'
    BY <2>3 DEF Agrees
  <2> DEFINE new == [View EXCEPT !.node = "review", !.status = "canceled"]
  <2>5. /\ new = [f \in RunFields |-> new[f]]
        /\ new.node = "review" /\ new.status = "canceled" /\ new.pending = task.pending
        /\ new.cancel = task.cancel /\ new.error = state.error /\ new.replan = state.replanning
    BY ViewFields DEF RunFields
  <2>6. Graph!At("run", "solve") /\ ~View.error /\ View.cancel /\ Graph!Becomes("run", new)
           => Graph!SolveCanceled("run")
    BY DEF Graph!SolveCanceled, View
  <2> HIDE DEF new
  <2>7. Graph!Becomes("run", new)
    BY <1>2, <2>3, <2>5, ViewBecomes
  <2>8. ~View.error /\ View.cancel
    BY <2>1, <2>2, ViewFields
  <2> QED BY <1>2, <2>4, <2>6, <2>7, <2>8, OneRun, StepIsRunStep DEF Graph!Step
<1>5. CASE Solve
  <2>1. /\ task' = [task EXCEPT !.status = "running", !.pending = DeriveStatus(task)]
        /\ state' = [state EXCEPT !.answer = "draft"] /\ ~state.error /\ ~state.cancel
    BY <1>5 DEF Solve, SolverReturns
  <2>2. ~task.cancel
    BY <1>1, <2>1 DEF Course, AtSolver
  <2>3. PICK verdict \in {"success", "partial"} : verdict = DeriveStatus(task)
    BY <2>2 DEF DeriveStatus
  <2>4. /\ task'.status = "running" /\ task'.pending = verdict /\ task'.cancel = task.cancel
        /\ task'.steps = task.steps /\ state'.error = state.error
        /\ state'.replanning = state.replanning /\ state'.legacy = state.legacy
        /\ state'.cancel = state.cancel
    BY <1>1, <2>1, <2>3 DEF TaskType, StateType
  <2>5. Agrees'
    BY <2>4 DEF Agrees
  <2> DEFINE new == [View EXCEPT !.node = "review", !.status = "running", !.pending = verdict]
  <2>6. /\ new = [f \in RunFields |-> new[f]]
        /\ new.node = "review" /\ new.status = "running" /\ new.pending = verdict
        /\ new.cancel = task.cancel /\ new.error = state.error /\ new.replan = state.replanning
    BY ViewFields DEF RunFields
  <2>7. Graph!At("run", "solve") /\ ~View.error /\ ~View.cancel /\ Graph!Becomes("run", new)
           => Graph!Solve("run")
    BY DEF Graph!Solve, View
  <2> HIDE DEF new
  <2>8. Graph!Becomes("run", new)
    BY <1>2, <2>4, <2>6, ViewBecomes
  <2>9. ~View.error /\ ~View.cancel
    BY <2>1, <2>2, ViewFields
  <2> QED BY <1>2, <2>5, <2>7, <2>8, <2>9, OneRun, StepIsRunStep DEF Graph!Step
<1> QED BY <1>3, <1>4, <1>5 DEF Solver

\* A review that ends the run takes the kept status, with either answer.
LEMMA ReviewEndFollows ==
    ASSUME Types, Agrees, pc = "reviewer", NEW answer, FinalizePass(answer), NEW n,
           state' = [state EXCEPT !.reviews = n, !.replanning = FALSE]
    PROVE  Graph!Next /\ Agrees'
<1> DEFINE status == IF task.pending = "none" THEN task.status ELSE task.pending
<1>1. /\ task' = [task EXCEPT !.answer = answer, !.pending = "none", !.status = status]
      /\ pc' = "end" /\ task \in TaskType /\ state \in StateType
  BY TypesGive DEF FinalizePass
<1> HIDE DEF status
<1>2. /\ task'.status = status /\ task'.pending = "none" /\ task'.cancel = task.cancel
      /\ task'.steps = task.steps /\ state'.error = state.error
      /\ state'.replanning = FALSE /\ state'.legacy = state.legacy
      /\ state'.cancel = state.cancel
  BY <1>1 DEF TaskType, StateType
<1>3. Agrees'
  BY <1>2 DEF Agrees
<1>4. NodeName = "review" /\ NodeName' = "over"
  BY <1>1 DEF NodeName
<1> DEFINE new == [View EXCEPT !.node = "over", !.pending = "none", !.replan = FALSE,
                               !.status = IF View.pending = "none" THEN @ ELSE View.pending]
<1>5. /\ new = [f \in RunFields |-> new[f]]
      /\ new.node = "over" /\ new.pending = "none"
      /\ new.cancel = task.cancel /\ new.error = state.error /\ new.replan = FALSE
  BY ViewFields DEF RunFields
<1>6. new.status = status
  BY ViewFields DEF RunFields, status
<1>7. Graph!At("run", "review") /\ Graph!Becomes("run", new) => Graph!ReviewEnds("run")
  BY DEF Graph!ReviewEnds, View
<1> HIDE DEF new
<1>8. Graph!Becomes("run", new)
  BY <1>2, <1>4, <1>5, <1>6, ViewBecomes
<1> QED BY <1>3, <1>4, <1>7, <1>8, OneRun, StepIsRunStep DEF Graph!Step

LEMMA ReviewerFollows ==
    ASSUME Types, Agrees, Reviewer
    PROVE  Graph!Next /\ Agrees'
<1>1. pc = "reviewer" /\ task \in TaskType /\ state \in StateType
  BY ReviewerFacts, TypesGive
<1>2. CASE ReviewFails
  <2>1. /\ state' = [state EXCEPT !.reviews = @ + 1, !.replanning = TRUE]
        /\ pc' = "planner" /\ task' = task
    BY <1>2 DEF ReviewFails
  <2>2. /\ state'.replanning = TRUE /\ state'.error = state.error
        /\ state'.legacy = state.legacy /\ state'.cancel = state.cancel
    BY <1>1, <2>1 DEF StateType
  <2>3. Agrees'
    BY <2>1, <2>2 DEF Agrees
  <2>4. NodeName = "review" /\ NodeName' = "plan"
    BY <1>1, <2>1 DEF NodeName
  <2> DEFINE new == [View EXCEPT !.node = "plan", !.replan = TRUE]
  <2>5. /\ new = [f \in RunFields |-> new[f]]
        /\ new.node = "plan" /\ new.status = task.status /\ new.pending = task.pending
        /\ new.cancel = task.cancel /\ new.error = state.error /\ new.replan = TRUE
    BY ViewFields DEF RunFields
  <2>6. Graph!At("run", "review") /\ Graph!Becomes("run", new) => Graph!ReviewFails("run")
    BY DEF Graph!ReviewFails, View
  <2> HIDE DEF new
  <2>7. Graph!Becomes("run", new)
    BY <2>1, <2>2, <2>4, <2>5, ViewBecomes
  <2> QED BY <2>3, <2>4, <2>6, <2>7, OneRun, StepIsRunStep DEF Graph!Step
<1>3. CASE ReviewPasses
  <2>1. /\ FinalizePass(state.answer)
        /\ state' = [state EXCEPT !.reviews = state.reviews, !.replanning = FALSE]
    BY <1>1, <1>3 DEF ReviewPasses, StateType
  <2> QED BY <1>1, <2>1, ReviewEndFollows
<1>4. CASE ReviewLimit
  <2>1. /\ FinalizePass("limit")
        /\ state' = [state EXCEPT !.reviews = state.reviews + 1, !.replanning = FALSE]
    BY <1>4 DEF ReviewLimit
  <2> QED BY <1>1, <2>1, ReviewEndFollows
<1> QED BY <1>2, <1>3, <1>4 DEF Reviewer

\* An exception and the limit end the run, the event is not the outline's.
LEMMA AsideFollows ==
    ASSUME Types, Agrees, Aside
    PROVE  (Graph!Next \/ View' = View) /\ Agrees'
<1>1. UNCHANGED <<task, state>>
  BY AsideFacts
<1>2. Agrees'
  BY <1>1 DEF Agrees
<1>3. CASE pc' = pc
  BY <1>1, <1>2, <1>3 DEF View, NodeName
<1>4. CASE pc \in Nodes /\ pc' \in {"raised", "exhausted"}
  <2>1. NodeName \in Graph!Nodes /\ NodeName' = "over"
    BY <1>4 DEF NodeName, Nodes, Graph!Nodes
  <2> DEFINE new == [View EXCEPT !.node = "over"]
  <2>2. /\ new = [f \in RunFields |-> new[f]]
        /\ new.node = "over" /\ new.status = task.status /\ new.pending = task.pending
        /\ new.cancel = task.cancel /\ new.error = state.error
        /\ new.replan = state.replanning
    BY ViewFields DEF RunFields
  <2>3. View.node \in Graph!Nodes /\ Graph!Becomes("run", new) => Graph!Raise("run")
    BY DEF Graph!Raise, View
  <2> HIDE DEF new
  <2>4. Graph!Becomes("run", new)
    BY <1>1, <2>1, <2>2, ViewBecomes
  <2> QED BY <1>2, <2>1, <2>3, <2>4, ViewFields, StepIsRunStep
<1>5. pc' = pc \/ (pc \in Nodes /\ pc' \in {"raised", "exhausted"})
  BY DEF Aside, NodeRaises, Exhausted, Cancel, Enter, Nodes, vars
<1> QED BY <1>3, <1>4, <1>5

\* Every run of the graph goes the way that module TaskLifecycle's runs go.
THEOREM RunFollowsGraph == Spec => FollowsGraph
<1>1. Init => Graph!Init /\ Agrees
  <2>1. Init => Agrees
    BY EmptySeq DEF Init, Agrees, InitialTask, InitialState
  <2> QED BY <2>1, InitFollows
<1>2. Types /\ Agrees /\ Course /\ [Next]_vars
         => Agrees' /\ [Graph!Next]_([r \in {"run"} |-> View])
  <2> SUFFICES ASSUME Types, Agrees, Course, [Next]_vars
               PROVE  Agrees' /\ [Graph!Next]_([r \in {"run"} |-> View])
    OBVIOUS
  <2>1. CASE Aside
    <3>1. Agrees' /\ (Graph!Next \/ View' = View)
      BY <2>1, AsideFollows
    <3> QED BY <3>1
  <2> QED BY <2>1, PlannerFollows, DecideFollows, ExecutorFollows, SolverFollows,
             ReviewerFollows DEF Next, Aside
<1> QED BY <1>1, <1>2, TypesHold, CourseHolds, PTL DEF Spec, FollowsGraph, Graph!Spec
=============================================================================
