------------------------------ MODULE Workflow ------------------------------
(***************************************************************************)
(* One run of the agent graph (src/core/graph_agent.py): planner, decision, *)
(* executor, solver and reviewer, with the automatic remediation of failed *)
(* steps, the replanning loops, the review loop and what they leave in the *)
(* database.  A node is one action; it reads the graph state, calls models *)
(* and tools (their answers are chosen), writes the database and returns   *)
(* the fields it changes.  The cancel event may be set at any time, also   *)
(* while a node runs.                                                      *)
(***************************************************************************)
EXTENDS Naturals, Sequences, FiniteSets, SequencesExt

CONSTANTS Tools,             \* the tools a plan may name
          MaxSteps,          \* bound: steps of a plan
          MaxReplans,        \* graph.replan_max_attempts
          MaxReviews,        \* graph.review_replan_max_attempts, 0 for no limit
          MaxRemediations,   \* the task's remediation limit, 2 in the code
          RecursionLimit     \* nodes LangGraph runs before it raises

ASSUME ToolsAssumption ==
    /\ "LLM" \in Tools
    /\ Tools \subseteq {"RAG", "LLM", "DATA_PROFILE", "FILE_INSPECTOR", "MEMORY", "DISCOVERY"}
ASSUME BoundsAssumption ==
    /\ MaxSteps \in Nat \ {0} /\ RecursionLimit \in Nat
    /\ MaxReplans \in Nat /\ MaxReviews \in Nat /\ MaxRemediations \in Nat

VARIABLES pc,        \* the node that runs next
          fuel,      \* nodes it may still run
          event,     \* core._active_cancel_event is set
          request,   \* what the question asks: "plain", or a data analysis with a file or without
          task,      \* state["task"]: the AgentTask
          state,     \* the other fields of AgentState
          row,       \* the task's row in agent_tasks
          stepRows   \* its rows in agent_steps, by step id

vars == <<pc, fuel, event, request, task, state, row, stepRows>>

DataTools  == {"DATA_PROFILE", "FILE_INSPECTOR"}
AllTools   == Tools \cup {"RAG", "LLM"} \cup DataTools
Issues     == {"low_evidence", "tool_error", "empty_result", "missing_file"}
StepStatus == {"pending", "success", "failed", "skipped"}
Step       == [id : Nat, tool : AllTools, status : StepStatus, retry : BOOLEAN]
TaskStatus == {"running", "success", "partial", "failed", "canceled"}
Answer     == {"none", "draft", "error", "canceled", "limit"}
Stats      == [streak : [AllTools -> 0..2], issues : [Issues -> 0..3], llmEmpty : 0..1]

Capped(n, limit) == IF n < limit THEN n + 1 ELSE limit

-----------------------------------------------------------------------------
(* Steps and their rows.                                                    *)

\* AgentExecutor.build_steps: pending steps for the tools of a plan, ids from base.
BuildSteps(tools, base) ==
    [p \in 1..Len(tools) |->
        [id |-> base + p, tool |-> tools[p], status |-> "pending", retry |-> FALSE]]

\* An id no saved step has.
LastId == Max({0} \cup DOMAIN stepRows)

\* save_step for each of the positions ps: an upsert by step id.
SaveSteps(rows, steps, ps) ==
    LET ids == {steps[p].id : p \in ps}
        At(i) == CHOOSE p \in ps : steps[p].id = i
    IN  [i \in DOMAIN rows \cup ids |->
            IF i \in ids THEN [position |-> At(i), step |-> steps[At(i)]] ELSE rows[i]]

\* save_task: the row holds the task's status and its final answer.
SavedTask(t) == [status |-> t.status, answer |-> t.answer]

\* The positions of the pending steps from position p on.
PendingFrom(s, p) == {q \in p..Len(s) : s[q].status = "pending"}
SkipPending(s, p) ==
    [q \in 1..Len(s) |-> IF q \in PendingFrom(s, p) THEN [s[q] EXCEPT !.status = "skipped"] ELSE s[q]]

\* derive_task_status; a final answer is never blank here.
DeriveStatus_Wrong(t) == IF t.cancel THEN "canceled" ELSE "success"
DeriveStatus(t) ==
    CASE t.cancel -> "canceled"
      [] ~t.cancel /\ \E p \in 1..Len(t.steps) : t.steps[p].status = "failed" -> "partial"
      [] OTHER -> "success"

-----------------------------------------------------------------------------
(* Outcomes of a tool and the remediation policy.                           *)

Outcome(issue, reply, success) == [issue |-> issue, reply |-> reply, success |-> success]

\* What a tool may return, with its assessment: reply is "bad" when the executor's
\* text tests find nothing usable, "low" when the retrieval was expanded and scored
\* below the threshold.
Outcomes(tool) ==
    CASE tool = "RAG" ->
            {Outcome("low_evidence", "bad", TRUE), Outcome("low_evidence", "bad", FALSE),
             Outcome("low_evidence", "low", TRUE), Outcome("low_evidence", "usable", TRUE),
             Outcome("none", "low", TRUE), Outcome("none", "usable", TRUE)}
      [] tool \in DataTools ->
            {Outcome("missing_file", "bad", FALSE), Outcome("missing_file", "usable", TRUE),
             Outcome("tool_error", "bad", FALSE), Outcome("empty_result", "bad", TRUE),
             Outcome("none", "bad", TRUE), Outcome("none", "usable", TRUE)}
      [] OTHER ->
            {Outcome("tool_error", "bad", FALSE), Outcome("empty_result", "bad", TRUE),
             Outcome("none", "bad", TRUE), Outcome("none", "usable", TRUE)}

\* A step whose event was set before its tool began carries no assessment.
CanceledOutcome == Outcome("none", "bad", FALSE)

\* advance_remediation_stats, counters capped where the policy stops comparing.
Advance_Wrong(s, tool, issue) ==
    IF issue = "none" THEN s ELSE [s EXCEPT !.issues[issue] = Capped(@, 3)]
Advance(s, tool, issue) ==
    IF issue = "none" THEN [s EXCEPT !.streak[tool] = 0]
    ELSE [s EXCEPT !.streak[tool] = Capped(@, 2), !.issues[issue] = Capped(@, 3)]

\* What the policy does about an issue while remediation is allowed.
RemedyFor(tool, issue, s, replans) ==
    CASE tool = "RAG" /\ issue = "low_evidence" -> IF replans >= 1 THEN "replan" ELSE "retry_same_tool"
      [] issue = "missing_file" -> "ask_user"
      [] tool = "LLM" /\ issue = "empty_result" /\ s.llmEmpty < 1 -> "retry_same_tool"
      [] issue = "tool_error" -> "retry_same_tool"
      [] OTHER -> "degrade_answer"

\* build_remediation_decision: the task's limit and the two circuit breakers come
\* first.  Its counter per step id never blocks anything: every remediation gives the
\* work to a step with a new id.
Remediation_Wrong(tool, issue, s, count, replans) ==
    CASE issue = "none" -> "none"
      [] issue # "none" /\ (s.streak[tool] >= 2 \/ s.issues[issue] >= 3) -> "degrade_answer"
      [] OTHER -> RemedyFor(tool, issue, s, replans)
Remediation(tool, issue, s, count, replans) ==
    CASE issue = "none" -> "none"
      [] issue # "none" /\ (\/ count >= MaxRemediations
                            \/ s.streak[tool] >= 2
                            \/ s.issues[issue] >= 3) -> "degrade_answer"
      [] OTHER -> RemedyFor(tool, issue, s, replans)

\* The replanning that does not come from the policy: a bad answer, or a low-quality
\* retrieval while replans are left.
ReplansByDefault(tool, o, replans) ==
    IF tool = "RAG"
    THEN o.reply = "bad" \/ (o.reply = "low" /\ replans < MaxReplans)
    ELSE o.reply = "bad" /\ o.issue # "missing_file"

-----------------------------------------------------------------------------
(* Planner and decision.                                                    *)

\* A node runs: LangGraph raises instead when the recursion limit is used up.
Enter(node) == pc = node /\ fuel > 0 /\ fuel' = fuel - 1

Plans == UNION {[1..n -> Tools] : n \in 1..MaxSteps}

\* A new plan: a new task with unsaved steps.  The old rows are cleared only when this
\* is a replan; the error, the counters and the answer of the state are kept.
PlanSteps_Wrong(plan) ==
    /\ Enter("planner")
    /\ task' = [steps |-> BuildSteps(plan, LastId), status |-> "running", answer |-> "none",
                cancel |-> FALSE, pending |-> "none"]
    /\ row' = SavedTask(task')
    /\ state' = [state EXCEPT !.legacy = Len(plan), !.idx = 0, !.cancel = FALSE,
                              !.replanning = FALSE]
    /\ pc' = "decision"
    /\ UNCHANGED <<event, request, stepRows>>
PlanSteps(plan) ==
    /\ Enter("planner")
    /\ task' = [steps |-> BuildSteps(plan, LastId), status |-> "running", answer |-> "none",
                cancel |-> FALSE, pending |-> "none"]
    /\ row' = SavedTask(task')
    /\ stepRows' = IF state.replanning THEN <<>> ELSE stepRows
    /\ state' = [state EXCEPT !.legacy = Len(plan), !.idx = 0, !.cancel = FALSE,
                              !.replanning = FALSE]
    /\ pc' = "decision"
    /\ UNCHANGED <<event, request>>

\* The planner's exception: only the error is set, the graph goes on.
PlannerFails ==
    /\ Enter("planner")
    /\ state' = [state EXCEPT !.error = TRUE]
    /\ pc' = "decision"
    /\ UNCHANGED <<event, request, task, row, stepRows>>

\* The plan the decision node hands to the executor.
DecidedTools(tools, needKb) ==
    LET withKb == IF needKb /\ \A p \in 1..Len(tools) : tools[p] # "RAG"
                  THEN <<"RAG">> \o tools ELSE tools
        hasData == \E p \in 1..Len(withKb) : withKb[p] \in DataTools
    IN  CASE request = "plain" \/ hasData -> withKb
          [] request = "file" /\ ~hasData -> <<"FILE_INSPECTOR", "DATA_PROFILE">>
          [] request = "nofile" /\ ~hasData -> <<"LLM">>

\* Every step is built anew and saved; the step index stays.
Decide ==
    /\ Enter("decision")
    /\ \E needKb \in BOOLEAN :
          LET tools == [p \in 1..Len(task.steps) |-> task.steps[p].tool]
              steps == BuildSteps(DecidedTools(tools, needKb), LastId)
          IN  /\ task' = [task EXCEPT !.steps = steps]
              /\ stepRows' = SaveSteps(stepRows, steps, 1..Len(steps))
              /\ state' = [state EXCEPT !.legacy = Len(steps)]
    /\ row' = SavedTask(task')
    /\ pc' = "executor"
    /\ UNCHANGED <<event, request>>

-----------------------------------------------------------------------------
(* Executor.                                                                *)

\* check_next_step, on the state a node returns: it counts the legacy step list.
CheckNextStep_Wrong(s) ==
    IF s.replanning THEN "planner" ELSE IF s.idx + 1 < s.legacy THEN "executor" ELSE "solver"
CheckNextStep(s) ==
    IF s.replanning THEN "planner" ELSE IF s.idx < s.legacy THEN "executor" ELSE "solver"

\* The executor leaves with the task t, its rows and the fields s.
ExecutorReturns(t, rows, s) ==
    /\ task' = t /\ row' = SavedTask(t) /\ stepRows' = rows
    /\ state' = s /\ pc' = CheckNextStep(s)

Current == state.idx + 1

\* The index is past the last step: the node counts on and saves nothing.
NoStep ==
    /\ Enter("executor")
    /\ state.idx >= Len(task.steps)
    /\ state' = [state EXCEPT !.idx = @ + 1]
    /\ pc' = CheckNextStep(state')
    /\ UNCHANGED <<event, request, task, row, stepRows>>

\* The pending steps from position p on are skipped and the task is canceled.
CancelRest(t, p) ==
    LET steps == SkipPending(t.steps, p)
    IN  ExecutorReturns([t EXCEPT !.steps = steps, !.status = "canceled",
                                  !.answer = "canceled", !.cancel = TRUE],
                        SaveSteps(stepRows, steps, Current..Len(steps)),
                        [state EXCEPT !.idx = Len(steps), !.cancel = TRUE])

\* The cancellation is seen before the step runs.
CancelBefore ==
    /\ Enter("executor")
    /\ state.idx < Len(task.steps)
    /\ event \/ task.cancel
    /\ CancelRest(task, Current)
    /\ UNCHANGED <<event, request>>

\* execute_step: the task after its current step came to outcome o; a step that ends
\* after the event was set counts as skipped.
Ran(o) ==
    [task EXCEPT !.steps[Current].status =
                    IF event' THEN "skipped" ELSE IF o.success THEN "success" ELSE "failed",
                 !.cancel = event']

\* The policy retries: a new step for the same tool right after this one.
RetryStep(t, stats) ==
    LET step  == [id |-> LastId + 1, tool |-> t.steps[Current].tool,
                  status |-> "pending", retry |-> TRUE]
        steps == InsertAt(t.steps, Current + 1, step)
    IN  ExecutorReturns([t EXCEPT !.steps = steps],
                        SaveSteps(stepRows, steps, Current..Len(steps)),
                        [state EXCEPT !.idx = @ + 1, !.legacy = Len(steps), !.replanning = FALSE,
                                      !.remediations = @ + 1, !.stats = stats])

SaveCurrent(t) == SaveSteps(stepRows, t.steps, {Current})

\* The policy replans: the counters are returned.
ControlledReplan(t, stats) ==
    ExecutorReturns(t, SaveCurrent(t),
                    [state EXCEPT !.replanning = TRUE, !.replans = @ + 1,
                                  !.remediations = @ + 1, !.stats = stats])

\* The node replans by itself: the advanced counters are dropped.
DefaultReplan(t) ==
    ExecutorReturns(t, SaveCurrent(t), [state EXCEPT !.replanning = TRUE, !.replans = @ + 1])

FinishStep(t, stats) ==
    ExecutorReturns(t, SaveCurrent(t),
                    [state EXCEPT !.idx = @ + 1, !.replanning = FALSE, !.stats = stats])

\* What follows a step that came to outcome o with the task t.
AfterStep(o, t) ==
    LET tool   == t.steps[Current].tool
        stats  == Advance(state.stats, tool, o.issue)
        action == Remediation(tool, o.issue, stats, state.remediations, state.replans)
        empty  == tool = "LLM" /\ o.issue = "empty_result"
    IN  \/ /\ action = "retry_same_tool"
           /\ RetryStep(t, IF empty THEN [stats EXCEPT !.llmEmpty = @ + 1] ELSE stats)
        \/ action = "replan" /\ ControlledReplan(t, stats)
        \/ /\ action \notin {"retry_same_tool", "replan"}
           /\ \/ ReplansByDefault(tool, o, state.replans) /\ DefaultReplan(t)
              \/ /\ ~ReplansByDefault(tool, o, state.replans)
                 /\ IF t.cancel THEN CancelRest(t, Current + 1) ELSE FinishStep(t, stats)

\* A step runs; the event may be set before its tool begins or while it works.
ExecuteStep ==
    /\ Enter("executor")
    /\ state.idx < Len(task.steps)
    /\ ~event /\ ~task.cancel
    /\ \/ event' = TRUE /\ AfterStep(CanceledOutcome, Ran(CanceledOutcome))
       \/ /\ event' \in BOOLEAN
          /\ \E o \in Outcomes(task.steps[Current].tool) : AfterStep(o, Ran(o))
    /\ UNCHANGED request

-----------------------------------------------------------------------------
(* Solver and reviewer.                                                     *)

SolverReturns(t) ==
    /\ Enter("solver")
    /\ task' = t /\ row' = SavedTask(t) /\ pc' = "reviewer"
    /\ UNCHANGED <<event, request, stepRows>>

SolveError ==
    /\ state.error
    /\ SolverReturns([task EXCEPT !.status = "failed", !.answer = "error"])
    /\ state' = [state EXCEPT !.answer = "error"]

SolveCanceled ==
    /\ ~state.error /\ state.cancel
    /\ SolverReturns([task EXCEPT !.cancel = TRUE, !.status = "canceled"])
    /\ state' = [state EXCEPT !.answer = task.answer]

\* The answer is a draft until the review; the status it will get is kept beside it.
Solve ==
    /\ ~state.error /\ ~state.cancel
    /\ SolverReturns([task EXCEPT !.status = "running", !.pending = DeriveStatus(task)])
    /\ state' = [state EXCEPT !.answer = "draft"]

\* _finalize_pass: the answer is approved, the kept status taken and dropped.
FinalizePass_Wrong(answer) ==
    /\ task' = [task EXCEPT !.answer = answer,
                            !.status = IF task.pending = "none" THEN @ ELSE task.pending]
    /\ row' = SavedTask(task')
    /\ pc' = "end"
    /\ UNCHANGED <<event, request, stepRows>>
FinalizePass(answer) ==
    /\ task' = [task EXCEPT !.answer = answer, !.pending = "none",
                            !.status = IF task.pending = "none" THEN @ ELSE task.pending]
    /\ row' = SavedTask(task')
    /\ pc' = "end"
    /\ UNCHANGED <<event, request, stepRows>>

ReviewPasses ==
    /\ Enter("reviewer")
    /\ FinalizePass(state.answer)
    /\ state' = [state EXCEPT !.replanning = FALSE]

AtReviewLimit == MaxReviews # 0 /\ state.reviews + 1 > MaxReviews

ReviewFails_Wrong ==
    /\ Enter("reviewer")
    /\ state.reviews + 1 # MaxReviews + 2
    /\ state' = [state EXCEPT !.reviews = @ + 1, !.replanning = TRUE]
    /\ pc' = "planner"
    /\ UNCHANGED <<event, request, task, row, stepRows>>
ReviewFails ==
    /\ Enter("reviewer")
    /\ ~AtReviewLimit
    /\ state' = [state EXCEPT !.reviews = @ + 1, !.replanning = TRUE]
    /\ pc' = "planner"
    /\ UNCHANGED <<event, request, task, row, stepRows>>

\* Past the limit the run ends: the explanation goes to the row, the returned fields
\* do not hold it.
ReviewLimit ==
    /\ Enter("reviewer")
    /\ AtReviewLimit
    /\ FinalizePass("limit")
    /\ state' = [state EXCEPT !.reviews = @ + 1, !.replanning = FALSE]

-----------------------------------------------------------------------------
(* The run.                                                                 *)

Nodes == {"planner", "decision", "executor", "solver", "reviewer"}

\* A model call of the decision node or of the solver raises: the run is over.
NodeRaises ==
    /\ Enter("decision") \/ (Enter("solver") /\ ~state.error /\ ~state.cancel)
    /\ pc' = "raised"
    /\ UNCHANGED <<event, request, task, state, row, stepRows>>

\* LangGraph's GraphRecursionError.
Exhausted ==
    /\ pc \in Nodes /\ fuel = 0
    /\ pc' = "exhausted"
    /\ UNCHANGED <<fuel, event, request, task, state, row, stepRows>>

\* TaskRunner.cancel_task sets the event between two nodes.
Cancel ==
    /\ pc \in Nodes /\ ~event
    /\ event' = TRUE
    /\ UNCHANGED <<pc, fuel, request, task, state, row, stepRows>>

InitialState ==
    [idx |-> 0, legacy |-> 0, cancel |-> FALSE, error |-> FALSE, replanning |-> FALSE,
     reviews |-> 0, replans |-> 0, remediations |-> 0, answer |-> "none",
     stats |-> [streak |-> [t \in AllTools |-> 0], issues |-> [i \in Issues |-> 0], llmEmpty |-> 0]]

InitialTask == [steps |-> <<>>, status |-> "running", answer |-> "none", cancel |-> FALSE,
                pending |-> "none"]

\* build_initial_state, for a task submit_task has saved as running.
Init ==
    /\ pc = "planner" /\ fuel = RecursionLimit
    /\ event \in BOOLEAN
    /\ request \in {"plain", "file", "nofile"}
    /\ task = InitialTask /\ state = InitialState
    /\ row = SavedTask(InitialTask) /\ stepRows = <<>>

Planner  == PlannerFails \/ \E plan \in Plans : PlanSteps(plan)
Executor == NoStep \/ CancelBefore \/ ExecuteStep
Solver   == SolveError \/ SolveCanceled \/ Solve
Reviewer == ReviewPasses \/ ReviewFails \/ ReviewLimit

Next == Planner \/ Decide \/ Executor \/ Solver \/ Reviewer \/ NodeRaises \/ Exhausted \/ Cancel

Spec == Init /\ [][Next]_vars

-----------------------------------------------------------------------------
(* Properties.                                                              *)

Positions == 1..Len(task.steps)
WithStatus(status) == {p \in Positions : task.steps[p].status = status}

\* Every variable has its type.
TypeOK ==
    /\ pc \in Nodes \cup {"end", "raised", "exhausted"}
    /\ fuel \in 0..RecursionLimit
    /\ event \in BOOLEAN /\ request \in {"plain", "file", "nofile"}
    /\ task \in [steps : Seq(Step), status : TaskStatus, answer : Answer, cancel : BOOLEAN,
                 pending : {"none", "success", "partial", "canceled"}]
    /\ state \in [idx : Nat, legacy : Nat, cancel : BOOLEAN, error : BOOLEAN,
                  replanning : BOOLEAN, reviews : Nat, replans : Nat, remediations : Nat,
                  answer : Answer, stats : Stats]
    /\ row \in [status : TaskStatus, answer : Answer]

\* The remediation of a task is bounded over the whole run: neither a replan nor a
\* failed review gives it new retries, and the retry steps of the current plan are
\* among those that were counted.
RemediationBounded ==
    /\ state.remediations <= MaxRemediations
    /\ Cardinality({p \in Positions : task.steps[p].retry}) <= state.remediations

\* An automatic retry is never retried itself, although the step counter that should
\* prevent it never counts: the streak of the tool does.
NoRetryOfRetry ==
    \A p \in Positions : task.steps[p].retry => p = 1 \/ ~task.steps[p - 1].retry

\* Until the planner fails, the rows of agent_steps are the steps of the current plan,
\* each at its position with its status: no row of an abandoned plan is left, none is
\* missing after an insertion.
StepRowsMirror ==
    pc \in {"executor", "solver", "reviewer", "end"} /\ ~state.error
        => stepRows = SaveSteps(<<>>, task.steps, Positions)

\* Until the planner fails, the solver answers when every step, also an inserted one,
\* ran or was skipped: the edge counts state["steps"], the node indexes task.steps.
AllStepsSettled ==
    pc \in {"solver", "reviewer", "end"} /\ ~state.error => WithStatus("pending") = {}

\* The status a finished run leaves in the database is the one its steps call for,
\* whatever was reviewed, replanned or canceled on the way.
EndStatusDerived ==
    pc = "end" /\ ~state.error =>
        /\ row.status = "canceled" <=> WithStatus("skipped") # {}
        /\ row.status # "canceled" =>
              row.status = IF WithStatus("failed") # {} THEN "partial" ELSE "success"

\* A failed review or a retry alone never exhausts LangGraph's recursion limit: it
\* takes a replan of the executor or a failure of the planner.
LimitNeedsReplan == pc = "exhausted" => state.replans > 0 \/ state.error

\* This run among the runs of the graph: the task's payload and the state's flags.
NodeName ==
    CASE pc = "planner"  -> "plan"
      [] pc = "decision" -> "decide"
      [] pc = "executor" -> "step"
      [] pc = "solver"   -> "solve"
      [] pc = "reviewer" -> "review"
      [] OTHER           -> "over"

View == [node |-> NodeName, status |-> task.status, pending |-> task.pending,
         cancel |-> task.cancel, error |-> state.error, replan |-> state.replanning]

Graph == INSTANCE GraphRuns WITH Runs <- {"run"}, run <- [r \in {"run"} |-> View]

\* The nodes go the way module TaskLifecycle outlines: the edges after the executor, which
\* count state["steps"], the two cancel flags and the kept status agree with it, whatever
\* is retried, replanned, reviewed or canceled.
FollowsGraph == Graph!Spec

-----------------------------------------------------------------------------
(* What the program says and does not keep.                                 *)

\* "The remediation limit is reached, the answer is degraded" (agent/executor.py:188):
\* a step that fails then is not followed by a new plan.
DegradeMeansNoReplan ==
    [][pc = "executor" /\ state.remediations >= MaxRemediations /\ ~state.error
           /\ Current \in Positions /\ Len(task'.steps) = Len(task.steps) /\ task'.steps[Current].status = "failed"
           => pc' # "planner"]_vars

\* "Limits how often one task triggers a replan" (config_metadata.py:66).
ReplanBounded == ~state.error => state.replans <= MaxReplans

\* The answer a review ends with (reviewer.py:134-138) is the answer that is returned.
AnswerReturnedIsSaved == pc = "end" => row.answer = state.answer

\* "The task has completed successfully" (serializers.py:178) is not said of a task
\* whose answer is the system's error.
ErrorIsFailed == pc = "end" /\ row.answer = "error" => row.status = "failed"
=============================================================================
