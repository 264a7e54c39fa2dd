----------------------------- MODULE GraphRuns ------------------------------
(***************************************************************************)
(* What one run of the agent graph does to the task it works for, told     *)
(* once for the modules that tell it twice: Workflow has the graph's steps, *)
(* rows and limits but a single run, TaskLifecycle has the threads, locks  *)
(* and lost writes but no steps.  Here a run has a node and the five       *)
(* fields on which the ending depends; what a node decides is chosen.      *)
(* Runs take turns: one begins when all others are idle.                   *)
(***************************************************************************)
CONSTANT Runs

VARIABLE run   \* [Runs -> a node, the task's status, the status kept for the
               \* review, its cancel flag, the state's error and replanning flag]

Idle  == [node |-> "idle", status |-> "running", pending |-> "none",
          cancel |-> FALSE, error |-> FALSE, replan |-> FALSE]
Fresh == [Idle EXCEPT !.node = "plan"]

Nodes == {"plan", "decide", "step", "solve", "review"}

At(r, node) == run[r].node = node
Becomes(r, new) == run' = [run EXCEPT ![r] = new]

\* Where a run goes that has no step left: a replan that is still wanted comes first.
WhenDone(r) == IF run[r].replan THEN "plan" ELSE "solve"

Init ==
    \/ run = [r \in Runs |-> Idle]
    \/ \E s \in Runs : run = [r \in Runs |-> IF r = s THEN Fresh ELSE Idle]

Begin(r) ==
    /\ \A q \in Runs : run[q] = Idle
    /\ Becomes(r, Fresh)

\* A request that needs no plan is answered by a run that did nothing else.
AnswerDirectly(r) ==
    /\ run[r] = Fresh
    /\ Becomes(r, [run[r] EXCEPT !.node = "over"])

\* A plan takes back what the plan before it decided, but not the error.
Plan(r) ==
    /\ At(r, "plan")
    /\ Becomes(r, [Fresh EXCEPT !.node = "decide", !.error = run[r].error])

PlanFails(r) ==
    /\ At(r, "plan")
    /\ Becomes(r, [run[r] EXCEPT !.node = "decide", !.error = TRUE])

Decide(r) ==
    /\ At(r, "decide")
    /\ Becomes(r, [run[r] EXCEPT !.node = "step"])

NoStep(r) ==
    /\ At(r, "step")
    /\ Becomes(r, [run[r] EXCEPT !.node = WhenDone(r)])

\* The cancellation is noticed, before a step or after one: the rest is dropped.
StepsCanceled(r) ==
    /\ At(r, "step")
    /\ Becomes(r, [run[r] EXCEPT !.node = WhenDone(r), !.status = "canceled", !.cancel = TRUE])

\* A step ran, in a run that had not noticed a cancellation, and is to be repeated:
\* by a new step or by a new plan.
Repeat(r) ==
    /\ At(r, "step") /\ ~run[r].cancel
    /\ \E seen, again \in BOOLEAN :
          Becomes(r, [run[r] EXCEPT !.node = IF again THEN "plan" ELSE "step",
                                    !.cancel = seen, !.replan = again])

FinishStep(r) ==
    /\ At(r, "step") /\ ~run[r].cancel
    /\ \E next \in {"step", "solve"} :
          Becomes(r, [run[r] EXCEPT !.node = next, !.replan = FALSE])

SolveError(r) ==
    /\ At(r, "solve") /\ run[r].error
    /\ Becomes(r, [run[r] EXCEPT !.node = "review", !.status = "failed"])

SolveCanceled(r) ==
    /\ At(r, "solve") /\ ~run[r].error /\ run[r].cancel
    /\ Becomes(r, [run[r] EXCEPT !.node = "review", !.status = "canceled"])

Solve(r) ==
    /\ At(r, "solve") /\ ~run[r].error /\ ~run[r].cancel
    /\ \E verdict \in {"success", "partial"} :
          Becomes(r, [run[r] EXCEPT !.node = "review", !.status = "running", !.pending = verdict])

\* The review ends the run: a kept status takes effect.
ReviewEnds(r) ==
    /\ At(r, "review")
    /\ Becomes(r, [run[r] EXCEPT !.node = "over", !.pending = "none", !.replan = FALSE,
                                 !.status = IF run[r].pending = "none" THEN @ ELSE run[r].pending])

ReviewFails(r) ==
    /\ At(r, "review")
    /\ Becomes(r, [run[r] EXCEPT !.node = "plan", !.replan = TRUE])

\* An exception, or LangGraph's limit.
Raise(r) ==
    /\ run[r].node \in Nodes
    /\ Becomes(r, [run[r] EXCEPT !.node = "over"])

Leave(r) ==
    /\ At(r, "over")
    /\ Becomes(r, Idle)

\* The process ends.
Stop == run' = [r \in Runs |-> Idle]

Step(r) ==
    \/ Plan(r) \/ PlanFails(r) \/ Decide(r)
    \/ NoStep(r) \/ StepsCanceled(r) \/ Repeat(r) \/ FinishStep(r)
    \/ SolveError(r) \/ SolveCanceled(r) \/ Solve(r)
    \/ ReviewEnds(r) \/ ReviewFails(r)

Next ==
    \/ \E r \in Runs : Begin(r) \/ AnswerDirectly(r) \/ Step(r) \/ Raise(r) \/ Leave(r)
    \/ Stop

Spec == Init /\ [][Next]_run
=============================================================================
