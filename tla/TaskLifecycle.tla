---------------------------- MODULE TaskLifecycle ----------------------------
(***************************************************************************)
(* The life of a background task: the TaskRunner (agent/task_runner.py),   *)
(* its rows in the SQLite TaskStore (agent/task_store.py), the graph runs  *)
(* that AgentCore.chat_async serialises (core/agent_core.py), and the one  *)
(* request at a time that the API bridge lets through (api/context.py).    *)
(*                                                                         *)
(* Threads are the pool's workers and Api, the request thread that holds   *)
(* the bridge's lock.  A thread executing a graph run goes through the     *)
(* program counters of RunPcs; the nodes of the graph are modelled here    *)
(* only as far as they touch the task's row, the cancel event and the      *)
(* published request context (module Workflow has their detail).  A task   *)
(* id is a fresh uuid in the code: here a member of Tasks that has no row  *)
(* and no owner.  The cancel event of a submission is identified with the  *)
(* submission's task.                                                      *)
(*                                                                         *)
(* Operators named ..._Wrong are not part of the specification: each is a  *)
(* plausible slip in the operator after it, and a property must notice it. *)
(***************************************************************************)
EXTENDS Integers, Sequences, FiniteSets

CONSTANTS
    Tasks,           \* task ids
    Workers,         \* threads of the pool (max_workers, 1 in AgentCore)
    Api,             \* the request thread inside bridge.with_agent
    None,            \* no task, no thread
    RecursionLimit,  \* supersteps LangGraph grants one run
    MaxLost,         \* bound: statements that SQLite refuses and the store swallows
    MaxRestarts,     \* bound: crashes or exits of the process
    MaxChats         \* bound: synchronous chat requests

Threads == Workers \cup {Api}

ASSUME ThreadAssumption == Api \notin Workers /\ None \notin Threads
ASSUME TaskAssumption   == None \notin Tasks
ASSUME BoundAssumption  == /\ RecursionLimit \in Nat \ {0}
                           /\ MaxLost \in Nat
                           /\ MaxRestarts \in Nat
                           /\ MaxChats \in Nat

VARIABLES
    row,         \* agent_tasks: [Tasks -> [status, cancel]], "absent" when there is none
    registered,  \* TaskRunner.running_tasks
    signalled,   \* tasks whose cancel event is set
    source,      \* resumed_from
    queue,       \* submissions the pool has not started
    th,          \* the threads
    held,        \* owner of AgentCore._execution_lock
    published,   \* whose request the shared fields of AgentCore describe
    met,         \* history variable, read by no action: the tasks whose requests
                 \* were in chat_async at some time while the thread's own was
    mode,        \* "closed" once a reset has closed the database handle
    lost, restarts, chats

vars == <<row, registered, signalled, source, queue, th, held, published, met, mode,
          lost, restarts, chats>>

\* What only the requests and a restart change.
control == <<source, mode, restarts, chats>>

Ended     == {"success", "partial", "failed", "canceled"}
RowStatus == Ended \cup {"absent", "pending", "running"}

\* Nodes of the graph at whose entry LangGraph counts a superstep.
NodePcs == {"plan", "decide", "step", "solve", "review"}
LockPcs == NodePcs \cup {"begin", "tool", "unlock"}
RunPcs  == LockPcs \cup {"clear", "publish", "lock", "retract", "settle", "finish", "pop"}
\* From the publication of a request to its retraction.
PublishedPcs == LockPcs \cup {"lock", "retract"}
\* Request handlers: a submission between its three writes, a retry that has
\* read its source, a cancellation or a shutdown between its two effects.
RequestPcs == {"saved", "queued", "checked", "flag", "closing"}
\* The handlers that hold TaskRunner._lock while they are between two steps.
RunnerLockPcs == {"saved", "queued", "flag"}

\* A thread: its task and, while it runs the graph, the task's payload in the
\* graph state (status, cancel, pending_final_status), the state's error and
\* replanning_needed, whether the run ended by an exception, the event the running
\* tool was given, and the supersteps left.
IdleThread == [pc |-> "idle", task |-> None, seen |-> None, status |-> "running",
               pending |-> "none", cancel |-> FALSE, error |-> FALSE, replan |-> FALSE,
               raised |-> FALSE, fuel |-> RecursionLimit]

ThreadState == [pc : {"idle"} \cup RunPcs \cup RequestPcs,
                task : Tasks \cup {None}, seen : Tasks \cup {None},
                status : {"running", "canceled", "failed"},
                pending : {"none", "success", "partial"},
                cancel : BOOLEAN, error : BOOLEAN, replan : BOOLEAN,
                raised : BOOLEAN, fuel : 0..RecursionLimit]

Queued     == {queue[i] : i \in 1..Len(queue)}
Owns(t, k) == th[t].task = k /\ th[t].pc \in RunPcs \cup {"saved"}
Live(k)    == k \in registered \/ \E t \in Threads : Owns(t, k)
Fresh(k)   == row[k].status = "absent" /\ ~Live(k) /\ k \notin signalled
Signalled_Wrong(k) == k # None /\ signalled # {}
Signalled(k) == k # None /\ k \in signalled

\* A thread changes its own state only.
Become(t, r) == th' = [th EXCEPT ![t] = r]
Goto(t, pc)  == Become(t, [th[t] EXCEPT !.pc = pc])
Rest(t)      == Become(t, IdleThread)

RunnerLockFree == th[Api].pc \notin RunnerLockPcs
ApiIdle        == th[Api].pc = "idle" /\ mode = "up"

-----------------------------------------------------------------------------
(* The store.  Every write may be lost: the store logs the exception and    *)
(* returns.  After a reset has closed the handle every write is lost.       *)

Persist(new) ==
    \/ mode = "up" /\ row' = new /\ lost' = lost
    \/ mode = "up" /\ lost < MaxLost /\ row' = row /\ lost' = lost + 1
    \/ mode = "closed" /\ row' = row /\ lost' = lost

SaveTask(k, status, cancel) ==
    Persist([row EXCEPT ![k] = [status |-> status, cancel |-> cancel]])

\* An UPDATE of a row that does not exist changes nothing.
UpdateTaskStatus(k, status) ==
    Persist(IF row[k].status = "absent" THEN row ELSE [row EXCEPT ![k].status = status])

SetTaskCancelRequested(k, cancel) ==
    Persist(IF row[k].status = "absent" THEN row ELSE [row EXCEPT ![k].cancel = cancel])

MarkInterrupted_Wrong ==
    [k \in Tasks |-> IF row[k].status # "success"
                     THEN [status |-> "partial", cancel |-> FALSE] ELSE row[k]]

MarkInterrupted ==
    [k \in Tasks |-> IF row[k].status = "running"
                     THEN [status |-> "partial", cancel |-> FALSE] ELSE row[k]]

-----------------------------------------------------------------------------
(* Requests, one at a time under the bridge's lock.                         *)

Submit(k) ==
    /\ ApiIdle /\ Fresh(k)
    /\ SaveTask(k, "pending", FALSE)
    /\ Become(Api, [th[Api] EXCEPT !.pc = "saved", !.task = k])
    /\ source' = [source EXCEPT ![k] = None]
    /\ UNCHANGED <<registered, signalled, queue, held, published, met, mode, restarts, chats>>

\* retry_task and resume_task read the source's row before they take any lock.
\* Every ended status can be retried (a success only from a given step).  Bound:
\* an id must be left for the copy.
ReadSource(s) ==
    /\ ApiIdle /\ row[s].status \in Ended /\ \E k \in Tasks : Fresh(k)
    /\ Become(Api, [th[Api] EXCEPT !.pc = "checked", !.task = s])
    /\ UNCHANGED <<row, registered, signalled, queue, held, published, met, lost, control>>

SubmitCopy_Wrong(k) ==
    /\ th[Api].pc = "checked" /\ Fresh(k)
    /\ SaveTask(k, "pending", FALSE)
    /\ Become(Api, [th[Api] EXCEPT !.pc = "saved", !.task = k])
    /\ source' = [source EXCEPT ![k] = th[Api].task]
    /\ UNCHANGED <<registered, signalled, queue, held, published, met, mode, restarts, chats>>

ReuseId_Wrong(k) ==
    /\ th[Api].pc = "checked" /\ th[Api].task = k /\ k \notin registered
    /\ SaveTask(k, "pending", FALSE)
    /\ Become(Api, [th[Api] EXCEPT !.pc = "saved"])
    /\ UNCHANGED <<source, registered, signalled, queue, held, published, met, mode, restarts, chats>>

\* is_running under the lock, then submit_task under a new id.
SubmitCopy(k) ==
    /\ th[Api].pc = "checked" /\ th[Api].task \notin registered /\ Fresh(k)
    /\ SaveTask(k, "pending", FALSE)
    /\ Become(Api, [th[Api] EXCEPT !.pc = "saved", !.task = k])
    /\ source' = [source EXCEPT ![k] = th[Api].task]
    /\ UNCHANGED <<registered, signalled, queue, held, published, met, mode, restarts, chats>>

RefuseCopy ==
    /\ th[Api].pc = "checked" /\ th[Api].task \in registered
    /\ Rest(Api)
    /\ UNCHANGED <<row, registered, signalled, queue, held, published, met, lost, control>>

\* executor.submit with a new cancel event (the task is Fresh, so its event is not
\* set): from here a worker may start the task although the request has not finished.
Enqueue ==
    /\ th[Api].pc = "saved"
    /\ queue' = Append(queue, th[Api].task)
    /\ registered' = registered \cup {th[Api].task}
    /\ Goto(Api, "queued")
    /\ UNCHANGED <<row, signalled, held, published, met, lost, control>>

MarkRunning ==
    /\ th[Api].pc = "queued"
    /\ UpdateTaskStatus(th[Api].task, "running")
    /\ Rest(Api)
    /\ UNCHANGED <<registered, signalled, queue, held, published, met, control>>

\* cancel_task of a task the runner knows: the event, then the row's flag.
CancelRunning(k) ==
    /\ ApiIdle /\ k \in registered
    /\ signalled' = signalled \cup {k}
    /\ Become(Api, [th[Api] EXCEPT !.pc = "flag", !.task = k])
    /\ UNCHANGED <<row, registered, queue, held, published, met, lost, control>>

FlagCanceled ==
    /\ th[Api].pc = "flag"
    /\ SetTaskCancelRequested(th[Api].task, TRUE)
    /\ Rest(Api)
    /\ UNCHANGED <<registered, signalled, queue, held, published, met, control>>

CancelUnknown(k) ==
    /\ ApiIdle /\ k \notin registered
    /\ row[k].status \in {"pending", "running"}
    /\ SetTaskCancelRequested(k, TRUE)
    /\ UNCHANGED <<registered, signalled, queue, th, held, published, met, control>>

\* POST /api/chat: the graph runs in the request thread, without an event.
StartChat(k) ==
    /\ ApiIdle /\ Fresh(k) /\ chats < MaxChats
    /\ chats' = chats + 1
    /\ Become(Api, [th[Api] EXCEPT !.pc = "publish", !.task = k])
    /\ UNCHANGED <<row, registered, signalled, source, queue, held, published, met, mode,
                   lost, restarts>>

\* POST /api/system/reset: the runner's shutdown sets every event and lets the
\* queued tasks run; then the database handle is closed.
Shutdown ==
    /\ ApiIdle
    /\ signalled' = signalled \cup registered
    /\ Goto(Api, "closing")
    /\ UNCHANGED <<row, registered, queue, held, published, met, lost, control>>

CloseDatabase ==
    /\ th[Api].pc = "closing"
    /\ mode' = "closed"
    /\ Rest(Api)
    /\ UNCHANGED <<row, registered, signalled, source, queue, held, published, met,
                   lost, restarts, chats>>

\* The process ends anywhere (a crash, or os._exit after a reset) and starts
\* again: TaskRunner.__init__ sweeps the rows, unless that write is lost.
Restart ==
    /\ restarts < MaxRestarts
    /\ restarts' = restarts + 1
    /\ \/ row' = MarkInterrupted /\ lost' = lost
       \/ lost < MaxLost /\ row' = row /\ lost' = lost + 1
    /\ registered' = {} /\ signalled' = {} /\ queue' = <<>>
    /\ th' = [t \in Threads |-> IdleThread]
    /\ held' = None /\ published' = None /\ mode' = "up"
    /\ met' = [t \in Threads |-> {}]
    /\ UNCHANGED <<source, chats>>

-----------------------------------------------------------------------------
(* A worker around its run: TaskRunner._run_task.                           *)

Take(w) ==
    /\ th[w].pc = "idle" /\ queue # <<>>
    /\ queue' = Tail(queue)
    /\ Become(w, [th[w] EXCEPT !.pc = "clear", !.task = Head(queue)])
    /\ UNCHANGED <<row, registered, signalled, held, published, met, lost, control>>

ClearFlag(w) ==
    /\ th[w].pc = "clear"
    /\ SetTaskCancelRequested(th[w].task, FALSE)
    /\ Goto(w, "publish")
    /\ UNCHANGED <<registered, signalled, queue, held, published, met, control>>

\* Whatever chat_async returned, a row that has not ended is to become "success", and
\* so is one that is missing or cannot be read: the store answers a failed read with
\* None (chat_async turns every exception into an answer, so _run_task's own handler
\* is never reached).
Settle(w) ==
    /\ th[w].pc = "settle"
    /\ \/ /\ mode = "up" /\ lost' = lost
          /\ Goto(w, IF row[th[w].task].status \in Ended THEN "pop" ELSE "finish")
       \/ /\ mode = "up" /\ lost < MaxLost /\ lost' = lost + 1
          /\ Goto(w, "finish")
       \/ mode = "closed" /\ lost' = lost /\ Goto(w, "finish")
    /\ UNCHANGED <<row, registered, signalled, queue, held, published, met, control>>

Finish(w) ==
    /\ th[w].pc = "finish"
    /\ UpdateTaskStatus(th[w].task, "success")
    /\ Goto(w, "pop")
    /\ UNCHANGED <<registered, signalled, queue, held, published, met, control>>

Pop_Wrong(w) ==
    /\ th[w].pc = "pop" /\ RunnerLockFree
    /\ Rest(w)
    /\ UNCHANGED <<row, registered, signalled, queue, held, published, met, lost, control>>

Pop(w) ==
    /\ th[w].pc = "pop" /\ RunnerLockFree
    /\ registered' = registered \ {th[w].task}
    /\ Rest(w)
    /\ UNCHANGED <<row, signalled, queue, held, published, met, lost, control>>

-----------------------------------------------------------------------------
(* chat_async: publish the request, take the execution lock, run, release   *)
(* the lock, then clear what was published.                                 *)

\* The threads whose request is published or has been overwritten.
Inside == {u \in Threads : th[u].pc \in PublishedPcs}

Publish(t) ==
    /\ th[t].pc = "publish"
    /\ published' = th[t].task
    /\ met' = [u \in Threads |-> IF u = t THEN {th[v].task : v \in Inside}
                                 ELSE IF u \in Inside THEN met[u] \cup {th[t].task} ELSE met[u]]
    /\ Goto(t, "lock")
    /\ UNCHANGED <<row, registered, signalled, queue, held, lost, control>>

Acquire_Wrong(t) ==
    /\ th[t].pc = "lock"
    /\ held' = t
    /\ Goto(t, "plan")
    /\ UNCHANGED <<row, registered, signalled, queue, published, met, lost, control>>

Acquire(t) ==
    /\ th[t].pc = "lock" /\ held = None
    /\ held' = t
    /\ Goto(t, "plan")
    /\ UNCHANGED <<row, registered, signalled, queue, published, met, lost, control>>

\* Small talk, memory queries and confirmations are answered without the graph.
AnswerDirectly(t) ==
    /\ th[t].pc = "plan" /\ th[t].fuel = RecursionLimit
    /\ Goto(t, "unlock")
    /\ UNCHANGED <<row, registered, signalled, queue, held, published, met, lost, control>>

\* A node that raises, or the recursion limit: chat_async answers with the
\* error text and no task id; no row is written.
Raise(t) ==
    /\ \/ th[t].pc \in {"decide", "solve"}
       \/ th[t].pc \in NodePcs /\ th[t].fuel = 0
    /\ Become(t, [th[t] EXCEPT !.pc = "unlock", !.raised = TRUE])
    /\ UNCHANGED <<row, registered, signalled, queue, held, published, met, lost, control>>

Release_Wrong(t) ==
    /\ th[t].pc = "unlock"
    /\ held' = IF th[t].raised THEN held ELSE None
    /\ Goto(t, "retract")
    /\ UNCHANGED <<row, registered, signalled, queue, published, met, lost, control>>

Release(t) ==
    /\ th[t].pc = "unlock"
    /\ held' = None
    /\ Goto(t, "retract")
    /\ UNCHANGED <<row, registered, signalled, queue, published, met, lost, control>>

Retract_Wrong(t) ==
    /\ th[t].pc = "retract"
    /\ published' = IF th[t].raised THEN published ELSE None
    /\ met' = [met EXCEPT ![t] = {}]
    /\ IF t = Api THEN Rest(t) ELSE Goto(t, "settle")
    /\ UNCHANGED <<row, registered, signalled, queue, held, lost, control>>

\* Whatever is published now goes, also what another request has put there.
Retract(t) ==
    /\ th[t].pc = "retract"
    /\ published' = None
    /\ met' = [met EXCEPT ![t] = {}]
    /\ IF t = Api THEN Rest(t) ELSE Goto(t, "settle")
    /\ UNCHANGED <<row, registered, signalled, queue, held, lost, control>>

-----------------------------------------------------------------------------
(* The nodes of the graph, as far as the row and the cancel event go.       *)

AtNode(t, pc) == th[t].pc = pc /\ th[t].fuel > 0

\* Leave a node whose superstep is spent, with the payload fields of r.
Advance(t, r) == Become(t, [r EXCEPT !.fuel = @ - 1])

graph == <<registered, signalled, queue, held, published, met, control>>

\* The planner: a new task payload, saved as running.
Plan(t) ==
    /\ AtNode(t, "plan")
    /\ SaveTask(th[t].task, "running", FALSE)
    /\ Advance(t, [th[t] EXCEPT !.pc = "decide", !.status = "running",
                                !.pending = "none", !.cancel = FALSE, !.replan = FALSE])
    /\ UNCHANGED graph

\* A planner that fails only records the error; the old payload stays.
PlanFails_Wrong(t) ==
    /\ AtNode(t, "plan")
    /\ Advance(t, [th[t] EXCEPT !.pc = "decide", !.error = TRUE, !.replan = FALSE])
    /\ UNCHANGED <<row, lost, graph>>
PlanFails(t) ==
    /\ AtNode(t, "plan")
    /\ Advance(t, [th[t] EXCEPT !.pc = "decide", !.error = TRUE])
    /\ UNCHANGED <<row, lost, graph>>

Decide(t) ==
    /\ AtNode(t, "decide")
    /\ SaveTask(th[t].task, th[t].status, th[t].cancel)
    /\ Advance(t, [th[t] EXCEPT !.pc = "step"])
    /\ UNCHANGED graph

\* Where the graph goes once the executor has no step left: a replan that failed
\* has left replanning_needed set, and the planner is tried again.
WhenDone(t) == IF th[t].replan THEN "plan" ELSE "solve"

\* Executor, no step at its index.
NoStep(t) ==
    /\ AtNode(t, "step")
    /\ Advance(t, [th[t] EXCEPT !.pc = WhenDone(t)])
    /\ UNCHANGED <<row, lost, graph>>

\* Executor, cancellation seen before the step: the rest is skipped.
StepCanceled(t) ==
    /\ AtNode(t, "step") /\ (th[t].cancel \/ Signalled(published))
    /\ SaveTask(th[t].task, "canceled", TRUE)
    /\ Advance(t, [th[t] EXCEPT !.pc = WhenDone(t), !.status = "canceled", !.cancel = TRUE])
    /\ UNCHANGED graph

StepNotCanceled(t) ==
    /\ AtNode(t, "step") /\ ~th[t].cancel /\ ~Signalled(published)
    /\ Advance(t, [th[t] EXCEPT !.pc = "begin"])
    /\ UNCHANGED <<row, lost, graph>>

\* execute_step is given the event published now, which it reads first.
BeginTool(t) ==
    /\ th[t].pc = "begin" /\ ~Signalled(published)
    /\ Become(t, [th[t] EXCEPT !.pc = "tool", !.seen = published])
    /\ UNCHANGED <<row, lost, graph>>

\* The step is skipped; its empty result makes the executor replan.
SkipTool(t) ==
    /\ th[t].pc = "begin" /\ Signalled(published)
    /\ SaveTask(th[t].task, th[t].status, TRUE)
    /\ Become(t, [th[t] EXCEPT !.pc = "plan", !.cancel = TRUE, !.replan = TRUE])
    /\ UNCHANGED graph

\* The tool returned and its event was read again (not when retrieval raised).
\* A bad result retries the step or replans before the cancellation is looked at.
RepeatStep(t) ==
    /\ th[t].pc = "tool"
    /\ \E c \in {th[t].cancel, th[t].cancel \/ Signalled(th[t].seen)}, pc \in {"step", "plan"} :
          /\ SaveTask(th[t].task, th[t].status, c)
          /\ Become(t, [th[t] EXCEPT !.pc = pc, !.seen = None, !.cancel = c,
                                     !.replan = (pc = "plan")])
    /\ UNCHANGED graph

FinishStep(t) ==
    /\ th[t].pc = "tool" /\ ~th[t].cancel /\ ~Signalled(th[t].seen)
    /\ SaveTask(th[t].task, th[t].status, FALSE)
    /\ \E pc \in {"step", "solve"} :
          Become(t, [th[t] EXCEPT !.pc = pc, !.seen = None, !.replan = FALSE])
    /\ UNCHANGED graph

FinishCanceled(t) ==
    /\ th[t].pc = "tool" /\ (th[t].cancel \/ Signalled(th[t].seen))
    /\ SaveTask(th[t].task, "canceled", TRUE)
    /\ Become(t, [th[t] EXCEPT !.pc = WhenDone(t), !.seen = None,
                               !.status = "canceled", !.cancel = TRUE])
    /\ UNCHANGED graph

SolveError(t) ==
    /\ AtNode(t, "solve") /\ th[t].error
    /\ SaveTask(th[t].task, "failed", th[t].cancel)
    /\ Advance(t, [th[t] EXCEPT !.pc = "review", !.status = "failed"])
    /\ UNCHANGED graph

SolveCanceled(t) ==
    /\ AtNode(t, "solve") /\ ~th[t].error /\ th[t].cancel
    /\ SaveTask(th[t].task, "canceled", TRUE)
    /\ Advance(t, [th[t] EXCEPT !.pc = "review", !.status = "canceled"])
    /\ UNCHANGED graph

\* The answer is a draft until the review: the final status waits in the
\* payload's pending_final_status.
Solve(t) ==
    /\ AtNode(t, "solve") /\ ~th[t].error /\ ~th[t].cancel
    /\ SaveTask(th[t].task, "running", FALSE)
    /\ \E p \in {"success", "partial"} :
          Advance(t, [th[t] EXCEPT !.pc = "review", !.status = "running", !.pending = p])
    /\ UNCHANGED graph

\* The answer passes, or the review limit ends the rounds: the final status.  There is
\* always an answer to save: the solver puts a line before the model's, and the error,
\* the cancellation and the limit have texts of their own.
ReviewEnds(t) ==
    /\ AtNode(t, "review")
    /\ SaveTask(th[t].task,
                IF th[t].pending # "none" THEN th[t].pending ELSE th[t].status,
                th[t].cancel)
    /\ Advance(t, [th[t] EXCEPT !.pc = "unlock"])
    /\ UNCHANGED graph

\* Every other answer, a canceled or failed one too, goes back to the planner.
ReviewFails(t) ==
    /\ AtNode(t, "review")
    /\ Advance(t, [th[t] EXCEPT !.pc = "plan", !.replan = TRUE])
    /\ UNCHANGED <<row, lost, graph>>

-----------------------------------------------------------------------------
Init ==
    /\ row = [k \in Tasks |-> [status |-> "absent", cancel |-> FALSE]]
    /\ registered = {} /\ signalled = {} /\ queue = <<>>
    /\ source = [k \in Tasks |-> None]
    /\ th = [t \in Threads |-> IdleThread]
    /\ held = None /\ published = None /\ mode = "up"
    /\ met = [t \in Threads |-> {}]
    /\ lost = 0 /\ restarts = 0 /\ chats = 0

WorkerStep(w) == Take(w) \/ ClearFlag(w) \/ Settle(w) \/ Finish(w) \/ Pop(w)

GraphStep(t) ==
    \/ Plan(t) \/ PlanFails(t) \/ Decide(t)
    \/ NoStep(t) \/ StepCanceled(t) \/ StepNotCanceled(t)
    \/ BeginTool(t) \/ SkipTool(t) \/ RepeatStep(t) \/ FinishStep(t) \/ FinishCanceled(t)
    \/ SolveError(t) \/ SolveCanceled(t) \/ Solve(t)
    \/ ReviewEnds(t) \/ ReviewFails(t)

RunStep(t) ==
    \/ Publish(t) \/ Acquire(t) \/ AnswerDirectly(t) \/ Raise(t) \/ Release(t) \/ Retract(t)
    \/ GraphStep(t)

\* A request that has begun goes on by itself ...
RequestStep ==
    \/ \E k \in Tasks : SubmitCopy(k)
    \/ RefuseCopy \/ Enqueue \/ MarkRunning \/ FlagCanceled \/ CloseDatabase

\* ... and a client may begin one.
Request ==
    \/ \E k \in Tasks : \/ Submit(k) \/ ReadSource(k) \/ CancelRunning(k)
                        \/ CancelUnknown(k) \/ StartChat(k)
    \/ Shutdown

Next ==
    \/ Request \/ RequestStep
    \/ \E w \in Workers : WorkerStep(w)
    \/ \E t \in Threads : RunStep(t)
    \/ Restart

Spec == Init /\ [][Next]_vars

\* The threads are scheduled by the operating system, the model server's calls
\* end by their timeouts, and a lock that is free again and again is granted in
\* the end (a client that cancels all the time takes the runner's lock as often).
Fairness ==
    /\ \A w \in Workers : WF_vars(WorkerStep(w)) /\ SF_vars(Pop(w))
    /\ \A t \in Threads : WF_vars(RunStep(t)) /\ SF_vars(Acquire(t))
    /\ WF_vars(RequestStep)

FairSpec == Spec /\ Fairness

-----------------------------------------------------------------------------
(* Properties.                                                              *)

WorkerTasks == {th[w].task : w \in {v \in Workers : th[v].pc # "idle"}}

\* Every variable has its type.
TypeOK ==
    /\ row \in [Tasks -> [status : RowStatus, cancel : BOOLEAN]]
    /\ registered \subseteq Tasks /\ signalled \subseteq Tasks
    /\ source \in [Tasks -> Tasks \cup {None}]
    /\ queue \in Seq(Tasks)
    /\ th \in [Threads -> ThreadState]
    /\ held \in Threads \cup {None} /\ published \in Tasks \cup {None}
    /\ met \in [Threads -> SUBSET Tasks]
    /\ mode \in {"up", "closed"}
    /\ lost \in Nat /\ restarts \in Nat /\ chats \in Nat

\* Graph runs never overlap: a thread is inside the graph exactly when it owns
\* AgentCore._execution_lock, so two runs never interleave their nodes.
OneGraphRun == \A t \in Threads : th[t].pc \in LockPcs <=> held = t

\* The tasks in running_tasks are those in the pool's queue and those a worker
\* has taken; each is there once, and no request thread runs one of them.  So a
\* task is executed once, and is_running tells whether it still will be.
OneOwner ==
    /\ registered = Queued \cup WorkerTasks
    /\ \A i, j \in 1..Len(queue) : queue[i] = queue[j] => i = j
    /\ \A v, w \in Workers :
          /\ th[v].pc # "idle" => th[v].task \notin Queued
          /\ th[v].pc # "idle" /\ th[w].pc # "idle" /\ th[v].task = th[w].task => v = w
    /\ Owns(Api, th[Api].task) => th[Api].task \notin registered

\* A task and the retry made from it are never both alive: retry_task and
\* resume_task read the row without the lock, before is_running and submit_task.
NoRetryOfLiveTask ==
    \A k \in Tasks : source[k] # None /\ Live(k) => ~Live(source[k])

\* Once a task has ended and nobody owns it, its row never changes again: no late
\* worker, cancellation, retry, shutdown or restart rewrites a result.
EndedIsStable ==
    [][\A k \in Tasks : row[k].status \in Ended /\ ~Live(k) => row'[k] = row[k]]_vars

\* The shared fields of AgentCore that tools fall back on (active_file_id) and that the
\* executor reads (_active_cancel_event) describe the run that reads them, unless another
\* request was in chat_async at the same time; then they may be empty or describe one that
\* waits for the lock or has just left it, but never a request that is over.
ContextIsOwn ==
    \A t \in Threads : th[t].pc \in LockPcs /\ published # th[t].task =>
        /\ met[t] # {}
        /\ published # None =>
              \E u \in Threads : th[u].pc \in {"lock", "retract"} /\ th[u].task = published

\* A row becomes canceled only if its own cancellation was requested, or that of a task
\* whose request overlapped the row's run in chat_async: no event, flag or status reaches
\* another run in any other way.
Asked(t) == \E k \in {th[t].task} \cup met[t] : k \in signalled

CanceledWasRequested ==
    [][\A k \in Tasks : row[k].status # "canceled" /\ row'[k].status = "canceled" =>
          \E t \in Threads : th[t].task = k /\ th[t].pc \in LockPcs /\ Asked(t)]_vars

\* Every task the runner has accepted leaves it again, whatever is canceled, lost or
\* closed meanwhile: nobody waits for the lock or for a run forever.
AcceptedTasksLeave == \A k \in Tasks : k \in registered ~> k \notin registered

\* What a client sees of the runner: the job each thread has in hand, the queue,
\* and the rows with a result.
Hand       == [t \in Threads |-> IF th[t].pc \in RunPcs \cup {"saved"} THEN th[t].task ELSE None]
EndedTasks == {k \in Tasks : row[k].status \in Ended}

Board == INSTANCE JobBoard
            WITH Jobs <- Tasks, Desk <- Api, waiting <- queue, hand <- Hand, ended <- EndedTasks

\* The runner, its rows and its threads keep the promise of a job board: tasks are
\* started once, in the order they were accepted, a retry is a new task, and no
\* row gets or loses a result while nobody has its task in hand.
KeepsBoard == Board!Spec

\* What a thread's graph run has come to.  A review that ends one has settled its
\* status, which the thread's fields do not show.
NodeName(r) == CASE r.pc \in {"begin", "tool"} -> "step"
                 [] r.pc = "unlock" -> "over"
                 [] OTHER -> r.pc
Settled(r)  == r.pc = "unlock" /\ ~r.raised
RunOf(r) ==
    [node    |-> NodeName(r),
     status  |-> IF Settled(r) /\ r.pending # "none" THEN r.pending ELSE r.status,
     pending |-> IF Settled(r) THEN "none" ELSE r.pending,
     cancel  |-> r.cancel,
     error   |-> r.error,
     replan  |-> r.replan /\ ~Settled(r)]
Runs == [t \in Threads |-> RunOf(IF th[t].pc \in LockPcs THEN th[t] ELSE IdleThread)]

Graph == INSTANCE GraphRuns WITH Runs <- Threads, run <- Runs

\* The graph runs of all threads, one after the other and whatever happens to the rows,
\* the events and the process meanwhile, go the way module Workflow details.
FollowsGraph == Graph!Spec

-----------------------------------------------------------------------------
(* What the program says and does not keep.                                 *)

\* "The task is still running, it cannot be retried" (task_runner.py:165,193)
\* is said of every row that is running or pending: then someone runs it.
RefusalIsTruthful ==
    \A k \in Tasks : row[k].status \in {"running", "pending"} => Live(k)

\* "The cancel request was sent, waiting for the current step to exit safely"
\* (task_runner.py:157): no tool of the task starts after that.
CancelStopsTools ==
    [][\A t \in Threads : th[t].pc = "begin" /\ th'[t].pc = "tool"
                               => th[t].task \notin signalled]_vars

\* What a restart interrupted is marked as interrupted (task_store.py:600): no
\* pending row is left that nobody owns.
InterruptedIsMarked ==
    \A k \in Tasks : restarts > 0 /\ row[k].status = "pending" => Live(k)

\* A background run that raised ends as failed (task_runner.py:84-87).
RaisedIsFailed ==
    \A w \in Workers : th[w].pc = "pop" /\ th[w].raised
                             => row[th[w].task].status # "success"

\* A canceled task has ended (task_runner.py:151-152): it does not run again.
CanceledIsFinal ==
    [][\A k \in Tasks : row[k].status = "canceled" => row'[k].status = "canceled"]_vars
=============================================================================
