# GeoClaw-LS: a verification development

GeoClaw-LS is a desktop assistant for earth-science work: a FastAPI server for one
user, whose agent answers questions with a knowledge base (retrieval), a language model
behind Ollama, and some data tools.  This directory holds TLA+ modules of the parts of
it that are hard to get right by testing: background tasks and their rows in SQLite,
the agent graph with its retry, replan and review loops, the synchronisation of the
knowledge base with the files it was made from, the keyword index and search cache
that concurrent updates and searches share, the ranking and the retrieval over them, the
calls of the language model and the answer made of them, the bridge that builds and resets
the agent, the conversations and their memory, and the page that shows the tasks.  TLC
checks each module on small instances; TLAPS proves most of the safety properties for every
instance.

Paths below are relative to `src/`.

## 1. Inventory

### 1.1 Components

| Component | Code | State it keeps | Operations |
|---|---|---|---|
| Task runner | `agent/task_runner.py` | `running_tasks`, cancel events, a thread pool (one worker in `AgentCore`), a lock | submit, cancel, retry, resume, shutdown, `_run_task` |
| Task store | `agent/task_store.py`, `storage/sqlite/` | SQLite rows of tasks, steps, artifacts | upserts and updates (errors are logged and dropped), the sweep of interrupted tasks at start |
| Agent core, chat | `core/agent_core.py`, `core/agent_core_facades.py` | the request published in fields of the shared agent, the execution lock, the session | `chat_async`, synchronisation at start, facades |
| Agent graph | `core/graph_agent.py`, `agent/workflow/` | `AgentState` of one run | planner, decision, executor, solver, reviewer and the two conditional edges |
| Executor policies | `agent/executor.py`, `agent/policies/` | counters in the graph state | build steps, execute a step, assess, remediate |
| Brain | `agent/brain/` | none | classification, plans, prompts, reviews |
| Knowledge base synchronisation | `capabilities/rag/service.py`, `capabilities/rag/indexing/`, the facades | `fingerprint.json` beside the collection | full rebuild, incremental update, synchronisation at start |
| Vector store | `storage/vector/vector_store.py` | Chroma collection, BM25 ids and corpus, their pickle, `kb_version`, an LRU search cache | build, add, deactivate, search |
| Retrieval, graph retrieval | `capabilities/rag/retrieval/`, `capabilities/kg_rag/` | per call only | queries, fusion, ranking |
| Memory and sessions | `capabilities/memory/`, `storage/` | short memory, its summary, episodic memories, session files | add, summarise, switch, delete |
| API bridge and reset | `api/context.py`, `core/reset_handler.py` | the agent or none, a lock, the reset flag | lazy construction, `with_agent`, reset, shutdown |
| Task and chat routes | `api/`, `services/` | none | requests, serialisation of tasks, derived progress and actionability |
| File workspace | `services/file_service.py` and neighbours | an index file and the uploaded files | upload, delete, list |
| Configuration | `config/` | a YAML file | load, validate, save |
| Tools | `tools/`, `capabilities/` | none | retrieval, model, data profile, inspector, memory, discovery |
| Model client | `utils/` | none | calls with retries and timeouts |
| Web client | `static/app.js` | the page | polling of a task, rendering |
| Observability, scripts | `utils/` | log files | logging, tracing, off-line rebuild |

`PROJECT.json` repeats the list with the exact files and says of each part whether it
is modelled, partly modelled or not, and why.

### 1.2 How they interact

* A request comes in through FastAPI.  A request that changes something runs inside
  `bridge.with_agent`, under one `asyncio` lock: requests do not overlap each other.
* `POST /api/tasks` hands work to the runner's pool.  The worker is *not* under the
  bridge's lock: it calls `chat_async` in its own event loop, beside the requests.
* `POST /api/chat` calls `chat_async` in the request.  Workers and the request share one
  `AgentCore`; `chat_async` publishes its request (task id, active file, cancel event)
  in fields of the agent *before* it takes `_execution_lock`, and clears them after it
  released the lock.
* `with_agent_readonly` serves what the page polls without the lock.  Both ways go through
  `get_agent`, which constructs the agent on first use.  Uploads are `async def`: while
  one waits for the bridge's lock, the event loop neither accepts a request nor sends an
  answer.  All other requests wait in the server's pool of threads.
* The model is reached through one module.  The answer of a run is a draft, often streamed,
  that `fix_terminology` has rewritten and corrected by up to four more calls.
* An answer goes to the short memory of the shared agent and to the row of the session it
  was asked in; a full memory is summarised across awaits, while requests under the bridge's
  lock may switch or delete sessions.
* The page polls the list and the detail of tasks every three seconds beside the functions
  its user starts; all of them share one object, and their replies come in any order.
* The graph's nodes save task and step rows; the runner reads the row after the run and
  settles it; a cancellation or the submission itself may write the same row meanwhile.
* Retrieval runs in thread pools (several queries at once) and reads the keyword index
  and the collection, which a synchronisation (under the bridge's lock) and the worker's
  memories (under the execution lock) change.  No lock covers both.
* The fingerprint file says which version of which document is in the collection.  The
  console reads it to show a document as synchronised.
* A reset leaves a flag file and stops the process; the next process performs it.

### 1.3 What is hard

* *Interleaving*: submit, worker and cancel on one row; two updates of the keyword
  index; an update and a search; a file edited while it is indexed.
* *Stale state*: the published request; the row read after a run; a cache key read at
  the start of a search; `pending_final_status` that outlives its answer.
* *Crash and restart*: `os._exit` 0.35 s after a reset or a shutdown, wherever the
  worker is; a fingerprint rewritten in place; a collection without a fingerprint.
* *Partial failure*: swallowed database errors, unreadable files, failing embeddings,
  nodes that raise.
* *Failing servers*: a model that refuses, breaks off or ends a stream early, a retry after
  part of a text was shown, a fallback from the asynchronous to the synchronous client.
* *Lost and overtaking replies*: a list that was asked for before a switch and arrives after
  it, a request that is lost with its reply.
* *Bounded loops*: four loops of the graph (retry, controlled replan, default replan,
  review) with separate counters and one recursion limit.

`PROJECT.json` lists each hazard at the line where it bites, with the properties that
watch it.

### 1.4 What makes each part correct

* **Tasks**: an accepted task is executed once and leaves the table; graph runs do not
  overlap; a result that is final stays as it is; a run sees the request and the
  cancellation of another only while the two overlap.  That a cancel stops the tools of its
  task, and that a refusal ("still running") is true, the code says and does not keep (4.2, 4.3).
* **Graph**: remediation is bounded over the whole run; the rows mirror the plan; nothing
  is answered before its steps are settled; the final status is the one the steps call
  for; reviews and retries alone do not exhaust the recursion limit.
* **Knowledge base**: a document shown as synchronised is indexed, once, in its present
  version; the record is never ahead of the collection; after a rebuild every readable document is there,
  and once where the old collection could be dropped.
* **Vector store**: the keyword index describes the collection; a cached result is what a
  search would compute now; an undisturbed search is exact.
* **Retrieval**: the fusion prefers what both lists prefer; the limits per document hold and
  waste no room; a filter is dropped only when nothing satisfies it; a poor result is
  followed up.
* **Model calls and the answer**: no text is shown twice; a cancel silences the stream; the
  prompt keeps within its room and loses no step's result; the corrections bring
  in no pieces of their prompts and no wordings to be replaced; every answer ends if the
  server ends its streams.
* **Bridge and reset**: one agent, whoever is first; its files are closed when they are
  deleted; a request with the lock has the agent in service; a reset survives a failing
  deletion; every request is answered.
* **Sessions**: a history holds what was asked in it; the memory stays bounded.
* **Page**: whatever order replies come in, the page ends up showing the truth.

## 2. Plan

1. `TaskLifecycle` (runner, rows, chat lock, bridge lock, restart): the behaviour a user
   depends on most and the one with the most actors.  *Done*, with its first proofs.
2. `Workflow` (one run of the graph).  *Done*, with its safety proved.
3. `KnowledgeBase` (files, collection, fingerprint).  *Done*, with its safety proved.
4. `VectorSearch` (keyword index and cache under concurrency).  *Done*, with its safety proved.
5. Abstract specifications.  `JobBoard` (each job in one place, started once and in order,
   results stable) that `TaskLifecycle` implements, and `GraphRuns` (the nodes a run goes
   through and what becomes of its task's status) that both `Workflow` and `TaskLifecycle`
   implement, so that the two modules' views of a run are tied together.  *Done*, checked
   and proved.
6. `Bridge` (construction of the agent, the lock, the two halves of a reset and its
   deletion).  *Done*, with its safety proved.
7. `Sessions` (sessions, their rows, the memory across the awaits of its summary).  *Done*,
   with its safety proved.
8. `ModelClient`, `ContextBudget`, `Synthesis` (a call of the model, the room of the prompt,
   the answer and its terminology).  *Done*, with its safety proved.
9. `Ranking`, `Retrieval` (fusion, limits, the pipeline).  *Done*, with its safety proved.
10. `Page` (the client's view of the tasks).  *Done*.
11. Left: progress and actionability of a task (`services/serializers.py`) against the rows `TaskLifecycle` can
   produce; the file workspace's index and the configuration, each rewritten in place.

## 3. The modules

Every module states the code it models in its header and its bounds beside its
constants.  An operator whose name ends in `_Wrong` is no part of a specification: it is
a plausible slip in the operator after it, kept to show that a property notices it.
`MC...` modules add only what TLC needs (symmetry, a constraint).

### 3.1 TaskLifecycle

Threads are the pool's workers and `Api`, the one request inside the bridge's lock.  Each
has a program counter; a step is a statement group of the code between two points where
another thread can interfere.

| TLA+ | code |
|---|---|
| `row` | `agent_tasks`: status and `cancel_requested` |
| `registered`, `signalled`, `queue` | `TaskRunner.running_tasks`, the set cancel events, the pool's queue |
| `held` | owner of `AgentCore._execution_lock` |
| `published` | the request in the agent's shared fields, cancel event included |
| `source` | `resumed_from` |
| `th[t]` | the thread: program counter, task and the payload fields of the run |
| `mode` | the database handle closed by a reset |
| `Submit`, `Enqueue`, `MarkRunning` | `submit_task` in its three writes |
| `ReadSource`, `SubmitCopy`, `RefuseCopy` | `retry_task`, `resume_task` |
| `CancelRunning`, `FlagCanceled`, `CancelUnknown` | `cancel_task` |
| `Take`, `ClearFlag`, `Settle`, `Finish`, `Pop` | `_run_task`; `Settle` reads the row, `Finish` writes "success" |
| `met` | history: the tasks whose requests were in `chat_async` while the thread's own was |
| `Publish` ... `Retract` | `chat_async` |
| `Plan` ... `ReviewFails` | the nodes, as far as the row, the event and the published request go |
| `Restart` | the end of the process anywhere, and `mark_interrupted` at the next start |

A task id is a uuid in the code: here a member of `Tasks` without row and owner.  A
cancel event belongs to one submission and is identified with its task.  Every write may
be lost, since the store logs and drops exceptions, and so may the read in `Settle`: the
store answers a read that failed with `None`, as if the row were missing.

`chat_async` publishes its request before it waits for the lock, so with a chat beside the
worker a run may read another's context or cancel event.  `ContextIsOwn` and
`CanceledWasRequested` say how far this goes: only to requests that overlapped it (`met`), and
never to one that is over.

`_finalize_pass` saves nothing when the approved answer is empty (`agent/workflow/nodes/reviewer.py:93`).
No run gets there: the solver's answers begin with a line of their own
(`solver_outputs.py:10`), and the texts of an error, a cancellation and the limit are not
empty.  So `ReviewEnds`, and `FinalizePass` in `Workflow`, always save.

`JobBoard` is what a client is promised of all this, without locks, rows or program
counters: a job is nowhere, in the hand of the request that brings it, in one queue or in
one worker's hand; `ended` says which jobs have a result.  `TaskLifecycle` instantiates it
(`Board`) with `hand` as the task of each thread that has one to submit or to run, and
`ended` as the rows in a final status; `KeepsBoard` is the board's specification under this
mapping.

`TaskLifecycle` tells the graph without its steps and `Workflow` (below) without the threads.
`GraphRuns` is what they have in common: each run has a node and the fields on which the
ending depends (status, the status kept for the review, cancel flag, error, replanning), and
runs take turns.  Here (`Graph`) a thread outside the lock is an idle run, the program
counters `begin` and `tool` are inside the node `step`, and a run that a review has ended has
its kept status; there (`Graph` again) the one run is read off `task` and `state`.
`FollowsGraph` is the specification of `GraphRuns` under either mapping, so a field that one
module forgot to reset and the other not would show.

### 3.2 Workflow

One run of the graph; a node is one action.  Model and tool answers are chosen from what
the code distinguishes (`Outcomes`), plans from `Plans`.  `state` keeps the fields of
`AgentState` that decide something, `task` the task payload, `row` and `stepRows` what was
saved.  The two lists of steps (`state["steps"]`, counted by the edge, and `task.steps`,
indexed by the node) are kept apart: `state.legacy` is the length of the first.
`Advance`, `RemedyFor`, `Remediation` and `ReplansByDefault` are the policies; `AfterStep`
is the long tail of the executor node that chooses among retry, controlled replan,
default replan, cancellation and the next step.  The event may be set between two nodes
(`Cancel`) or while a step runs (`ExecuteStep`).

### 3.3 KnowledgeBase

`disk` is `data/`, `index` says how often a chunk (document, version, part) is in the
collection, `fp` is the fingerprint file.  A job (`Sync`, `Rebuild`) goes through remove,
list, read, add in batches, and save; users write and delete files between any two of
these steps, and the process may stop.  Jobs do not overlap because of the bridge's lock.
A changed file gets a version it never had before (modification time and size).
`suspect` is a history variable: the documents of which the module knows why the
fingerprint does not describe them: recorded without being read (`Sync` on a collection
without a fingerprint, an unreadable file), read without being recorded, or left by a
process that stopped inside a job.  The properties say that there is *no other* reason.
`Boot` performs a reset whose parts may fail one by one.  `Replace` is the deletion at the
start of a rebuild; the code logs a failure of it and adds to the old collection, and
`job.removed` says which documents have no old chunk left.

### 3.4 VectorSearch

`coll` is the collection, `corpus` and `ids` the two halves of the keyword index (assigned
one after the other, with the BM25 computation between them), `file` their pickle,
`cache` the results by version.  Updaters run `build_full`, `add_chunks` and
`deactivate_by_docs` in steps; searchers go from the cache key to the stored result.  One
query is modelled; a search returns everything it finds (`top_k` is not reached, no
ranking).  `DropCollection` may fail (`DropFails`): the rebuild then adds to the collection that is
there.  Versions are unique (milliseconds and count in the code).  `doubt` is a history
variable: updates overlapped, or one raised after it had changed the collection, or the
process stopped inside one.

The sources of the two updaters: a synchronisation runs under the bridge's lock, while
the worker adds an episodic memory at the end of a run, under the execution lock.

### 3.5 ModelClient, ContextBudget and Synthesis

`ModelClient` is one call of `utils/ollama_client.py` at a time, in four forms (`kind`): at
once or as a stream, each on `requests` or on `httpx`.  `mode` is the code at hand, since
the asynchronous forms fall back to the synchronous one.

| TLA+ | code |
|---|---|
| `attempt`, `at` | the loop over attempts and where it is: the request, the pause before the next, the stream |
| `out` | the chunks handed to the caller, each as the attempt it comes from |
| `canceled`, `whole` | the cancel event; the text ended with the server's "done" |
| `Answer`, `Garbled`, `Refused`, `Denied`, `Unreachable`, `Connect` | the outcomes of a request: retried, final, or handed to the fallback, which differ between the forms |
| `Chunk`, `SkipLine`, `StreamDone`, `StreamEnds`, `Broken` | the lines of a stream and its three ends; `emitted_any` is `Emitted` |

A stream may have any number of lines, as nothing in the code limits them: `lines` counts them
in a circle, so that a stream without end is one of the model's behaviours, and `out` lists the
first `MaxLines` chunks.  That streams end is an assumption on the server (`StreamStops`, section 6).

`ContextBudget` is `_compress_step_results_for_context` as operators on lengths.  The code
multiplies floats and cuts the product off; where the exact product is a whole number the
float may be just below it, which the argument `short` says for each result.  `Given` says who
gets one of the characters left over: those still cut that fewer than so many others of them
come before in the sorted order, which is what the loop over it does.  `Sorting` has that
order (Python's `sorted`, the largest key first and equals as they were), for `Ranking` too.

`Synthesis` is `synthesize` and `synthesize_async`: `Gather` cuts the results, `Draft` calls
the model, `BeginTerms`, `Rewritten`, `Check`, `Fixed` and `Polished` are `fix_terminology`
with its rounds.  A text is the set of the five flaws the code looks for; what the model
answers is any set.  `Cleanup` is `_cleanup_meta_text`: it cuts a text at the mark of the polishing
and takes out the lines about words to keep (`Cut`), with which an explanation may go, and
puts the draft in the place of a text with pieces of the prompt.

### 3.6 Ranking and Retrieval

`Ranking` has `VectorStore.search` after its two look-ups as operators on sequences of
chunks: `Fuse` is `_rrf_fusion` (ties by the first meeting), `Constrain` the three passes of
`_apply_pre_rerank_constraints`, `Cap` the limit per document.  A reranker is assumed to be
set, and gives any order.  Weights are multiplied to whole numbers.  The loops are recursive
functions over the index of the list they run along, so that they can be proved about.

`Retrieval` is `RagRetrievalPipeline.run` (`async = FALSE`) and `run_async`: the fast path,
one or two queries, the merge, the second round without the filter, the quality, the rewritten
query and the choice between the two results.  The similarities and the chunks that contain
words of the question are chosen freely at each evaluation.  The two numbers of chunks asked
for, `TopK` and `ExpansionTopK`, are settings and independent of each other.  In this repository nothing calls
the pipeline: the retrieval tool calls `search` directly.  The module says what the pipeline
does for a caller that uses it.

### 3.7 Bridge

An actor is a request or the start of the process; its program counter stops wherever
another may interfere.

| TLA+ | code |
|---|---|
| `lock`, `loop` | the owner of `RAGBridge._lock`; the upload that holds the event loop |
| `agent`, `open`, `shut` | `RAGBridge._agent` by number, the agents with open files, a closed vector store |
| `half` | the agents whose constructor raised and left files open |
| `unmarked` | a reset of this process raised in `mark_for_reset` |
| `pending`, `performed`, `flag` | `_reset_pending`, `_RESET_CHECK_PERFORMED`, the file `.need_reset` |
| `disk` | the three things a reset deletes; `old` is what a granted reset should remove, also when more is written to it |
| `Lifespan`, `GetAgent` | `consume_reset_flag_once`, at start and in `get_agent` |
| `DeletePart`, `ClearFlag` | `perform_reset_if_needed`; the flag goes when every part has |
| `Arrive`, `Thread`, `Acquire`, `Ensure` | a request on the event loop, in the pool, `with_agent`, `with_agent_readonly` |
| `Look`, `Build`, `BuildFails`, `TakeAgent` | the two looks of `get_agent` and the read after them |
| `FactoryReset`, `Mark`, `EnterPending`, `Reply`, `Exit` | the reset in its two halves, the answer, and the shutdown behind it |
| `Crash` | any other stop |

### 3.8 Sessions

| TLA+ | code |
|---|---|
| `sessions`, `seq`, `rows` | the tables, with SQLite's counter of AUTOINCREMENT ids; the rows of `conversations` by their `session_id`, which is how all queries ask for them |
| `current`, `short`, `summary` | the agent's session, its short memory, and the questions its summary covers |
| `own` | the session id in the request's context variable |
| `asked`, `created` | history: in which creation of a session a question was asked |
| `Ask`, `Create`, `Switch`, `Delete` | requests under the bridge's lock; `BridgeFree` is their waiting for a synchronous chat |
| `Enter`, `Remember`, `Store`, `Check`, `Summarise`, `Archive`, `Replace` | the run under the execution lock and `apply_post_answer_effects_async`, from await to await |
| `AnswerAtOnce` | small talk and questions about the memory: a row and no entry of the memory; after a rejected review the graph answers too and stores a second row |
| `Shown`, `Compact` | `load_history_messages`; repeated questions replace their drafts, unless they come late |

A round of question and answer is one entry of the memory.  The code counts messages, two
of a round, though its setting `agent.max_history_rounds` speaks of rounds: `MaxRounds` is half
of it.  The writes that may fail are logged in the code; a failing summary leaves the memory as
it is (`unsummed`).

The routes take any session id.  `Ask`, `Switch` and `Delete` do too: an id that is gone,
or one that has not been given yet, which a page may hold that is older than a reset (the reset
deletes the database with its counter of ids).  What is asked under such an id stands in the
history of the session that gets it later; `HistoryIsOwn` names this as its one exception
(`AskedBefore`).

### 3.9 Page

`flow` holds the asynchronous functions in flight: what each awaits and asks for, and the
reply.  `cur`, `tasks`, `curTask`, `detail` and `loading` are fields of `state` in `app.js`.
`Handle` is the server's moment, `Posted`, `Listed` and `Shown` are the parts of `switchSession`,
`sendQuestion`, `fetchTasks` and `fetchTaskDetail` between two awaits, `Tick` is the timer,
`Fails` a request or a reply that is lost, or a chat whose answer the user no longer awaits.  A
new session is current at once; the page then lists the sessions and switches to whatever is
current by then (`"new"`, `"listing"`), while the one left after a deletion is switched to
directly (`"left"`).  What is shown of a task is one number that grows
to `Final` (`Progress`).

## 4. The runs

### 4.1 Runs that pass

| Run | Checks | Bounds, and why they are enough |
|---|---|---|
| `task_lifecycle` | one owner per task; no retry of a living task; ended rows stable; all of it implements `JobBoard`; the runs of the threads implement `GraphRuns` | two tasks (a task and its retry, or two independent ones), one worker as in `AgentCore`, one lost statement, one restart, six nodes (a full round and the beginning of a second).  Symmetric in the tasks. |
| `task_chat` | graph runs never overlap; the context a run reads and the cancellation it follows are its own or those of a request beside it; every accepted task leaves the table (liveness) | one chat beside the worker, which is what competes for the lock and overwrites what the worker published; three nodes, since the properties are about the lock, the ends of a run and what it reads between them |
| `workflow` | remediation bounded; no retry of a retry; rows mirror the plan; steps settled before the answer; final status derived; the run implements `GraphRuns` | plans of up to two steps from three tools (retrieval, model, data: the three kinds of outcomes), two remediations and one review round as chosen, eleven nodes: one full round of two steps with a retry and a second round |
| `workflow_limit` | the recursion limit is not reached by reviews and retries alone | LangGraph's 25 nodes, two review rounds, the defaults; plans of two steps.  `Straight` cuts off states with a replan or an error, which satisfy the property for good |
| `kb_sync` | types; synchronised means indexed exactly; the record is not ahead; a rebuild heals what its deletion reaches | two documents, two versions, two parts, batches of one (an interruption inside a document), one memory, one crash or reset, one failure (of the deletion or of an embedding), unreadable files |
| `vector_search` | types; index current; cache coherent; undisturbed search exact | a synchronisation, a worker, a searcher, three chunks of which two match, two updates (any two kinds may overlap), one exception (a failing deletion included), one restart |
| `synthesis` | no text twice; the room of the prompt; pieces of a prompt and wordings to replace only where the draft has them; a canceled stream is silent; every answer ends if the server ends its streams (liveness) | two attempts (a retry and the last), two chunks listed of streams of any length (a break before and after the first), rooms of 12 for results of 0 to 7 characters with a minimum of 4, up to three of them: enough room, too little for all, too little for the minimum |
| `bridge` | one agent; old data only under the flag; the agent of a request with the lock; every request answered (liveness) | a request of each kind on two threads (a pool that can be full of waiting requests), one failure (a constructor, a deletion or the mark), one stop.  A start after a reset is a further process |
| `retrieval` | fair ranking (over every pair of lists); the filter; the quality | four chunks of two documents with two sections and shared parents, lists of three, limits of `config.yaml` scaled to them; every state also evaluates the pure operators once |
| `sessions` | histories; the memory | two questions, of which one is a synchronous chat and the other its repetition, each answered at once, by the graph or both; three sessions (a deletion followed by a new one, an id not given yet), a memory of one round, a history of two rows, one failure |
| `page` | the page settles (liveness) | two tasks in two sessions, two functions of the user beside a poll, two events among actions, a stopped chat and losses: every pair of functions overlaps in every order of replies |

Every bound is a guard of the module and named there.  `MaxSteps` matters for
`LimitNeedsReplan` (a plan of ten steps reaches 25 nodes by itself: the planner's parser
has no limit of its own), and the property claims nothing for longer plans.

`CHECK_DEADLOCK FALSE` where the system may stop: a run of the graph ends, the bounds on
chats, crashes and updates are used up, and an idle server does nothing.  `synthesis` and
`retrieval` return to where they began and are checked for deadlock.

### 4.2 A run that shows a disagreement

It checks one property that a message of the code states, and TLC finds a behaviour of the
code that breaks it.

| Run | Statement | What happens |
|---|---|---|
| `task_refusal` | "The task is still running, it cannot be retried" | `submit_task` writes "running" after the hand-over; a worker that settles first is overwritten, and the row stays "running" with nobody behind it.  Every retry is refused until the next start. |

### 4.3 Further disagreements

The modules state these properties; the constants named make TLC find a counterexample in
seconds or a few minutes.  No run repeats them.

| Definition | Constants | What happens |
|---|---|---|
| `CancelStopsTools` | `TaskLifecycle`, `MaxChats = 1`, no losses, no restarts | "The cancel request was sent, waiting for the current step to exit safely" (`agent/task_runner.py:157`); but a chat publishes its context over the running task's before it waits for the lock, the executor then reads the chat's event, and the canceled task goes on to its next tool |
| `StreamIsAwaitedInTime` | `Synthesis` under `Spec` instead of `ServedSpec`, no results | the setting `models.ollama.stream_timeout` is described as the longest time a streamed answer is waited for (`services/config_metadata.py:57`); it is the timeout of one read, and a server that sends lines without text keeps the answer waiting without end |
| `ErrorIsFailed` | `Workflow`, {LLM}, `MaxSteps = MaxReviews = 1`, `MaxReplans = 0` | after a failed review the planner raises; the solver answers with the error and the status failed, and the review that passes it takes the status kept from the first answer: "The task has completed successfully" |
| `SyncedIsIndexed` | `KnowledgeBase`, `MaxCrashes = 1`, no memory | a stop during the first build leaves a partial collection without a fingerprint; the next start records every file as indexed and reads none |
| `RemovedIsGone` | `KnowledgeBase`, no failures, no crashes | the fingerprint is taken before the directory is listed: a file uploaded in between is indexed and not recorded; deleted later, its chunks stay, though an update covers "added, modified, deleted" |
| `IndexMatchesCollection` | `VectorSearch`, two overlapping updates, no failures | two updates in `_build_bm25_index`: the later ids are paired with the older corpus, in memory and in the pickle |
| `InterruptedIsMarked` | `TaskLifecycle`, `MaxRestarts = 1` | the sweep at start looks for "running" only: a task saved as "pending" when the process stopped stays pending |
| `RaisedIsFailed` | `TaskLifecycle`, no chats, losses, restarts | `chat_async` turns every exception into a text, so the handler in `_run_task` that writes "failed" is never reached, and the row settles as "success" |
| `CanceledIsFinal` | as above | a canceled task fails its review and is planned again, so its row turns back to "running" on the way |
| `DegradeMeansNoReplan` | `Workflow`, tools {LLM}, `MaxSteps = 2`, 14 nodes | the policy degrades, and the default replan of the node follows all the same |
| `ReplanBounded` | `Workflow`, {RAG, LLM}, `MaxSteps = 1`, `MaxReviews = 2`, 14 nodes | `replan_max_attempts` is compared only for low-quality retrievals; bad answers replan without it |
| `AnswerReturnedIsSaved` | `Workflow`, {LLM}, `MaxSteps = MaxReviews = 1` | past the review limit the explanation is saved in the row and not returned |
| `SyncedIsIndexed` | `KnowledgeBase`, `MayMisread = TRUE`, or `MaxMemories = 1` with `MaxCrashes = 0` | an unreadable file is recorded as indexed; a memory stored before the first upload makes the collection non-empty, so no rebuild takes place |
| `StartFallsBack` | `KnowledgeBase`, `MaxCrashes = 1` | a stop while the fingerprint is rewritten leaves a file that cannot be parsed, and the agent does not start |

What else the modules made visible, without a property of its own:

* `POST /api/tasks/{id}/cancel` runs under `with_agent`, so it waits for a synchronous chat to
  end before it sets the event (`api/routes_tasks.py:72`).
* `factory_reset` closes the vector store and `mark_for_reset` may raise after it: the
  agent goes on with a closed store (`LockedUsesLive` names this case).  The flag may be there all
  the same, and the next start deletes (`Mark`).
* A constructor of the agent that raises leaves its store and its database open (`half`).
* A small talk answer that its review rejects is stored, and the graph's answer to the same
  question beside it (`AnswerAtOnce`).
* The automatic title looks at an empty `short_memory`, which a compression leaves too: a
  title the user has chosen may be overwritten (`core/agent_core.py:334`).
* A switch during a compression is wiped from the memory when the compression ends, and the
  summary of the old session replaces that of the new one
  (`capabilities/memory/service.py:91`); `Replace` does so.
* The session id that the deletion of a session returns may be that of the running task
  (context variable), and the answer of a chat makes its session current again after a switch
  (`static/app.js:1295`); `Ended` does so.
* A detail that is loading when the user switches to a session without tasks leaves its
  "loading" text; `ScreenSettles` therefore speaks of a page that has a current task.
* The quality of the rewritten query is measured against the larger number of hits it asked
  for, so an equally good result scores lower (`capabilities/rag/retrieval/pipeline.py:234`);
  `Expand` does so.
* The text of the synchronous fallback is handed out after a cancel
  (`utils/ollama_client.py:402`); `CanceledIsSilent` names this case.
* `last_search_meta` is one field of the store for searches that run in parallel.

## 5. What is proved

### 5.1 Tasks

`TaskLifecycle_proofs`, for every set of tasks, every number
of workers and all bounds, from the
assumptions `ThreadAssumption` (the request thread is no worker, and the sentinel is no
thread), `TaskAssumption` (nor a task) and `BoundAssumption` (the bounds are natural numbers).

* `TypeCorrect`: `Spec => []TypeOK`, which no run repeats.  `TypeOK` is not inductive, since
  a worker whose task were the sentinel would index `row` outside its domain.  `Typed` adds
  `ThreadRoles`: the program points a worker and the request thread can have, and that a
  busy thread has a task.  The lemmas about the store (`SaveType`, `UpdateStatusType`, ...)
  say what a write, lost or not, leaves of the other rows; the rest is one lemma per group
  of actions.
* `RunsAreSerial`: `Spec => []OneGraphRun`.  Inductive together with `Typed`: each step
  either leaves the lock and the set of threads inside alone (`SameLock`) or is `Acquire`
  or `Release`.
* `TasksHaveOneOwner`: `Spec => []OneOwner`, inductive together with `Typed`.  The
  equation `registered = Queued \cup WorkerTasks` carries the argument: `Enqueue` puts a
  task in both sides, `Take` moves it within the right side, and `Pop` removes it from
  both, which needs that no other worker and no place of the queue holds it.
* `EndedRowsAreStable`: `Spec => EndedIsStable`, an action property.  It follows from
  `Typed` and `RequestKnown` (a request between the halves of a submission or a cancel
  works on a registered task, because `Pop` waits for the runner's lock): whoever writes a
  row owns it, and the two exceptions, the sweep at start and the cancel of an unknown
  task, spare rows that have ended.
* `RetriesFollowTheirSource`: `Spec => []NoRetryOfLiveTask`.  `retry_task` reads the source's
  row before it takes the lock under which it looks for the task, so the row may be old.  The
  strengthening, `SourcesRest`, says what it still proves: a task whose row was read has a
  row, and the source of a copy has a row and no owner.  Since `Submit` and `SubmitCopy` take
  an id without a row, such a source never gets an owner again.
* `ContextsAreOwn`: `Spec => []ContextIsOwn`, with chats beside any number of workers.  The
  invariant is `Overlaps`: what is published is the request of some thread inside `chat_async`;
  of two threads inside, one has met the other; and one that has met nobody reads
  its own request.  What changes who is inside are `Publish` and `Retract` only (`SameInside`).
* `CanceledRowsWereRequested`: `Spec => CanceledWasRequested`.  `Causes` says of whatever makes a
  run believe it is canceled (the event it holds, its status, the flag in its row) that its own
  task was signalled, or one that overlapped it.  A cause is not forgotten while the run lasts
  (`CauseStays`), and what a run reads inside the lock is one of its events (`GraphReads`), which
  `Overlaps` gives.
* `RunnerKeepsBoard`: `Spec => KeepsBoard`, the refinement.  `Init` maps to the board's
  `Init`, and under `Typed`, `OneOwner` and `RequestKnown` each step maps to one of the
  board's: `Submit`, `SubmitCopy` and `StartChat` to `Receive`, `Enqueue` to `Accept`,
  `Take` to `Start`, `Pop` and the end of a chat to `Leave`, `Restart` to `Stop`, and all
  others to `Work`.  For these the argument is that a task is nowhere on the board exactly
  when nobody owns it (`NowhereIsUnowned`, which needs `OneOwner`), and that such a task's
  row gets no result (`NoResultFromNowhere`) and loses none (`EndedRowKept`).
* `RunsFollowGraph`: `Spec => FollowsGraph`, the second refinement.  `OneGraphRun` gives that the
  runs take turns.  The invariant `AllInForm` says of a thread what the outline presumes: its
  fields are untouched until its first node has run, a tool works in a run that has noticed no
  cancellation, and only a run that is over has raised.  `BeginTool` and everything outside the
  lock leave the runs alone (`OthersFollow`); each node is a step of the outline with the same
  fields (`NodeBecomes`).

### 5.2 The agent graph

`Workflow_proofs`, from `ToolsAssumption` and `BoundsAssumption` (the tools are
those of the code and the model is one of them, a plan may have a step, limits are natural
numbers), for any plans and any limits.

* `TypeCorrect`: `Spec => []TypeOK`, which no run repeats, strengthened by `IdsBounded`: the
  ids of the rows have a greatest one, so that the next id is a number.  This takes an
  induction over the natural numbers, which the lemma `LeastNat` supplies: a set of numbers
  that is not empty has a least element, here that of the bounds.
* `RemediationIsBounded`: `Spec => []RemediationBounded`, and `RetryIsNotRetried`:
  `Spec => []NoRetryOfRetry`.  `Retries` adds to the bound that no two retries are
  neighbours, that none lies after the current step, and that a retry about to be run follows a
  failure of its own tool.  An insertion adds one retry at most (`InsertCount`, about the
  cardinality of the retries' positions), and each is paid for by the counter.
* `RowsMirrorSteps`, `StepsAreSettled`, `EndStatusIsDerived`: the three from one invariant,
  `Course`, which says at each node, until the planner fails, what the run knows: before the
  executor that the steps behind the index are settled and those after it are not, at the
  solver that all are and that the row has the status they call for.
* `LimitIsEnough`: `Spec => []LimitNeedsReplan` under `MaxReviews # 0` and
  `RecursionLimit >= (MaxReviews + 1) * Round + MaxRemediations`, where
  `Round = MaxSteps + 5` counts the nodes of a round.  The invariant, `Ample`, compares what is
  left of the limit with what the rest of the run can take.  With the defaults (25 nodes, two
  reviews, two remediations) this covers plans of two steps and not of three: 23 and 26
  nodes.  The run `workflow_limit` has the same bound on its plans.
* `RunFollowsGraph`: `Spec => FollowsGraph`, one lemma per node.  `Agrees` is what the outline
  presumes of the run: the edge after the executor counts the steps the task has
  (`state.legacy`), and a cancellation the run noticed is on the task.

### 5.3 The knowledge base

`KnowledgeBase_proofs`, from `KBAssumption`, for any documents, versions, parts, batches,
failures and stops.  `SynchronisationHolds` is the invariant, `Types` with `Syncing`:

* `Described`: the fingerprint describes each document that is not among the suspects: the
  chunks of one version, at least as new as recorded, or none where it records none;
* `FullJob`, `IncrementalJob`, `IncrementalSave`: what a running job knows.  A chunk it will
  add counts as there already (`Held`, `Queued`, `Split`), so that batches are no cases of
  their own; of an incremental job it says which documents it has removed, which it left
  alone, and that those differ from the ones it reads;
* `Shape`: the order of the steps, and that no chunk is queued twice.

From it follow `TypeCorrect`, `SyncedDocumentsAreExact` (`[]SyncedIsExact`), `RecordIsNotAhead`
(`[]RecordNotAhead`) and `RebuildIsHealing` (`[]RebuildHeals`).  The last holds of a rebuild that
keeps the old collection too: `FullJob` says then that each document read is queued or there in
whole, and claims a single copy only of the documents in `job.removed`.

### 5.4 The vector store

`VectorSearch_proofs`, from `SearchAssumption`, for any number of workers, searching threads,
chunks, updates, failures and stops.  Three invariants, each with those before it:

* `Types`: the types, what a program point says of its updater (`Shape`), and that a chunk is
  in the collection, in one updater's hand or not made (`Owned`), from which no chunk comes
  twice.  It gives `TypeCorrect`.
* `Indexed`: an update without another beside it has read what the collection is
  (`Rebuilding`); nothing else is under way beside it (`Lone`); and the index and its file are
  whole unless such an update is between its first change and its last assignment (`Settled`).
  `IndexStaysCurrent` (`[]IndexIsCurrent`) follows, also across a stop in the middle.
* `Fresh`: while no update is between its first change and its version, what is cached for
  the current version, and all that a search with this version has read so far, is what there
  is.  `NewVersion` makes it true of nobody, since the version is one that no entry and no
  search has (`Versions`); a step that changes anything leaves its update dirty
  (`ChangesShow`).  `CacheStaysCoherent` (`[]CacheIsCoherent`) follows.

`SearchesAreExact` (`[]SearchIsExact`) adds `Searching`: a search that began between updates,
and after which none has begun, goes by the current version and ends with what there is.

### 5.5 Bridge

`Bridge_proofs`, from `BridgeAssumption` (the kinds of requests are disjoint, and neither
the start nor the sentinel is one), for any requests and any pool.  None of the three
invariants is inductive.  `Inv` is the conjunction of `Placed` (no request is anywhere while
the process does not serve, and only its start deletes), `Single` (at most one agent, and what is
open is the agent's or was left by a constructor that raised), `Locking` (who is past `Acquire` has the lock; the agent a request has looked at is
there; a closed store has a reset behind it, granted or not marked) and `Kept` (a granted reset has its flag; a
deletion that spared nothing has removed every part before the next).  One lemma per part, one
step per action.

* `AgentIsSingle`: `Spec => []OneOpenAgent`.
* `LockedRequestsHaveTheAgent`: `Spec => []LockedUsesLive`.  The agent is only taken out of
  service by `EnterPending`, which waits for the lock, and only a request without the lock
  constructs one when the lock is free.
* `ResetIsNotForgotten`: `Spec => []OldOnlyUnderFlag`.  The flag is cleared at a start, after a
  deletion that spared nothing, and nothing is written between the two.

### 5.6 Model calls and the answer

`Synthesis_proofs`, from `ClientAssumption`, `BudgetAssumption` (the room and the minimum are
positive) and `ResultsAssumption` (results are sequences of lengths), for any number of
attempts, streams of any length and any results.

* `AnswersAreWhole`: `Spec => []OneAnswer`.  `ClientInv`: nothing is handed out before a request
  or a pause, and a stream has handed out only its own attempt's text; a broken stream
  is retried only when it has handed out nothing.
* `CancelSilences`: `Spec => CanceledIsSilent`, an action property.  Only streams are canceled
  (`ClientInv`), so a call at once hands its text out unless it is the fallback.
* `TermsOnlyFix`: `Spec => []OnlyTheDraftSlips`.  `TextInv`: up to the correction the text has
  nothing the draft has not (`Clean`); in the loop after it a call has answered, and the last
  cleanup makes up for what it brought (`CleanupFacts`).  The theorem is about pieces of a prompt and
  wordings to replace.  Of the other flaws it says nothing: a polish may add English or explain a
  term wrongly, and when the calls that should repair it fail, the answer has more of them than
  the draft.
* `RoomStaysShared`: `Spec => []RoomIsShared`, inductive as it stands, since each step cuts new
  results or forgets the old ones.  The argument is arithmetic: the portions, cut off from
  exact quotients or just below them, sum up to no more than what is left, and fall short of it by
  at most one for each result still cut (`PortionFacts`, `ExtraFacts`); so the first round of
  single characters (`HandOutFacts`, on `FirstFew`) uses up the rest, the second does nothing, and
  the budgets are together exactly the room (`AllocsFacts`).

### 5.7 Sessions

`Sessions_proofs`, from `SessionsAssumption`, for any questions and texts, any limits and any
number of sessions and failures.

* `TypeCorrect`: `Spec => []TypeOK`, which no run repeats.  `Types` adds that each new id is
  the next number, that a question that was asked names a session, and that the question of
  a run was asked.
* `HistoriesAreOwn`: `Spec => []HistoryIsOwn`.  The invariant is `Kept`: a question whose session
  is there was asked in that session and not in an earlier one of its id (`AskedThere`, which
  holds because an id is given once: AUTOINCREMENT), or was asked under the id before it was given,
  and each row stands with the id of its question (`RowsAreOwn`).  The rest is what the page makes of the rows:
  `NewestFacts` of the cut, `CompactFacts` of the drafts, an induction along the rows.
* `MemoryStaysBounded`: `Spec => []MemoryIsBounded`.  `MemoryIsBounded` is not inductive: a run
  may remember an answer only if the memory was shorter before.  `Bounded` says by how much,
  depending on where the run is.

### 5.8 Ranking and retrieval

`Retrieval_proofs`, from `RankingAssumption` and `RetrievalAssumption`, for any collection, any
lists the two indexes return, any limits and thresholds.

* `RankingIsFair`: `Spec => []SearchIsFair`.  In the fusion the weight of a rank falls with it,
  since `Whole` is a multiple of every divisor (`WholeFacts`, `WeightFalls`), and `Descending`
  is a permutation in which a heavier chunk comes first (`PlaceFacts`, `DescendingFacts`).
  Each of the three passes makes a sequence that grows along its input (`Grows`): what may be
  taken at its end might have been taken before (`CanTakeFalls`), so a chunk was left out
  because it could not be taken, and not because it came late (`PassFacts`).
* `FilterIsHonoured`: `Spec => []FilterHonoured`, and `PoorIsPursued`: `Spec => []QualityIsPursued`.
  `RInv` says of each stage of the pipeline what its lists have been through: what waits for an
  evaluation was filtered unless the filter was dropped (`Selected`), and only a phase that found
  nothing within the filter drops it (`DroppedForNothing`); the result put aside for the
  expansion is as the first phases left it (`Remembered`).  That a result better on the scale of
  `ExpansionTopK` is also better on that of `TopK` is `ScoreFacts`: the quotient in the score falls with
  its divisor.  This needs `ExpansionTopK >= TopK`, which is no assumption of the module but a
  hypothesis in the property: both configurations keep to it, and the settings can be changed.

### 5.9 What is only model-checked

* Liveness (`AcceptedTasksLeave`, `AnswerEnds`, `Answers`, `ScreenSettles`): beyond the prover.
  Every other property of a passing run is stated by a theorem.
* That the bounds of section 4 are large enough to show
  what they are meant to show: mutated definitions are refuted in the same runs.

Induction over the natural numbers is at hand in the form of `LeastNat` (a set of natural
numbers that is not empty has a least element) and `UpTo`; the recursive functions of the
models are shown to exist with it (`FoldExists`, `SumsExist`).  No module uses a RECURSIVE
operator.

## 6. Fairness

`AcceptedTasksLeave` assumes weak fairness of each
worker's steps, of each thread's run and of a begun request (the operating system
schedules threads, and calls to the model server end by their timeouts), and strong
fairness of the two steps that wait for a lock, `Acquire` and `Pop`: a lock that becomes
free again and again is granted in the end.  Python's locks do not promise an order, so
this is the weakest assumption under which anybody gets a contended lock at all.  Nothing
is assumed of users: no request need ever come.

`AnswerEnds` assumes weak fairness of the model's side (`Model`: every request has a timeout,
so something comes of it) and of the service (`Work`).  Nobody need cancel.  Its run checks it under
`ServedSpec`, which assumes in addition that the server, or the network, ends each stream
(`ServerStops`): the code's timeout is one per read (`utils/ollama_client.py:117` and `:358`), so nothing in
the program does; `StreamIsAwaitedInTime` (4.3) fails for that reason.

`Answers` assumes weak fairness of each request's steps: its thread is scheduled, and a lock
or a thread of the pool that stays free is granted.  Weak fairness is enough because there is
one locked request of each kind, each asking once.  Neither the arrival of requests nor the next
start of the process is promised.

`ScreenSettles` assumes that the timer ticks, that requests are handled and replies
arrive (a lost one is an event of its own, and there are finitely many), and that tasks come to
an end, which `AcceptedTasksLeave` says.  The user need not act.

## 7. What is not modelled

* Texts: prompts, classification by keywords, scores, wording, chunking.  They
  appear as choices wherever a decision depends on them; `VectorSearch` takes a chunk to
  match or not (`Matching`) where BM25 gives it a score.
* The off-line HNSW rebuild script, `set_reranker`, `close()` while searches run.
* A pickle that is garbled by two writers at once; a `kb_version` that repeats within a
  millisecond.
* Empty documents, and listing or removal that raises inside a job.
* Artifacts, the trace's event log and the listing queries of the task store.
* What the page derives from a task (progress, audit, actionability in
  `services/serializers.py`), its rendering, its settings and its uploads.
* Preferences, titles and the queries of the memory tool; the order of two writes to one
  session's row within SQLite.
* Similarities, the words of a question and the orders of a reranker, which are choices; a
  store without a reranker.
* Graph retrieval keeps nothing between calls.  The file workspace and the configuration are
  single files, read and rewritten by requests under the bridge's lock: what could go wrong is
  a stop while one is rewritten, the hazard `KnowledgeBase` has for the fingerprint.  Rendering
  and logging have no state the properties could be about.
