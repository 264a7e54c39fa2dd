------------------------- MODULE TaskLifecycle_proofs -------------------------
(***************************************************************************)
(* Proofs about TaskLifecycle, for any set of tasks, any number of workers *)
(* and any bounds: the types (TypeCorrect), then the invariants and the    *)
(* action properties that follow from them, and last that the module       *)
(* implements JobBoard and GraphRuns.                                      *)
(***************************************************************************)
EXTENDS TaskLifecycle, TLAPS

Rows == [Tasks -> [status : RowStatus, cancel : BOOLEAN]]

\* The program counters a thread can have: a worker serves no request, and the
\* request thread has no submission to settle.
RolePcs(t) == IF t = Api THEN {"idle"} \cup RequestPcs \cup (RunPcs \ {"clear", "settle", "finish", "pop"})
                         ELSE {"idle"} \cup RunPcs

\* A busy thread works for a task (a shutdown excepted).
ThreadRoles ==
    \A t \in Threads : /\ th[t].pc \in RolePcs(t)
                       /\ th[t].pc \notin {"idle", "closing"} => th[t].task \in Tasks

Typed == TypeOK /\ ThreadRoles

\* What a write for task k leaves behind: a table in which no other row has changed
\* and no row has gone.
Written(k) ==
    /\ row' \in Rows /\ lost' \in Nat
    /\ \A j \in Tasks : /\ j # k => row'[j] = row[j]
                        /\ row[j].status # "absent" => row'[j].status # "absent"

-----------------------------------------------------------------------------
(* Lemmas about the store.                                                  *)

\* A write of one row, lost or not.
LEMMA PersistWrites ==
    ASSUME NEW k, NEW new \in Rows, TypeOK, Persist(new),
           \A j \in Tasks : /\ j # k => new[j] = row[j]
                            /\ row[j].status # "absent" => new[j].status # "absent"
    PROVE  Written(k)
<1>1. row' \in Rows /\ lost' \in Nat
  BY BoundAssumption DEF Persist, TypeOK, Rows
<1>2. row' = new \/ row' = row
  BY DEF Persist
<1> QED BY <1>1, <1>2 DEF Written

\* save_task.
LEMMA SaveType ==
    ASSUME NEW k, NEW s \in RowStatus \ {"absent"}, NEW c \in BOOLEAN, TypeOK, SaveTask(k, s, c)
    PROVE  Written(k)
<1> DEFINE new == [row EXCEPT ![k] = [status |-> s, cancel |-> c]]
<1>1. new \in Rows
  BY DEF TypeOK, Rows
<1>2. \A j \in Tasks : j # k => new[j] = row[j]
  BY DEF TypeOK, Rows
<1>3. \A j \in Tasks : row[j].status # "absent" => new[j].status # "absent"
  BY DEF TypeOK, Rows
<1>4. Persist(new)
  BY DEF SaveTask
<1> HIDE DEF new
<1> QED BY <1>1, <1>2, <1>3, <1>4, PersistWrites

\* The two UPDATE statements.
LEMMA UpdateStatusType ==
    ASSUME NEW k \in Tasks, NEW s \in RowStatus \ {"absent"}, TypeOK, UpdateTaskStatus(k, s)
    PROVE  Written(k)
<1> DEFINE new == IF row[k].status = "absent" THEN row ELSE [row EXCEPT ![k].status = s]
<1>1. new \in Rows
  BY DEF TypeOK, Rows
<1>2. \A j \in Tasks : j # k => new[j] = row[j]
  BY DEF TypeOK, Rows
<1>3. \A j \in Tasks : row[j].status # "absent" => new[j].status # "absent"
  BY DEF TypeOK, Rows
<1>4. Persist(new)
  BY DEF UpdateTaskStatus
<1> HIDE DEF new
<1> QED BY <1>1, <1>2, <1>3, <1>4, PersistWrites

LEMMA SetCancelType ==
    ASSUME NEW k \in Tasks, NEW c \in BOOLEAN, TypeOK, SetTaskCancelRequested(k, c)
    PROVE  Written(k)
<1> DEFINE new == IF row[k].status = "absent" THEN row ELSE [row EXCEPT ![k].cancel = c]
<1>1. new \in Rows
  BY DEF TypeOK, Rows
<1>2. \A j \in Tasks : j # k => new[j] = row[j]
  BY DEF TypeOK, Rows
<1>3. \A j \in Tasks : row[j].status # "absent" => new[j].status # "absent"
  BY DEF TypeOK, Rows
<1>4. Persist(new)
  BY DEF SetTaskCancelRequested
<1> HIDE DEF new
<1> QED BY <1>1, <1>2, <1>3, <1>4, PersistWrites

\* So does the sweep of a restart.
LEMMA SweepType == ASSUME TypeOK PROVE MarkInterrupted \in Rows
  BY DEF TypeOK, Rows, MarkInterrupted, RowStatus, Ended

-----------------------------------------------------------------------------
(* Lemmas about the threads.                                                *)

LEMMA IdleType == IdleThread \in ThreadState
  BY BoundAssumption DEF IdleThread, ThreadState

\* A superstep is spent.
LEMMA SpendType ==
    ASSUME NEW r \in ThreadState, r.fuel > 0
    PROVE  /\ [r EXCEPT !.fuel = @ - 1] \in ThreadState
           /\ [r EXCEPT !.fuel = @ - 1].pc = r.pc
           /\ [r EXCEPT !.fuel = @ - 1].task = r.task
<1>1. r.fuel - 1 \in 0..RecursionLimit
  BY BoundAssumption DEF ThreadState
<1>2. [r EXCEPT !.fuel = @ - 1] \in ThreadState
  BY <1>1 DEF ThreadState
<1> QED BY <1>2 DEF ThreadState

\* When one thread takes a step, the types are kept if that thread's are.
LEMMA StepTyped ==
    ASSUME Typed, NEW t \in Threads, NEW r \in ThreadState, Become(t, r),
           r.pc \in RolePcs(t), r.pc \notin {"idle", "closing"} => r.task \in Tasks,
           row' \in Rows, lost' \in Nat,
           registered' \subseteq Tasks, signalled' \subseteq Tasks,
           source' \in [Tasks -> Tasks \cup {None}], queue' \in Seq(Tasks),
           held' \in Threads \cup {None}, published' \in Tasks \cup {None},
           met' \in [Threads -> SUBSET Tasks],
           mode' \in {"up", "closed"}, restarts' \in Nat, chats' \in Nat
    PROVE  Typed'
<1>1. th' \in [Threads -> ThreadState]
  BY DEF Typed, TypeOK, Become
<1>2. TypeOK'
  BY <1>1 DEF TypeOK, Rows
<1>3. ThreadRoles'
  BY DEF Typed, TypeOK, ThreadRoles, Become, RolePcs
<1> QED BY <1>2, <1>3 DEF Typed

\* The counters of a graph run are open to workers and to the request thread.
LEMMA RunRoles ==
    ASSUME NEW t \in Threads
    PROVE  LockPcs \cup {"publish", "lock", "retract"} \subseteq RolePcs(t)
  BY DEF RolePcs, RunPcs, LockPcs, NodePcs

-----------------------------------------------------------------------------
(* Every action keeps the types.                                            *)

\* The nodes of the graph.
LEMMA GraphMoves ==
    ASSUME Typed, NEW t \in Threads, GraphStep(t)
    PROVE  /\ th[t].pc \in LockPcs /\ th[t].task \in Tasks
           /\ Written(th[t].task) /\ UNCHANGED graph
           /\ \E r \in ThreadState : Become(t, r) /\ r.pc \in LockPcs /\ r.task = th[t].task
<1> DEFINE k == th[t].task
<1>1. /\ th[t] \in ThreadState /\ th[t].pc \in LockPcs
      /\ th[t].status \in {"running", "canceled", "failed"}
      /\ th[t].cancel \in BOOLEAN /\ th[t].seen \in Tasks \cup {None}
      /\ published \in Tasks \cup {None}
  BY DEF GraphStep, Plan, PlanFails, Decide, NoStep, StepCanceled, StepNotCanceled,
         BeginTool, SkipTool, RepeatStep, FinishStep, FinishCanceled, SolveError,
         SolveCanceled, Solve, ReviewEnds, ReviewFails, AtNode, LockPcs, NodePcs,
         Typed, TypeOK, ThreadState
<1>2. k \in Tasks
  BY <1>1 DEF Typed, ThreadRoles, LockPcs, NodePcs
<1>3. UNCHANGED graph
  BY DEF GraphStep, Plan, PlanFails, Decide, NoStep, StepCanceled, StepNotCanceled,
         BeginTool, SkipTool, RepeatStep, FinishStep, FinishCanceled, SolveError,
         SolveCanceled, Solve, ReviewEnds, ReviewFails
<1>4. SUFFICES /\ Written(k)
               /\ \E r \in ThreadState : Become(t, r) /\ r.pc \in LockPcs /\ r.task = k
  BY <1>1, <1>2, <1>3
<1>5. {"plan", "decide", "step", "solve", "review", "begin", "tool", "unlock"} \subseteq LockPcs
      /\ LockPcs \subseteq RunPcs \cup RequestPcs
  BY DEF LockPcs, NodePcs, RunPcs
<1>6. UNCHANGED <<row, lost>> => Written(k)
  BY DEF Typed, TypeOK, Rows, Written
<1>7. ASSUME NEW p \in ThreadState, Advance(t, p), th[t].fuel > 0, p.fuel = th[t].fuel,
             p.pc \in LockPcs, p.task = k
      PROVE  \E r \in ThreadState : Become(t, r) /\ r.pc \in LockPcs /\ r.task = k
  <2> DEFINE r == [p EXCEPT !.fuel = @ - 1]
  <2>1. r \in ThreadState /\ r.pc = p.pc /\ r.task = p.task
    BY <1>7, SpendType
  <2>2. Become(t, r)
    BY <1>7 DEF Advance
  <2> QED BY <1>7, <2>1, <2>2
<1>8. WhenDone(t) \in {"plan", "solve"}
  BY DEF WhenDone
<1>9. {"running", "canceled", "failed", "success", "partial"} \subseteq RowStatus \ {"absent"}
  BY DEF RowStatus, Ended
<1> USE DEF Typed
<1>10. CASE Plan(t)
  <2> DEFINE p == [th[t] EXCEPT !.pc = "decide", !.status = "running",
                                !.pending = "none", !.cancel = FALSE, !.replan = FALSE]
  <2>1. p \in ThreadState
    BY <1>1, <1>5 DEF ThreadState
  <2>2. p.pc = "decide" /\ p.task = k /\ p.fuel = th[t].fuel
    BY <1>1 DEF ThreadState
  <2>3. Written(k)
    BY <1>10, <1>9, SaveType DEF Plan
  <2> QED BY <1>10, <2>1, <2>2, <2>3, <1>5, <1>7 DEF Plan, AtNode
<1>11. CASE PlanFails(t)
  <2> DEFINE p == [th[t] EXCEPT !.pc = "decide", !.error = TRUE]
  <2>1. p \in ThreadState
    BY <1>1, <1>5, <1>8 DEF ThreadState
  <2>2. p.pc \in LockPcs /\ p.task = k /\ p.fuel = th[t].fuel
    BY <1>1, <1>5, <1>8 DEF ThreadState
  <2>3. Written(k)
    BY <1>11, <1>6 DEF PlanFails
  <2> QED BY <1>11, <2>1, <2>2, <2>3, <1>7 DEF PlanFails, AtNode
<1>12. CASE NoStep(t)
  <2> DEFINE p == [th[t] EXCEPT !.pc = WhenDone(t)]
  <2>1. p \in ThreadState
    BY <1>1, <1>5, <1>8 DEF ThreadState
  <2>2. p.pc \in LockPcs /\ p.task = k /\ p.fuel = th[t].fuel
    BY <1>1, <1>5, <1>8 DEF ThreadState
  <2>3. Written(k)
    BY <1>12, <1>6 DEF NoStep
  <2> QED BY <1>12, <2>1, <2>2, <2>3, <1>7 DEF NoStep, AtNode
<1>13. CASE StepCanceled(t)
  <2> DEFINE p == [th[t] EXCEPT !.pc = WhenDone(t), !.status = "canceled", !.cancel = TRUE]
  <2>1. p \in ThreadState
    BY <1>1, <1>5, <1>8 DEF ThreadState
  <2>2. p.pc \in LockPcs /\ p.task = k /\ p.fuel = th[t].fuel
    BY <1>1, <1>5, <1>8 DEF ThreadState
  <2>3. Written(k)
    BY <1>13, <1>9, <1>1, SaveType DEF StepCanceled
  <2> QED BY <1>13, <2>1, <2>2, <2>3, <1>7 DEF StepCanceled, AtNode
<1>14. CASE StepNotCanceled(t)
  <2> DEFINE p == [th[t] EXCEPT !.pc = "begin"]
  <2>1. p \in ThreadState
    BY <1>1, <1>5, <1>8 DEF ThreadState
  <2>2. p.pc \in LockPcs /\ p.task = k /\ p.fuel = th[t].fuel
    BY <1>1, <1>5, <1>8 DEF ThreadState
  <2>3. Written(k)
    BY <1>14, <1>6 DEF StepNotCanceled
  <2> QED BY <1>14, <2>1, <2>2, <2>3, <1>7 DEF StepNotCanceled, AtNode
<1>15. CASE SolveError(t)
  <2> DEFINE p == [th[t] EXCEPT !.pc = "review", !.status = "failed"]
  <2>1. p \in ThreadState
    BY <1>1, <1>5, <1>8 DEF ThreadState
  <2>2. p.pc \in LockPcs /\ p.task = k /\ p.fuel = th[t].fuel
    BY <1>1, <1>5, <1>8 DEF ThreadState
  <2>3. Written(k)
    BY <1>15, <1>9, <1>1, SaveType DEF SolveError
  <2> QED BY <1>15, <2>1, <2>2, <2>3, <1>7 DEF SolveError, AtNode
<1>16. CASE SolveCanceled(t)
  <2> DEFINE p == [th[t] EXCEPT !.pc = "review", !.status = "canceled"]
  <2>1. p \in ThreadState
    BY <1>1, <1>5, <1>8 DEF ThreadState
  <2>2. p.pc \in LockPcs /\ p.task = k /\ p.fuel = th[t].fuel
    BY <1>1, <1>5, <1>8 DEF ThreadState
  <2>3. Written(k)
    BY <1>16, <1>9, <1>1, SaveType DEF SolveCanceled
  <2> QED BY <1>16, <2>1, <2>2, <2>3, <1>7 DEF SolveCanceled, AtNode
<1>17. CASE ReviewFails(t)
  <2> DEFINE p == [th[t] EXCEPT !.pc = "plan", !.replan = TRUE]
  <2>1. p \in ThreadState
    BY <1>1, <1>5, <1>8 DEF ThreadState
  <2>2. p.pc \in LockPcs /\ p.task = k /\ p.fuel = th[t].fuel
    BY <1>1, <1>5, <1>8 DEF ThreadState
  <2>3. Written(k)
    BY <1>17, <1>6 DEF ReviewFails
  <2> QED BY <1>17, <2>1, <2>2, <2>3, <1>7 DEF ReviewFails, AtNode
<1>18. CASE BeginTool(t)
  <2> DEFINE p == [th[t] EXCEPT !.pc = "tool", !.seen = published]
  <2>1. p \in ThreadState
    BY <1>1, <1>5, <1>8 DEF ThreadState
  <2>2. p.pc \in LockPcs /\ p.task = k
    BY <1>1, <1>5, <1>8 DEF ThreadState
  <2>3. Written(k)
    BY <1>18, <1>6 DEF BeginTool
  <2> QED BY <1>18, <2>1, <2>2, <2>3 DEF BeginTool
<1>19. CASE Decide(t)
  <2> DEFINE p == [th[t] EXCEPT !.pc = "step"]
  <2>1. p \in ThreadState
    BY <1>1, <1>5 DEF ThreadState
  <2>2. p.pc \in LockPcs /\ p.task = k /\ p.fuel = th[t].fuel
    BY <1>1, <1>5 DEF ThreadState
  <2>3. Written(k)
    BY <1>19, <1>9, <1>1, SaveType DEF Decide
  <2> QED BY <1>19, <2>1, <2>2, <2>3, <1>7 DEF Decide, AtNode
<1>20. CASE SkipTool(t)
  <2> DEFINE p == [th[t] EXCEPT !.pc = "plan", !.cancel = TRUE, !.replan = TRUE]
  <2>1. p \in ThreadState
    BY <1>1, <1>5, <1>8 DEF ThreadState
  <2>2. p.pc \in LockPcs /\ p.task = k
    BY <1>1, <1>5, <1>8 DEF ThreadState
  <2>3. Written(k)
    BY <1>20, <1>9, <1>1, SaveType DEF SkipTool
  <2> QED BY <1>20, <2>1, <2>2, <2>3 DEF SkipTool
<1>21. CASE FinishCanceled(t)
  <2> DEFINE p == [th[t] EXCEPT !.pc = WhenDone(t), !.seen = None,
                                !.status = "canceled", !.cancel = TRUE]
  <2>1. p \in ThreadState
    BY <1>1, <1>5, <1>8 DEF ThreadState
  <2>2. p.pc \in LockPcs /\ p.task = k
    BY <1>1, <1>5, <1>8 DEF ThreadState
  <2>3. Written(k)
    BY <1>21, <1>9, <1>1, SaveType DEF FinishCanceled
  <2> QED BY <1>21, <2>1, <2>2, <2>3 DEF FinishCanceled
<1>22. CASE RepeatStep(t)
  <2>1. PICK c \in BOOLEAN, pc \in {"step", "plan"} :
          /\ SaveTask(k, th[t].status, c)
          /\ Become(t, [th[t] EXCEPT !.pc = pc, !.seen = None, !.cancel = c,
                                     !.replan = (pc = "plan")])
    BY <1>22, <1>1 DEF RepeatStep, Signalled
  <2>2. PICK b \in BOOLEAN : b = (pc = "plan")
    BY Zenon
  <2> DEFINE p == [th[t] EXCEPT !.pc = pc, !.seen = None, !.cancel = c, !.replan = b]
  <2>3. p \in ThreadState
    <3>1. pc \in RunPcs \cup RequestPcs /\ None \in Tasks \cup {None}
      BY <1>5
    <3> QED BY <3>1, <1>1 DEF ThreadState
  <2>4. p.pc \in LockPcs /\ p.task = k
    BY <1>1, <1>5 DEF ThreadState
  <2>5. Written(k)
    BY <2>1, <1>9, <1>1, SaveType
  <2>6. Become(t, p)
    BY <2>1, <2>2, Zenon
  <2> QED BY <2>3, <2>4, <2>5, <2>6
<1>23. CASE FinishStep(t)
  <2>1. PICK pc \in {"step", "solve"} :
          Become(t, [th[t] EXCEPT !.pc = pc, !.seen = None, !.replan = FALSE])
    BY <1>23 DEF FinishStep
  <2> DEFINE p == [th[t] EXCEPT !.pc = pc, !.seen = None, !.replan = FALSE]
  <2>2. p \in ThreadState
    BY <1>1, <1>5 DEF ThreadState
  <2>3. p.pc \in LockPcs /\ p.task = k
    BY <1>1, <1>5 DEF ThreadState
  <2>4. Written(k)
    BY <1>23, <1>9, <1>1, SaveType DEF FinishStep
  <2> QED BY <2>1, <2>2, <2>3, <2>4
<1>24. CASE Solve(t)
  <2>1. PICK d \in {"success", "partial"} :
          Advance(t, [th[t] EXCEPT !.pc = "review", !.status = "running", !.pending = d])
    BY <1>24 DEF Solve
  <2> DEFINE p == [th[t] EXCEPT !.pc = "review", !.status = "running", !.pending = d]
  <2>2. p \in ThreadState
    BY <1>1, <1>5 DEF ThreadState
  <2>3. p.pc \in LockPcs /\ p.task = k /\ p.fuel = th[t].fuel
    BY <1>1, <1>5 DEF ThreadState
  <2>4. Written(k)
    BY <1>24, <1>9, <1>1, SaveType DEF Solve
  <2> QED BY <1>24, <2>1, <2>2, <2>3, <2>4, <1>7 DEF Solve, AtNode
<1>25. CASE ReviewEnds(t)
  <2> DEFINE p == [th[t] EXCEPT !.pc = "unlock"]
             s == IF th[t].pending # "none" THEN th[t].pending ELSE th[t].status
  <2>1. p \in ThreadState
    BY <1>1, <1>5 DEF ThreadState
  <2>2. p.pc \in LockPcs /\ p.task = k /\ p.fuel = th[t].fuel
    BY <1>1, <1>5 DEF ThreadState
  <2>3. s \in RowStatus \ {"absent"}
    BY <1>1, <1>9 DEF ThreadState
  <2>4. Written(k)
    BY <1>25, <2>3, <1>1, SaveType DEF ReviewEnds
  <2> QED BY <1>25, <2>1, <2>2, <2>4, <1>7 DEF ReviewEnds, AtNode
<1> QED BY <1>10, <1>11, <1>12, <1>13, <1>14, <1>15, <1>16, <1>17, <1>18, <1>19, <1>20, <1>21, <1>22, <1>23, <1>24, <1>25 DEF GraphStep

LEMMA GraphTyped ==
    ASSUME Typed, NEW t \in Threads, GraphStep(t)
    PROVE  Typed'
<1>1. PICK r \in ThreadState : Become(t, r) /\ r.pc \in LockPcs /\ r.task = th[t].task
  BY GraphMoves
<1>2. r.pc \in RolePcs(t) /\ r.task \in Tasks
  BY <1>1, GraphMoves, RunRoles
<1>3. row' \in Rows /\ lost' \in Nat /\ UNCHANGED graph
  BY GraphMoves DEF Written
<1> QED BY <1>1, <1>2, <1>3, StepTyped DEF Typed, TypeOK, graph, control

\* chat_async around the graph.
LEMMA PublishMeets ==
    ASSUME Typed, NEW t \in Threads, Publish(t)
    PROVE  /\ met' \in [Threads -> SUBSET Tasks]
           /\ met'[t] = {th[v].task : v \in Inside}
           /\ \A u \in Threads \ {t} :
                 met'[u] = IF u \in Inside THEN met[u] \cup {th[t].task} ELSE met[u]
<1>1. th[t].task \in Tasks /\ {th[v].task : v \in Inside} \in SUBSET Tasks
  BY DEF Publish, Inside, Typed, ThreadRoles, PublishedPcs, LockPcs, NodePcs
<1>2. met \in [Threads -> SUBSET Tasks]
  BY DEF Typed, TypeOK
<1>3. met' = [u \in Threads |->
                IF u = t THEN {th[v].task : v \in Inside}
                ELSE IF u \in Inside THEN met[u] \cup {th[t].task} ELSE met[u]]
  BY DEF Publish
<1> QED BY <1>1, <1>2, <1>3

LEMMA RunTyped ==
    ASSUME Typed, NEW t \in Threads, RunStep(t)
    PROVE  Typed'
<1>1. th[t] \in ThreadState /\ th[t].task \in Tasks \cup {None}
  BY DEF Typed, TypeOK, ThreadState
<1>2. {"lock", "plan", "unlock", "retract"} \subseteq RolePcs(t)
  BY RunRoles DEF LockPcs, NodePcs
<1>3. {"lock", "plan", "unlock", "retract", "settle"} \subseteq RunPcs
  BY DEF RunPcs, LockPcs, NodePcs
<1>4. row \in Rows /\ lost \in Nat
  BY DEF Typed, TypeOK, Rows
<1>5. ASSUME NEW pc \in {"lock", "plan", "unlock", "retract"}, NEW b \in BOOLEAN,
             \/ Become(t, [th[t] EXCEPT !.pc = pc])
             \/ Become(t, [th[t] EXCEPT !.pc = pc, !.raised = b]),
             th[t].pc \notin {"idle", "closing"},
             held' \in Threads \cup {None}, published' \in Tasks \cup {None},
             met' \in [Threads -> SUBSET Tasks],
             UNCHANGED <<row, lost, registered, signalled, queue, control>>
      PROVE  Typed'
  <2>1. PICK r \in ThreadState : Become(t, r) /\ r.pc = pc /\ r.task = th[t].task
    <3>1. pc \in RunPcs \cup RequestPcs
      BY <1>3
    <3>2. [th[t] EXCEPT !.pc = pc] \in ThreadState
      BY <1>1, <3>1 DEF ThreadState
    <3>3. [th[t] EXCEPT !.pc = pc, !.raised = b] \in ThreadState
      BY <1>1, <3>1 DEF ThreadState
    <3>4. CASE Become(t, [th[t] EXCEPT !.pc = pc])
      BY <1>1, <3>2, <3>4 DEF ThreadState
    <3>5. CASE Become(t, [th[t] EXCEPT !.pc = pc, !.raised = b])
      BY <1>1, <3>3, <3>5 DEF ThreadState
    <3> QED BY <1>5, <3>4, <3>5
  <2>2. r.task \in Tasks
    BY <1>5, <2>1 DEF Typed, ThreadRoles
  <2> QED BY <1>2, <1>4, <1>5, <2>1, <2>2, StepTyped DEF control, Typed, TypeOK
<1>6. /\ held \in Threads \cup {None} /\ published \in Tasks \cup {None}
      /\ met \in [Threads -> SUBSET Tasks]
  BY DEF Typed, TypeOK
<1>7. CASE Publish(t)
  <2>1. th[t].task \in Tasks
    BY <1>7 DEF Publish, Typed, ThreadRoles
  <2>2. met' \in [Threads -> SUBSET Tasks]
    BY <1>7, PublishMeets DEF Typed, TypeOK
  <2> QED BY <1>5, <1>6, <1>7, <2>1, <2>2 DEF Publish, Goto
<1>8. CASE Acquire(t)
  BY <1>5, <1>6, <1>8 DEF Acquire, Goto
<1>9. CASE AnswerDirectly(t)
  BY <1>5, <1>6, <1>9 DEF AnswerDirectly, Goto
<1>10. CASE Raise(t)
  BY <1>5, <1>6, <1>10 DEF Raise, NodePcs
<1>11. CASE Release(t)
  BY <1>5, <1>6, <1>11 DEF Release, Goto
<1>12. CASE Retract(t)
  <2>1. /\ th[t].task \in Tasks
        /\ UNCHANGED <<row, lost, registered, signalled, queue, held, control>>
        /\ published' = None /\ met' \in [Threads -> SUBSET Tasks]
    BY <1>6, <1>12 DEF Retract, Typed, ThreadRoles
  <2>2. CASE t = Api
    <3>1. Become(t, IdleThread) /\ IdleThread.pc = "idle" /\ "idle" \in RolePcs(t)
      BY <1>12, <2>2 DEF Retract, Rest, IdleThread, RolePcs
    <3> QED BY <1>4, <1>6, <2>1, <3>1, IdleType, StepTyped DEF control, Typed, TypeOK
  <2>3. CASE t # Api
    <3> DEFINE r == [th[t] EXCEPT !.pc = "settle"]
    <3>1. r \in ThreadState
      BY <1>1, <1>3 DEF ThreadState
    <3>2. Become(t, r) /\ r.pc = "settle" /\ r.task \in Tasks /\ "settle" \in RolePcs(t)
      BY <1>12, <1>3, <1>1, <2>1, <2>3 DEF Retract, Goto, RolePcs, ThreadState
    <3> QED BY <1>4, <1>6, <2>1, <3>1, <3>2, StepTyped DEF control, Typed, TypeOK
  <2> QED BY <2>2, <2>3
<1>13. CASE GraphStep(t)
  BY <1>13, GraphTyped
<1> QED BY <1>7, <1>8, <1>9, <1>10, <1>11, <1>12, <1>13 DEF RunStep

\* After the read of the row: what it tells decides where the worker goes.
LEMMA SettleMoves ==
    ASSUME Typed, NEW w \in Workers, Settle(w)
    PROVE  /\ th[w].pc = "settle" /\ lost' \in Nat
           /\ UNCHANGED <<row, registered, signalled, queue, held, published, met, control>>
           /\ \E pc \in {"finish", "pop"} : Goto(w, pc)
<1>1. lost \in Nat
  BY DEF Typed, TypeOK
<1>2. Goto(w, IF row[th[w].task].status \in Ended THEN "pop" ELSE "finish")
         => \E pc \in {"finish", "pop"} : Goto(w, pc)
  OBVIOUS
<1> QED BY <1>1, <1>2 DEF Settle

\* A worker around its run.
LEMMA WorkerTyped ==
    ASSUME Typed, NEW w \in Workers, WorkerStep(w)
    PROVE  Typed'
<1>1. /\ w \in Threads /\ w # Api
      /\ th[w] \in ThreadState
      /\ row \in Rows /\ lost \in Nat
  BY ThreadAssumption DEF Threads, Typed, TypeOK, Rows
<1>2. {"idle", "clear", "publish", "finish", "pop"} \subseteq RolePcs(w)
  BY <1>1 DEF RolePcs, RunPcs
<1>3. {"clear", "publish", "finish", "pop"} \subseteq RunPcs
  BY DEF RunPcs
<1>4. "success" \in RowStatus \ {"absent"}
  BY DEF RowStatus, Ended
<1>5. CASE Take(w)
  <2>1. Head(queue) \in Tasks /\ Tail(queue) \in Seq(Tasks)
    BY <1>5 DEF Take, Typed, TypeOK
  <2> DEFINE r == [th[w] EXCEPT !.pc = "clear", !.task = Head(queue)]
  <2>2. r \in ThreadState
    BY <1>1, <1>3, <2>1 DEF ThreadState
  <2>3. r.pc = "clear" /\ r.task \in Tasks
    BY <1>1, <2>1 DEF ThreadState
  <2> QED BY <1>1, <1>2, <1>5, <2>1, <2>2, <2>3, StepTyped DEF Take, control, Typed, TypeOK
<1>6. CASE ClearFlag(w)
  <2>1. th[w].task \in Tasks
    BY <1>1, <1>6 DEF ClearFlag, Typed, ThreadRoles
  <2> DEFINE r == [th[w] EXCEPT !.pc = "publish"]
  <2>2. r \in ThreadState
    BY <1>1, <1>3 DEF ThreadState
  <2>3. r.pc = "publish" /\ r.task \in Tasks
    BY <1>1, <2>1 DEF ThreadState
  <2>4. row' \in Rows /\ lost' \in Nat
    BY <1>6, <2>1, SetCancelType DEF ClearFlag, Typed, Written
  <2> QED BY <1>1, <1>2, <1>6, <2>2, <2>3, <2>4, StepTyped
          DEF ClearFlag, Goto, control, Typed, TypeOK
<1>7. CASE Settle(w)
  <2>1. PICK pc \in {"finish", "pop"} : Goto(w, pc)
    BY <1>7, SettleMoves
  <2>2. th[w].task \in Tasks
    BY <1>1, <1>7 DEF Settle, Typed, ThreadRoles
  <2> DEFINE r == [th[w] EXCEPT !.pc = pc]
  <2>3. r \in ThreadState
    BY <1>1, <1>3 DEF ThreadState
  <2>4. r.pc = pc /\ r.task \in Tasks /\ Become(w, r)
    BY <1>1, <2>1, <2>2 DEF ThreadState, Goto
  <2>5. lost' \in Nat
    BY <1>7, SettleMoves
  <2> HIDE DEF r
  <2> QED BY <1>1, <1>2, <1>7, <2>3, <2>4, <2>5, StepTyped
          DEF Settle, control, Typed, TypeOK
<1>9. CASE Finish(w)
  <2>1. th[w].task \in Tasks
    BY <1>1, <1>9 DEF Finish, Typed, ThreadRoles
  <2> DEFINE r == [th[w] EXCEPT !.pc = "pop"]
  <2>2. r \in ThreadState
    BY <1>1, <1>3 DEF ThreadState
  <2>3. r.pc = "pop" /\ r.task \in Tasks
    BY <1>1, <2>1 DEF ThreadState
  <2>4. row' \in Rows /\ lost' \in Nat
    BY <1>1, <1>4, <1>9, <2>1, UpdateStatusType DEF Finish, Typed, Written
  <2> QED BY <1>1, <1>2, <1>9, <2>2, <2>3, <2>4, StepTyped
          DEF Finish, Goto, control, Typed, TypeOK
<1>8. CASE Pop(w)
  <2>1. Become(w, IdleThread) /\ IdleThread.pc = "idle"
    BY <1>8 DEF Pop, Rest, IdleThread
  <2> QED BY <1>1, <1>2, <1>8, <2>1, IdleType, StepTyped DEF Pop, control, Typed, TypeOK
<1> QED BY <1>5, <1>6, <1>7, <1>8, <1>9 DEF WorkerStep
\* The requests.
LEMMA RequestTyped ==
    ASSUME Typed, Request \/ RequestStep
    PROVE  Typed'
<1>1. /\ Api \in Threads /\ th[Api] \in ThreadState
      /\ row \in Rows /\ lost \in Nat
      /\ th[Api].task \in Tasks \cup {None}
  BY DEF Threads, Typed, TypeOK, Rows, ThreadState
<1>2. {"idle", "publish"} \cup RequestPcs \subseteq RolePcs(Api)
  BY DEF RolePcs, RunPcs
<1>3. "publish" \in RunPcs /\ {"saved", "queued", "checked", "flag", "closing"} = RequestPcs
  BY DEF RunPcs, RequestPcs
<1>4. {"pending", "running"} \subseteq RowStatus \ {"absent"}
  BY DEF RowStatus
<1>5. "idle" \in RolePcs(Api) /\ IdleThread.pc = "idle"
  BY DEF RolePcs, IdleThread
\* The request thread turns to a task.
<1>6. ASSUME NEW k \in Tasks, NEW pc \in {"saved", "checked", "flag", "publish"},
             Become(Api, [th[Api] EXCEPT !.pc = pc, !.task = k]),
             row' \in Rows, lost' \in Nat, signalled' \subseteq Tasks,
             source' \in [Tasks -> Tasks \cup {None}], chats' \in Nat,
             UNCHANGED <<registered, queue, held, published, met, mode, restarts>>
      PROVE  Typed'
  <2> DEFINE r == [th[Api] EXCEPT !.pc = pc, !.task = k]
  <2>1. r \in ThreadState
    BY <1>1, <1>3 DEF ThreadState
  <2>2. r.pc = pc /\ r.task = k
    BY <1>1 DEF ThreadState
  <2>3. r.pc \in RolePcs(Api)
    BY <1>2, <1>3, <2>2
  <2> QED BY <1>1, <1>6, <2>1, <2>2, <2>3, StepTyped DEF Typed, TypeOK
\* The request ends.
<1>7. ASSUME Rest(Api), row' \in Rows, lost' \in Nat, mode' \in {"up", "closed"},
             UNCHANGED <<registered, signalled, queue, held, published, met, source, restarts, chats>>
      PROVE  Typed'
  BY <1>1, <1>5, <1>7, IdleType, StepTyped DEF Rest, Typed, TypeOK
<1>8. ASSUME NEW k \in Tasks, Submit(k) PROVE Typed'
  <2>1. row' \in Rows /\ lost' \in Nat
    BY <1>4, <1>8, SaveType DEF Submit, Typed, Written
  <2>2. source' \in [Tasks -> Tasks \cup {None}]
    BY <1>8 DEF Submit, Typed, TypeOK
  <2> QED BY <1>6, <1>8, <2>1, <2>2 DEF Submit, Typed, TypeOK
<1>9. ASSUME NEW k \in Tasks, SubmitCopy(k) PROVE Typed'
  <2>1. row' \in Rows /\ lost' \in Nat
    BY <1>4, <1>9, SaveType DEF SubmitCopy, Typed, Written
  <2>2. source' \in [Tasks -> Tasks \cup {None}]
    BY <1>1, <1>9 DEF SubmitCopy, Typed, TypeOK
  <2> QED BY <1>6, <1>9, <2>1, <2>2 DEF SubmitCopy, Typed, TypeOK
<1>10. ASSUME NEW k \in Tasks, ReadSource(k) PROVE Typed'
  BY <1>1, <1>6, <1>10 DEF ReadSource, control, Typed, TypeOK
<1>11. ASSUME NEW k \in Tasks, CancelRunning(k) PROVE Typed'
  <2>1. signalled' \subseteq Tasks
    BY <1>11 DEF CancelRunning, Typed, TypeOK
  <2> QED BY <1>1, <1>6, <1>11, <2>1 DEF CancelRunning, control, Typed, TypeOK
<1>12. ASSUME NEW k \in Tasks, CancelUnknown(k) PROVE Typed'
  <2>1. row' \in Rows /\ lost' \in Nat
    BY <1>12, SetCancelType DEF CancelUnknown, Typed, Written
  <2>2. TypeOK'
    BY <1>12, <2>1 DEF CancelUnknown, control, Typed, TypeOK, Rows
  <2>3. ThreadRoles'
    BY <1>12 DEF CancelUnknown, Typed, ThreadRoles, RolePcs
  <2> QED BY <2>2, <2>3 DEF Typed
<1>13. ASSUME NEW k \in Tasks, StartChat(k) PROVE Typed'
  <2>1. chats' \in Nat
    BY <1>13 DEF StartChat, Typed, TypeOK
  <2> QED BY <1>1, <1>6, <1>13, <2>1 DEF StartChat, Typed, TypeOK
<1>14. CASE Shutdown
  <2> DEFINE r == [th[Api] EXCEPT !.pc = "closing"]
  <2>1. r \in ThreadState
    BY <1>1, <1>3 DEF ThreadState
  <2>2. r.pc = "closing" /\ r.pc \in RolePcs(Api)
    BY <1>1, <1>2, <1>3 DEF ThreadState
  <2>3. signalled' \subseteq Tasks
    BY <1>14 DEF Shutdown, Typed, TypeOK
  <2> QED BY <1>1, <1>14, <2>1, <2>2, <2>3, StepTyped DEF Shutdown, Goto, control, Typed, TypeOK
<1>15. CASE RefuseCopy
  BY <1>1, <1>7, <1>15 DEF RefuseCopy, control, Typed, TypeOK
<1>16. CASE Enqueue
  <2>1. th[Api].task \in Tasks
    BY <1>1, <1>16 DEF Enqueue, Typed, ThreadRoles
  <2> DEFINE r == [th[Api] EXCEPT !.pc = "queued"]
  <2>2. r \in ThreadState
    BY <1>1, <1>3 DEF ThreadState
  <2>3. r.pc = "queued" /\ r.pc \in RolePcs(Api) /\ r.task \in Tasks
    BY <1>1, <1>2, <1>3, <2>1 DEF ThreadState
  <2>4. /\ queue' \in Seq(Tasks) /\ registered' \subseteq Tasks /\ signalled' \subseteq Tasks
    BY <1>16, <2>1 DEF Enqueue, Typed, TypeOK
  <2> QED BY <1>1, <1>16, <2>2, <2>3, <2>4, StepTyped DEF Enqueue, Goto, control, Typed, TypeOK
<1>17. CASE MarkRunning
  <2>1. th[Api].task \in Tasks
    BY <1>1, <1>17 DEF MarkRunning, Typed, ThreadRoles
  <2>2. row' \in Rows /\ lost' \in Nat
    BY <1>4, <1>17, <2>1, UpdateStatusType DEF MarkRunning, Typed, Written
  <2> QED BY <1>7, <1>17, <2>2 DEF MarkRunning, control, Typed, TypeOK
<1>18. CASE FlagCanceled
  <2>1. th[Api].task \in Tasks
    BY <1>1, <1>18 DEF FlagCanceled, Typed, ThreadRoles
  <2>2. row' \in Rows /\ lost' \in Nat
    BY <1>18, <2>1, SetCancelType DEF FlagCanceled, Typed, Written
  <2> QED BY <1>7, <1>18, <2>2 DEF FlagCanceled, control, Typed, TypeOK
<1>19. CASE CloseDatabase
  BY <1>1, <1>7, <1>19 DEF CloseDatabase
<1> QED BY <1>8, <1>9, <1>10, <1>11, <1>12, <1>13, <1>14, <1>15, <1>16, <1>17, <1>18, <1>19
        DEF Request, RequestStep

\* The process starts again.
LEMMA RestartTyped ==
    ASSUME Typed, Restart
    PROVE  Typed'
<1>1. row' \in [Tasks -> [status : RowStatus, cancel : BOOLEAN]] /\ lost' \in Nat
  BY SweepType DEF Restart, Typed, TypeOK, Rows
<1>2. th' \in [Threads -> ThreadState]
  BY IdleType DEF Restart
<1>3. queue' \in Seq(Tasks)
  BY DEF Restart
<1>4. TypeOK'
  BY <1>1, <1>2, <1>3 DEF Restart, Typed, TypeOK
<1>5. ThreadRoles'
  BY DEF Restart, ThreadRoles, IdleThread, RolePcs
<1> QED BY <1>4, <1>5 DEF Typed

LEMMA InitTyped == Init => Typed
<1> SUFFICES ASSUME Init PROVE Typed
  OBVIOUS
<1>1. row \in [Tasks -> [status : RowStatus, cancel : BOOLEAN]]
  BY DEF Init, RowStatus
<1>2. th \in [Threads -> ThreadState]
  BY IdleType DEF Init
<1>3. queue \in Seq(Tasks)
  BY DEF Init
<1>4. TypeOK
  BY <1>1, <1>2, <1>3 DEF Init, TypeOK
<1>5. ThreadRoles
  BY DEF Init, ThreadRoles, IdleThread, RolePcs
<1> QED BY <1>4, <1>5 DEF Typed

LEMMA NextTyped == Typed /\ [Next]_vars => Typed'
<1> SUFFICES ASSUME Typed, [Next]_vars PROVE Typed'
  OBVIOUS
<1>1. CASE Request \/ RequestStep
  BY <1>1, RequestTyped
<1>2. CASE \E w \in Workers : WorkerStep(w)
  BY <1>2, WorkerTyped
<1>3. CASE \E t \in Threads : RunStep(t)
  BY <1>3, RunTyped
<1>4. CASE Restart
  BY <1>4, RestartTyped
<1>5. CASE UNCHANGED vars
  BY <1>5 DEF vars, Typed, TypeOK, ThreadRoles, RolePcs
<1> QED BY <1>1, <1>2, <1>3, <1>4, <1>5 DEF Next

\* The invariant Typed holds of the whole specification.
LEMMA SpecTyped == Spec => []Typed
  BY InitTyped, NextTyped, PTL DEF Spec

\* Every variable keeps its type, whatever the numbers of tasks and workers.
THEOREM TypeCorrect == Spec => []TypeOK
<1>1. Typed => TypeOK
  BY DEF Typed
<1> QED BY <1>1, SpecTyped, PTL
-----------------------------------------------------------------------------
(* One graph run at a time.                                                 *)

\* A step that neither enters nor leaves the locked region.
LEMMA SameLock ==
    ASSUME Typed, OneGraphRun, NEW t \in Threads, NEW r, Become(t, r),
           r.pc \in LockPcs <=> th[t].pc \in LockPcs, held' = held
    PROVE  OneGraphRun'
  BY DEF Typed, TypeOK, OneGraphRun, Become

LEMMA RunLocked ==
    ASSUME Typed, OneGraphRun, NEW t \in Threads, RunStep(t)
    PROVE  OneGraphRun'
<1>1. th[t] \in ThreadState
  BY DEF Typed, TypeOK
<1>2. /\ {"plan", "unlock", "decide", "solve"} \subseteq LockPcs
      /\ NodePcs \subseteq LockPcs
      /\ {"publish", "lock", "retract", "settle", "finish", "idle"} \cap LockPcs = {}
  BY DEF LockPcs, NodePcs
<1>3. CASE Publish(t)
  BY <1>1, <1>2, <1>3, SameLock DEF Publish, Goto, ThreadState
<1>4. CASE Acquire(t)
  <2>1. /\ held = None /\ held' = t
        /\ th' = [th EXCEPT ![t] = [th[t] EXCEPT !.pc = "plan"]]
    BY <1>4 DEF Acquire, Goto, Become
  <2>2. \A u \in Threads : th[u].pc \notin LockPcs
    BY <2>1, ThreadAssumption DEF OneGraphRun
  <2>3. \A u \in Threads : th'[u].pc \in LockPcs <=> u = t
    BY <1>1, <1>2, <2>1, <2>2 DEF Typed, TypeOK, ThreadState
  <2> QED BY <2>1, <2>3 DEF OneGraphRun
<1>5. CASE AnswerDirectly(t)
  BY <1>1, <1>2, <1>5, SameLock DEF AnswerDirectly, Goto, ThreadState
<1>6. CASE Raise(t)
  BY <1>1, <1>2, <1>6, SameLock DEF Raise, ThreadState
<1>7. CASE Release(t)
  <2>1. /\ th[t].pc = "unlock" /\ held' = None
        /\ th' = [th EXCEPT ![t] = [th[t] EXCEPT !.pc = "retract"]]
    BY <1>7 DEF Release, Goto, Become
  <2>2. \A u \in Threads : u # t => th[u].pc \notin LockPcs
    BY <1>2, <2>1 DEF OneGraphRun
  <2>3. \A u \in Threads : th'[u].pc \notin LockPcs
    BY <1>1, <1>2, <2>1, <2>2 DEF Typed, TypeOK, ThreadState
  <2> QED BY <2>1, <2>3, ThreadAssumption DEF OneGraphRun
<1>8. CASE Retract(t)
  <2>1. th[t].pc = "retract" /\ held' = held
    BY <1>8 DEF Retract
  <2>2. CASE t = Api
    BY <1>2, <1>8, <2>1, <2>2, SameLock DEF Retract, Rest, IdleThread
  <2>3. CASE t # Api
    BY <1>1, <1>2, <1>8, <2>1, <2>3, SameLock DEF Retract, Goto, ThreadState
  <2> QED BY <2>2, <2>3
<1>9. CASE GraphStep(t)
  <2>1. PICK r \in ThreadState : Become(t, r) /\ r.pc \in LockPcs
    BY <1>9, GraphMoves
  <2>2. th[t].pc \in LockPcs /\ held' = held
    BY <1>9, GraphMoves DEF graph
  <2> QED BY <2>1, <2>2, SameLock
<1> QED BY <1>3, <1>4, <1>5, <1>6, <1>7, <1>8, <1>9 DEF RunStep

\* What a worker does around its run, outside the lock.
LEMMA WorkerMoves ==
    ASSUME Typed, NEW w \in Workers, WorkerStep(w)
    PROVE  /\ w \in Threads /\ w # Api /\ th[w].pc \in {"idle", "clear", "settle", "finish", "pop"}
           /\ held' = held /\ UNCHANGED <<signalled, published, met, control>>
           /\ \E r \in ThreadState : /\ Become(w, r)
                                     /\ r.pc \in {"idle", "clear", "publish", "finish", "pop"}
<1>1. w \in Threads /\ w # Api /\ th[w] \in ThreadState
  BY ThreadAssumption DEF Threads, Typed, TypeOK
<1>2. {"clear", "publish", "finish", "pop"} \subseteq RunPcs
  BY DEF RunPcs
<1>3. IdleThread \in ThreadState /\ IdleThread.pc = "idle"
  BY IdleType DEF IdleThread
<1>4. CASE Take(w)
  <2>1. Head(queue) \in Tasks
    BY <1>4 DEF Take, Typed, TypeOK
  <2> DEFINE r == [th[w] EXCEPT !.pc = "clear", !.task = Head(queue)]
  <2>2. r \in ThreadState
    BY <1>1, <1>2, <2>1 DEF ThreadState
  <2>3. r.pc = "clear"
    BY <1>1 DEF ThreadState
  <2> QED BY <1>1, <1>4, <2>2, <2>3 DEF Take
<1>5. CASE ClearFlag(w)
  <2> DEFINE r == [th[w] EXCEPT !.pc = "publish"]
  <2>1. r \in ThreadState
    BY <1>1, <1>2 DEF ThreadState
  <2>2. r.pc = "publish"
    BY <1>1 DEF ThreadState
  <2> QED BY <1>1, <1>5, <2>1, <2>2 DEF ClearFlag, Goto
<1>6. CASE Settle(w)
  <2>1. PICK pc \in {"finish", "pop"} : Goto(w, pc)
    BY <1>6, SettleMoves
  <2> DEFINE r == [th[w] EXCEPT !.pc = pc]
  <2>2. r \in ThreadState
    BY <1>1, <1>2 DEF ThreadState
  <2>3. r.pc = pc /\ Become(w, r)
    BY <1>1, <2>1 DEF ThreadState, Goto
  <2> HIDE DEF r
  <2> QED BY <1>1, <1>6, <2>2, <2>3, SettleMoves
<1>8. CASE Finish(w)
  <2> DEFINE r == [th[w] EXCEPT !.pc = "pop"]
  <2>1. r \in ThreadState
    BY <1>1, <1>2 DEF ThreadState
  <2>2. r.pc = "pop"
    BY <1>1 DEF ThreadState
  <2> QED BY <1>1, <1>8, <2>1, <2>2 DEF Finish, Goto
<1>7. CASE Pop(w)
  BY <1>1, <1>3, <1>7 DEF Pop, Rest
<1> QED BY <1>4, <1>5, <1>6, <1>7, <1>8 DEF WorkerStep

\* A thread that has learned of no cancellation.
Keeps(new, old) == /\ new.cancel => old.cancel
                   /\ new.status = "canceled" => old.status = "canceled"

\* What a request does, outside the lock.
LEMMA RequestMoves ==
    ASSUME Typed, Request \/ RequestStep
    PROVE  /\ Api \in Threads /\ th[Api].pc \in {"idle"} \cup RequestPcs
           /\ held' = held /\ published' = published /\ met' = met
           /\ signalled \subseteq signalled'
           /\ \/ th' = th
              \/ \E r : /\ Become(Api, r) /\ Keeps(r, th[Api])
                        /\ r.pc \in {"idle", "publish"} \cup RequestPcs
<1>1. Api \in Threads /\ th[Api] \in ThreadState
  BY DEF Threads, Typed, TypeOK
<1>2. IdleThread.pc = "idle" /\ Keeps(IdleThread, th[Api])
  BY DEF IdleThread, Keeps
<1>3. ASSUME NEW k, NEW pc, Become(Api, [th[Api] EXCEPT !.pc = pc, !.task = k])
       PROVE  \E r : Become(Api, r) /\ Keeps(r, th[Api]) /\ r.pc = pc
  <2> DEFINE r == [th[Api] EXCEPT !.pc = pc, !.task = k]
  <2>1. r.pc = pc /\ Keeps(r, th[Api])
    BY <1>1 DEF ThreadState, Keeps
  <2> QED BY <1>3, <2>1
<1>4. ASSUME NEW pc, Goto(Api, pc)
       PROVE  \E r : Become(Api, r) /\ Keeps(r, th[Api]) /\ r.pc = pc
  <2> DEFINE r == [th[Api] EXCEPT !.pc = pc]
  <2>1. r.pc = pc /\ Keeps(r, th[Api])
    BY <1>1 DEF ThreadState, Keeps
  <2> QED BY <1>4, <2>1 DEF Goto
<1>5. ASSUME NEW k \in Tasks, Submit(k)
      PROVE  \E r : Become(Api, r) /\ Keeps(r, th[Api]) /\ r.pc = "saved"
  BY <1>3, <1>5 DEF Submit
<1>6. ASSUME NEW k \in Tasks, ReadSource(k)
      PROVE  \E r : Become(Api, r) /\ Keeps(r, th[Api]) /\ r.pc = "checked"
  BY <1>3, <1>6 DEF ReadSource
<1>7. ASSUME NEW k \in Tasks, SubmitCopy(k)
      PROVE  \E r : Become(Api, r) /\ Keeps(r, th[Api]) /\ r.pc = "saved"
  BY <1>3, <1>7 DEF SubmitCopy
<1>8. ASSUME NEW k \in Tasks, CancelRunning(k)
      PROVE  \E r : Become(Api, r) /\ Keeps(r, th[Api]) /\ r.pc = "flag"
  BY <1>3, <1>8 DEF CancelRunning
<1>9. ASSUME NEW k \in Tasks, StartChat(k)
      PROVE  \E r : Become(Api, r) /\ Keeps(r, th[Api]) /\ r.pc = "publish"
  BY <1>3, <1>9 DEF StartChat
<1>10. ASSUME Shutdown
      PROVE  \E r : Become(Api, r) /\ Keeps(r, th[Api]) /\ r.pc = "closing"
  BY <1>4, <1>10 DEF Shutdown
<1>11. ASSUME Enqueue
      PROVE  \E r : Become(Api, r) /\ Keeps(r, th[Api]) /\ r.pc = "queued"
  BY <1>4, <1>11 DEF Enqueue
<1>12. ASSUME RefuseCopy \/ MarkRunning \/ FlagCanceled \/ CloseDatabase
       PROVE  \E r : Become(Api, r) /\ Keeps(r, th[Api]) /\ r.pc = "idle"
  BY <1>2, <1>12 DEF RefuseCopy, MarkRunning, FlagCanceled, CloseDatabase, Rest
<1>13. ASSUME NEW k \in Tasks, CancelUnknown(k)
       PROVE  th' = th
  BY <1>13 DEF CancelUnknown
<1>14. {"saved", "queued", "checked", "flag", "closing"} = RequestPcs
  BY DEF RequestPcs
<1>15. /\ th[Api].pc \in {"idle"} \cup RequestPcs
       /\ held' = held /\ published' = published /\ met' = met
       /\ signalled \subseteq signalled'
  BY <1>14 DEF Request, RequestStep, Submit, ReadSource, SubmitCopy, CancelRunning, CancelUnknown,
         StartChat, Shutdown, RefuseCopy, Enqueue, MarkRunning, FlagCanceled, CloseDatabase,
         ApiIdle, control
<1> QED BY <1>1, <1>5, <1>6, <1>7, <1>8, <1>9, <1>10, <1>11, <1>12, <1>13, <1>14, <1>15
        DEF Request, RequestStep

\* Two graph runs never overlap: chat_async's lock is held by exactly the thread
\* that is inside the graph.
THEOREM RunsAreSerial == Spec => []OneGraphRun
<1>1. Init => OneGraphRun
  BY ThreadAssumption DEF Init, OneGraphRun, IdleThread, LockPcs, NodePcs
<1>2. Typed /\ OneGraphRun /\ [Next]_vars => OneGraphRun'
  <2> SUFFICES ASSUME Typed, OneGraphRun, [Next]_vars PROVE OneGraphRun'
    OBVIOUS
  <2> DEFINE Outside == {"idle", "publish", "clear", "settle", "finish", "pop"} \cup RequestPcs
  <2>1. Outside \cap LockPcs = {}
    BY DEF LockPcs, NodePcs, RequestPcs
  <2>2. CASE Request \/ RequestStep
    <3>1. CASE th' = th
      BY <2>2, <3>1, RequestMoves DEF OneGraphRun
    <3>2. CASE th' # th
      <4>1. PICK r : Become(Api, r) /\ r.pc \in {"idle", "publish"} \cup RequestPcs
        BY <2>2, <3>2, RequestMoves
      <4>2. Api \in Threads /\ th[Api].pc \in Outside /\ held' = held
        BY <2>2, RequestMoves
      <4> QED BY <2>1, <4>1, <4>2, SameLock
    <3> QED BY <3>1, <3>2
  <2>3. ASSUME NEW w \in Workers, WorkerStep(w) PROVE OneGraphRun'
    <3>1. PICK r \in ThreadState : Become(w, r) /\ r.pc \in {"idle", "clear", "publish", "finish", "pop"}
      BY <2>3, WorkerMoves
    <3>2. w \in Threads /\ th[w].pc \in Outside /\ held' = held
      BY <2>3, WorkerMoves
    <3> QED BY <2>1, <3>1, <3>2, SameLock
  <2>4. CASE \E t \in Threads : RunStep(t)
    BY <2>4, RunLocked
  <2>5. CASE Restart
    BY <2>5, ThreadAssumption DEF Restart, OneGraphRun, IdleThread, LockPcs, NodePcs
  <2>6. CASE UNCHANGED vars
    BY <2>6 DEF vars, OneGraphRun
  <2> QED BY <2>2, <2>3, <2>4, <2>5, <2>6 DEF Next
<1> QED BY <1>1, <1>2, SpecTyped, PTL DEF Spec
-----------------------------------------------------------------------------
(* Who owns a task.                                                         *)

\* What a thread inside chat_async does.
LEMMA RunMoves ==
    ASSUME Typed, NEW t \in Threads, RunStep(t)
    PROVE  /\ th[t].pc \in RunPcs /\ th[t].task \in Tasks
           /\ Written(th[t].task) /\ UNCHANGED <<registered, signalled, queue, control>>
           /\ \E r : /\ Become(t, r)
                     /\ \/ r.pc \in RunPcs /\ r.task = th[t].task
                        \/ t = Api /\ r = IdleThread
<1>1. th[t] \in ThreadState
  BY DEF Typed, TypeOK
<1>2. LockPcs \cup {"publish", "lock", "plan", "unlock", "retract", "settle"} \subseteq RunPcs
  BY DEF RunPcs, LockPcs, NodePcs
<1>3. UNCHANGED <<row, lost>> => Written(th[t].task)
  BY DEF Typed, TypeOK, Rows, Written
<1>4. th[t].pc \in RunPcs => th[t].task \in Tasks
  BY DEF Typed, ThreadRoles, RunPcs, LockPcs, NodePcs
<1>5. ASSUME NEW pc \in RunPcs, Goto(t, pc)
      PROVE  \E r : Become(t, r) /\ r.pc \in RunPcs /\ r.task = th[t].task
  <2> DEFINE r == [th[t] EXCEPT !.pc = pc]
  <2>1. r.pc = pc /\ r.task = th[t].task
    BY <1>1 DEF ThreadState
  <2> QED BY <1>5, <2>1 DEF Goto
<1>6. CASE Publish(t)
  BY <1>2, <1>3, <1>4, <1>5, <1>6 DEF Publish
<1>7. CASE Acquire(t)
  BY <1>2, <1>3, <1>4, <1>5, <1>7 DEF Acquire
<1>8. CASE AnswerDirectly(t)
  BY <1>2, <1>3, <1>4, <1>5, <1>8 DEF AnswerDirectly
<1>9. CASE Raise(t)
  <2> DEFINE r == [th[t] EXCEPT !.pc = "unlock", !.raised = TRUE]
  <2>1. r.pc = "unlock" /\ r.task = th[t].task
    BY <1>1 DEF ThreadState
  <2>2. th[t].pc \in RunPcs
    BY <1>2, <1>9 DEF Raise, LockPcs, NodePcs
  <2> QED BY <1>2, <1>3, <1>4, <1>9, <2>1, <2>2 DEF Raise
<1>10. CASE Release(t)
  BY <1>2, <1>3, <1>4, <1>5, <1>10 DEF Release
<1>11. CASE Retract(t)
  <2>1. CASE t = Api
    BY <1>2, <1>3, <1>4, <1>11, <2>1 DEF Retract, Rest
  <2>2. CASE t # Api
    BY <1>2, <1>3, <1>4, <1>5, <1>11, <2>2 DEF Retract
  <2> QED BY <2>1, <2>2
<1>12. CASE GraphStep(t)
  <2>1. PICK r \in ThreadState : Become(t, r) /\ r.pc \in LockPcs /\ r.task = th[t].task
    BY <1>12, GraphMoves
  <2> QED BY <1>2, <1>12, <2>1, GraphMoves DEF graph, LockPcs
<1> QED BY <1>6, <1>7, <1>8, <1>9, <1>10, <1>11, <1>12 DEF RunStep

\* A step after which every worker has the task it had, and the request thread
\* owns nothing that is registered.
LEMMA SameOwners ==
    ASSUME Typed, OneOwner, NEW t \in Threads, NEW r, Become(t, r),
           queue' = queue, registered' = registered,
           t \in Workers => r.pc # "idle" /\ th[t].pc # "idle" /\ r.task = th[t].task,
           t = Api => (r.pc \in RunPcs \cup {"saved"} => r.task \notin registered)
    PROVE  OneOwner'
<1>1. Api \in Threads /\ Workers \subseteq Threads /\ Api \notin Workers
  BY ThreadAssumption DEF Threads
<1>2. /\ th'[t] = r
      /\ \A u \in Threads : u # t => th'[u] = th[u]
  BY DEF Become, Typed, TypeOK
<1>3. \A w \in Workers : /\ th'[w].pc = "idle" <=> th[w].pc = "idle"
                         /\ th'[w].task = th[w].task
  BY <1>1, <1>2
<1>4. WorkerTasks' = WorkerTasks
  BY <1>3 DEF WorkerTasks
<1>5. Queued' = Queued
  BY DEF Queued
<1>6. Owns(Api, th[Api].task)' => th'[Api].task \notin registered
  <2>1. CASE t = Api
    BY <1>2, <2>1 DEF Owns
  <2>2. CASE t # Api
    BY <1>1, <1>2, <2>2 DEF Owns, OneOwner
  <2> QED BY <2>1, <2>2
<1>7. \A v, w \in Workers :
         /\ th'[v].pc # "idle" => th'[v].task \notin Queued
         /\ th'[v].pc # "idle" /\ th'[w].pc # "idle" /\ th'[v].task = th'[w].task => v = w
  BY <1>3 DEF OneOwner
<1>8. \A i, j \in 1..Len(queue') : queue'[i] = queue'[j] => i = j
  BY DEF OneOwner
<1> QED BY <1>4, <1>5, <1>6, <1>7, <1>8 DEF OneOwner

\* The request thread's steps that leave the runner's queue and table alone.
LEMMA SameOwnersApi ==
    ASSUME Typed, OneOwner, NEW k, NEW pc \in {"saved", "checked", "flag", "publish"},
           Become(Api, [th[Api] EXCEPT !.pc = pc, !.task = k]),
           queue' = queue, registered' = registered,
           pc \in {"saved", "publish"} => k \notin registered
    PROVE  OneOwner'
<1> DEFINE r == [th[Api] EXCEPT !.pc = pc, !.task = k]
<1>1. Api \in Threads /\ Api \notin Workers /\ th[Api] \in ThreadState
  BY ThreadAssumption DEF Threads, Typed, TypeOK
<1>2. r.pc = pc /\ r.task = k
  BY <1>1 DEF ThreadState
<1>3. pc \in RunPcs \cup {"saved"} => pc \in {"saved", "publish"}
  BY DEF RunPcs, LockPcs, NodePcs
<1> HIDE DEF r
<1> QED BY <1>1, <1>2, <1>3, SameOwners DEF r

\* The pool's queue as a set.
LEMMA QueueSets ==
    ASSUME queue \in Seq(Tasks), \A i, j \in 1..Len(queue) : queue[i] = queue[j] => i = j
    PROVE  /\ \A k \in Tasks : queue' = Append(queue, k) =>
                 /\ Queued' = Queued \cup {k}
                 /\ k \notin Queued =>
                       \A i, j \in 1..Len(queue') : queue'[i] = queue'[j] => i = j
           /\ queue # <<>> /\ queue' = Tail(queue) =>
                 /\ Queued' = Queued \ {Head(queue)} /\ Head(queue) \in Queued
                 /\ \A i, j \in 1..Len(queue') : queue'[i] = queue'[j] => i = j
<1>1. ASSUME NEW k \in Tasks, queue' = Append(queue, k)
      PROVE  /\ Queued' = Queued \cup {k}
             /\ k \notin Queued => \A i, j \in 1..Len(queue') : queue'[i] = queue'[j] => i = j
  <2>1. /\ Len(queue') = Len(queue) + 1 /\ queue'[Len(queue) + 1] = k
        /\ \A i \in 1..Len(queue) : queue'[i] = queue[i]
        /\ Len(queue) \in Nat
    BY <1>1
  <2>2. 1..Len(queue') = 1..Len(queue) \cup {Len(queue) + 1}
    BY <2>1
  <2>3. Queued' = Queued \cup {k}
    BY <2>1, <2>2 DEF Queued
  <2>4. ASSUME k \notin Queued
        PROVE  \A i, j \in 1..Len(queue') : queue'[i] = queue'[j] => i = j
    BY <2>1, <2>2, <2>4 DEF Queued
  <2> QED BY <2>3, <2>4
<1>2. ASSUME queue # <<>>, queue' = Tail(queue)
      PROVE  /\ Queued' = Queued \ {Head(queue)} /\ Head(queue) \in Queued
             /\ \A i, j \in 1..Len(queue') : queue'[i] = queue'[j] => i = j
  <2>1. /\ Len(queue) \in Nat \ {0} /\ Len(queue') = Len(queue) - 1 /\ Head(queue) = queue[1]
        /\ \A i \in 1..Len(queue') : queue'[i] = queue[i + 1]
    BY <1>2
  <2>2. \A i \in 1..Len(queue) : i = 1 \/ i - 1 \in 1..Len(queue')
    BY <2>1
  <2>3. \A i \in 1..Len(queue') : i + 1 \in 1..Len(queue) /\ i + 1 # 1
    BY <2>1
  <2>4. Queued' \subseteq Queued \ {Head(queue)}
    BY <2>1, <2>3 DEF Queued
  <2>5. Queued \ {Head(queue)} \subseteq Queued'
    <3> SUFFICES ASSUME NEW x \in Queued \ {Head(queue)} PROVE x \in Queued'
      OBVIOUS
    <3>1. PICK i \in 1..Len(queue) : x = queue[i] /\ i # 1
      BY <2>1 DEF Queued
    <3>2. i - 1 \in 1..Len(queue') /\ (i - 1) + 1 = i
      BY <2>2, <3>1
    <3>3. queue'[i - 1] = queue[(i - 1) + 1]
      BY <2>1, <3>2
    <3> QED BY <3>1, <3>2, <3>3 DEF Queued
  <2>6. Head(queue) \in Queued
    BY <2>1 DEF Queued
  <2>7. ASSUME NEW i \in 1..Len(queue'), NEW j \in 1..Len(queue'), queue'[i] = queue'[j]
        PROVE  i = j
    <3>1. queue[i + 1] = queue[j + 1]
      BY <2>1, <2>7
    <3>2. i + 1 = j + 1
      BY <2>3, <3>1
    <3>3. i \in Int /\ j \in Int
      BY <2>1
    <3> QED BY <3>2, <3>3
  <2> QED BY <2>4, <2>5, <2>6, <2>7
<1> QED BY <1>1, <1>2
\* Starting again, nobody owns anything.
LEMMA RestartOwner == Restart => OneOwner'
<1> SUFFICES ASSUME Restart PROVE OneOwner'
  OBVIOUS
<1>1. /\ registered' = {} /\ queue' = <<>> /\ Len(queue') = 0
      /\ \A t \in Threads : th'[t].pc = "idle"
  BY DEF Restart, IdleThread
<1>2. Queued' = {} /\ WorkerTasks' = {}
  BY <1>1 DEF Queued, WorkerTasks, Threads
<1>3. ~Owns(Api, th[Api].task)'
  BY <1>1 DEF Owns, Threads, RunPcs, LockPcs, NodePcs
<1> QED BY <1>1, <1>2, <1>3 DEF OneOwner, Threads

LEMMA RequestOwner ==
    ASSUME Typed, OneOwner, Request \/ RequestStep
    PROVE  OneOwner'
<1>1. /\ Api \in Threads /\ Api \notin Workers /\ Workers \subseteq Threads
      /\ th[Api] \in ThreadState
  BY ThreadAssumption DEF Threads, Typed, TypeOK
<1>2. \A k \in Tasks : Fresh(k) => k \notin registered
  BY DEF Fresh, Live
<1>3. ASSUME NEW k \in Tasks, Submit(k) PROVE OneOwner'
  BY <1>2, <1>3, SameOwnersApi DEF Submit
<1>4. ASSUME NEW k \in Tasks, ReadSource(k) PROVE OneOwner'
  BY <1>4, SameOwnersApi DEF ReadSource
<1>5. ASSUME NEW k \in Tasks, SubmitCopy(k) PROVE OneOwner'
  BY <1>2, <1>5, SameOwnersApi DEF SubmitCopy
<1>6. ASSUME NEW k \in Tasks, CancelRunning(k) PROVE OneOwner'
  BY <1>6, SameOwnersApi DEF CancelRunning
<1>7. ASSUME NEW k \in Tasks, StartChat(k) PROVE OneOwner'
  BY <1>2, <1>7, SameOwnersApi DEF StartChat
<1>8. ASSUME NEW k \in Tasks, CancelUnknown(k) PROVE OneOwner'
  BY <1>8 DEF CancelUnknown, OneOwner, Queued, WorkerTasks, Owns
<1>9. CASE RefuseCopy \/ MarkRunning \/ FlagCanceled \/ CloseDatabase
  <2>1. Become(Api, IdleThread) /\ queue' = queue /\ registered' = registered
    BY <1>9 DEF RefuseCopy, MarkRunning, FlagCanceled, CloseDatabase, Rest
  <2>2. IdleThread.pc \notin RunPcs \cup {"saved"}
    BY DEF IdleThread, RunPcs, LockPcs, NodePcs
  <2> QED BY <1>1, <2>1, <2>2, SameOwners
<1>10. CASE Shutdown
  <2> DEFINE r == [th[Api] EXCEPT !.pc = "closing"]
  <2>1. r.pc \notin RunPcs \cup {"saved"}
    BY <1>1 DEF RunPcs, LockPcs, NodePcs, ThreadState
  <2>2. Become(Api, r) /\ queue' = queue /\ registered' = registered
    BY <1>10 DEF Shutdown, Goto
  <2> HIDE DEF r
  <2> QED BY <1>1, <2>1, <2>2, SameOwners
<1>11. CASE Enqueue
  <2> DEFINE k == th[Api].task
  <2>1. /\ k \in Tasks /\ queue' = Append(queue, k) /\ registered' = registered \cup {k}
        /\ th' = [th EXCEPT ![Api] = [th[Api] EXCEPT !.pc = "queued"]]
    BY <1>1, <1>11 DEF Enqueue, Goto, Become, Typed, ThreadRoles
  <2>2. k \notin registered
    BY <1>11 DEF Enqueue, OneOwner, Owns
  <2>3. k \notin Queued /\ k \notin WorkerTasks
    BY <2>2 DEF OneOwner
  <2>4. \A w \in Workers : th'[w] = th[w]
    BY <1>1, <2>1 DEF Typed, TypeOK
  <2>5. WorkerTasks' = WorkerTasks
    BY <2>4 DEF WorkerTasks
  <2>6. Queued' = Queued \cup {k} /\ \A i, j \in 1..Len(queue') : queue'[i] = queue'[j] => i = j
    BY <2>1, <2>3, QueueSets DEF OneOwner, Typed, TypeOK
  <2>7. ~Owns(Api, th[Api].task)'
    <3>1. th'[Api].pc = "queued"
      BY <1>1, <2>1 DEF Typed, TypeOK, ThreadState
    <3> QED BY <3>1 DEF Owns, RunPcs, LockPcs, NodePcs
  <2>8. registered' = (Queued \cup WorkerTasks)'
    BY <2>1, <2>5, <2>6 DEF OneOwner
  <2>9. \A w \in Workers : th[w].pc # "idle" => th[w].task \in WorkerTasks
    BY DEF WorkerTasks
  <2>10. \A v, w \in Workers :
          /\ th'[v].pc # "idle" => th'[v].task \notin Queued'
          /\ th'[v].pc # "idle" /\ th'[w].pc # "idle" /\ th'[v].task = th'[w].task => v = w
    BY <2>3, <2>4, <2>6, <2>9 DEF OneOwner
  <2> QED BY <2>6, <2>7, <2>8, <2>10 DEF OneOwner
<1> QED BY <1>3, <1>4, <1>5, <1>6, <1>7, <1>8, <1>9, <1>10, <1>11 DEF Request, RequestStep

LEMMA WorkerOwner ==
    ASSUME Typed, OneOwner, NEW w \in Workers, WorkerStep(w)
    PROVE  OneOwner'
<1>1. /\ Api \in Threads /\ Api # w /\ w \in Threads /\ Workers \subseteq Threads
      /\ Api \notin Workers /\ th[w] \in ThreadState
  BY ThreadAssumption DEF Threads, Typed, TypeOK
<1>2. CASE Take(w)
  <2> DEFINE k == Head(queue)
             r == [th[w] EXCEPT !.pc = "clear", !.task = k]
  <2>1. /\ th[w].pc = "idle" /\ queue # <<>> /\ queue' = Tail(queue)
        /\ registered' = registered /\ Become(w, r)
    BY <1>2 DEF Take
  <2>2. r.pc = "clear" /\ r.task = k
    BY <1>1 DEF ThreadState
  <2> HIDE DEF r
  <2>3. /\ Queued' = Queued \ {k} /\ k \in Queued
        /\ \A i, j \in 1..Len(queue') : queue'[i] = queue'[j] => i = j
    BY <2>1, QueueSets DEF OneOwner, Typed, TypeOK
  <2>4. /\ th'[w] = r
        /\ \A u \in Threads : u # w => th'[u] = th[u]
    BY <1>1, <2>1 DEF Become, Typed, TypeOK
  <2>5. WorkerTasks' = WorkerTasks \cup {k}
    <3>1. WorkerTasks' \subseteq WorkerTasks \cup {k}
      BY <1>1, <2>2, <2>4 DEF WorkerTasks
    <3>2. k \in WorkerTasks'
      BY <2>2, <2>4 DEF WorkerTasks
    <3>3. ASSUME NEW v \in Workers, th[v].pc # "idle" PROVE th[v].task \in WorkerTasks'
      <4>1. v # w /\ th'[v] = th[v]
        BY <1>1, <2>1, <2>4, <3>3
      <4> QED BY <3>3, <4>1 DEF WorkerTasks
    <3> QED BY <3>1, <3>2, <3>3 DEF WorkerTasks
  <2>6. registered' = (Queued \cup WorkerTasks)'
    BY <2>1, <2>3, <2>5 DEF OneOwner
  <2>7. \A v, x \in Workers :
          /\ th'[v].pc # "idle" => th'[v].task \notin Queued'
          /\ th'[v].pc # "idle" /\ th'[x].pc # "idle" /\ th'[v].task = th'[x].task => v = x
    BY <1>1, <2>1, <2>2, <2>3, <2>4 DEF OneOwner
  <2>8. th'[Api] = th[Api] /\ (Owns(Api, th[Api].task)' => th'[Api].task \notin registered')
    BY <1>1, <2>1, <2>4 DEF OneOwner, Owns
  <2> QED BY <2>3, <2>6, <2>7, <2>8 DEF OneOwner
<1>3. CASE ClearFlag(w)
  <2> DEFINE r == [th[w] EXCEPT !.pc = "publish"]
  <2>1. r.pc # "idle" /\ th[w].pc # "idle" /\ r.task = th[w].task
    BY <1>1, <1>3 DEF ClearFlag, ThreadState
  <2>2. Become(w, r) /\ queue' = queue /\ registered' = registered
    BY <1>3 DEF ClearFlag, Goto
  <2> HIDE DEF r
  <2> QED BY <1>1, <2>1, <2>2, SameOwners
<1>4. CASE Settle(w)
  <2>1. PICK pc \in {"finish", "pop"} : Goto(w, pc)
    BY <1>4, SettleMoves
  <2> DEFINE r == [th[w] EXCEPT !.pc = pc]
  <2>2. r.pc # "idle" /\ th[w].pc # "idle" /\ r.task = th[w].task
    BY <1>1, <1>4, <2>1 DEF Settle, ThreadState
  <2>3. Become(w, r) /\ queue' = queue /\ registered' = registered
    BY <1>4, <2>1 DEF Settle, Goto
  <2> HIDE DEF r
  <2> QED BY <1>1, <2>2, <2>3, SameOwners
<1>6. CASE Finish(w)
  <2> DEFINE r == [th[w] EXCEPT !.pc = "pop"]
  <2>1. r.pc # "idle" /\ th[w].pc # "idle" /\ r.task = th[w].task
    BY <1>1, <1>6 DEF Finish, ThreadState
  <2>2. Become(w, r) /\ queue' = queue /\ registered' = registered
    BY <1>6 DEF Finish, Goto
  <2> HIDE DEF r
  <2> QED BY <1>1, <2>1, <2>2, SameOwners
<1>5. CASE Pop(w)
  <2> DEFINE k == th[w].task
  <2>1. /\ th[w].pc # "idle" /\ queue' = queue /\ registered' = registered \ {k}
        /\ Become(w, IdleThread)
    BY <1>5 DEF Pop, Rest
  <2>2. /\ th'[w].pc = "idle"
        /\ \A u \in Threads : u # w => th'[u] = th[u]
    BY <1>1, <2>1 DEF Become, Typed, TypeOK, IdleThread
  <2>3. Queued' = Queued /\ k \notin Queued
    BY <2>1 DEF Queued, OneOwner
  <2>4. \A v \in Workers : v # w /\ th[v].pc # "idle" => th[v].task # k
    BY <2>1 DEF OneOwner
  <2>5. WorkerTasks' = WorkerTasks \ {k}
    <3>1. \A v \in Workers : th'[v].pc # "idle" <=> v # w /\ th[v].pc # "idle"
      BY <1>1, <2>2
    <3>2. WorkerTasks' \subseteq WorkerTasks \ {k}
      BY <1>1, <2>2, <2>4, <3>1 DEF WorkerTasks
    <3>3. WorkerTasks \ {k} \subseteq WorkerTasks'
      BY <1>1, <2>2, <3>1 DEF WorkerTasks
    <3> QED BY <3>2, <3>3
  <2>6. registered' = (Queued \cup WorkerTasks)'
    BY <2>1, <2>3, <2>5 DEF OneOwner
  <2>7. \A v, x \in Workers :
          /\ th'[v].pc # "idle" => th'[v].task \notin Queued'
          /\ th'[v].pc # "idle" /\ th'[x].pc # "idle" /\ th'[v].task = th'[x].task => v = x
    BY <1>1, <2>2, <2>3 DEF OneOwner
  <2>8. th'[Api] = th[Api] /\ (Owns(Api, th[Api].task)' => th'[Api].task \notin registered')
    BY <1>1, <2>1, <2>2 DEF OneOwner, Owns
  <2>9. \A i, j \in 1..Len(queue') : queue'[i] = queue'[j] => i = j
    BY <2>1 DEF OneOwner
  <2> QED BY <2>6, <2>7, <2>8, <2>9 DEF OneOwner
<1> QED BY <1>2, <1>3, <1>4, <1>5, <1>6 DEF WorkerStep

LEMMA RunOwner ==
    ASSUME Typed, OneOwner, NEW t \in Threads, RunStep(t)
    PROVE  OneOwner'
<1>1. PICK r : /\ Become(t, r)
               /\ \/ r.pc \in RunPcs /\ r.task = th[t].task
                  \/ t = Api /\ r = IdleThread
  BY RunMoves
<1>2. th[t].pc \in RunPcs /\ queue' = queue /\ registered' = registered
  BY RunMoves
<1>3. "idle" \notin RunPcs \cup {"saved"} /\ IdleThread.pc = "idle"
  BY DEF RunPcs, LockPcs, NodePcs, IdleThread
<1>4. t \in Workers => r.pc # "idle" /\ th[t].pc # "idle" /\ r.task = th[t].task
  BY <1>1, <1>2, <1>3, ThreadAssumption
<1>5. t = Api => (r.pc \in RunPcs \cup {"saved"} => r.task \notin registered)
  BY <1>1, <1>2, <1>3 DEF OneOwner, Owns
<1> QED BY <1>1, <1>2, <1>4, <1>5, SameOwners

\* The runner's table and the pool's queue agree with the threads: no task is
\* executed twice, and is_running tells whether a task will still be executed.
THEOREM TasksHaveOneOwner == Spec => []OneOwner
<1>1. Init => OneOwner
  BY DEF Init, OneOwner, IdleThread, Queued, WorkerTasks, Owns, Threads, RunPcs, LockPcs, NodePcs
<1>2. Typed /\ OneOwner /\ [Next]_vars => OneOwner'
  <2> SUFFICES ASSUME Typed, OneOwner, [Next]_vars PROVE OneOwner'
    OBVIOUS
  <2>1. CASE Request \/ RequestStep
    BY <2>1, RequestOwner
  <2>2. CASE \E w \in Workers : WorkerStep(w)
    BY <2>2, WorkerOwner
  <2>3. CASE \E t \in Threads : RunStep(t)
    BY <2>3, RunOwner
  <2>4. CASE Restart
    BY <2>4, RestartOwner
  <2>5. CASE UNCHANGED vars
    BY <2>5 DEF vars, OneOwner, Queued, WorkerTasks, Owns
  <2> QED BY <2>1, <2>2, <2>3, <2>4, <2>5 DEF Next
<1> QED BY <1>1, <1>2, SpecTyped, PTL DEF Spec
-----------------------------------------------------------------------------
(* Ended tasks.                                                             *)

\* A request between two writes works for a task the runner still knows: its
\* worker cannot be past Pop, which waits for TaskRunner._lock.
RequestKnown == th[Api].pc \in {"queued", "flag"} => th[Api].task \in registered

\* Any step other than the request thread's.
LEMMA SameRequest ==
    ASSUME Typed, RequestKnown, NEW t \in Threads, NEW r, Become(t, r),
           t = Api => r.pc \notin {"queued", "flag"},
           registered \subseteq registered'
    PROVE  RequestKnown'
<1>1. Api \in Threads
  BY DEF Threads
<1>2. th'[t] = r /\ \A u \in Threads : u # t => th'[u] = th[u]
  BY DEF Become, Typed, TypeOK
<1> QED BY <1>1, <1>2 DEF RequestKnown

LEMMA NextRequestKnown == Typed /\ RequestKnown /\ [Next]_vars => RequestKnown'
<1> SUFFICES ASSUME Typed, RequestKnown, [Next]_vars PROVE RequestKnown'
  OBVIOUS
<1>1. Api \in Threads /\ Api \notin Workers /\ th[Api] \in ThreadState
  BY ThreadAssumption DEF Threads, Typed, TypeOK
<1>2. ASSUME NEW k \in Tasks, NEW pc \in {"saved", "checked", "publish"},
             Become(Api, [th[Api] EXCEPT !.pc = pc, !.task = k]), registered' = registered
      PROVE  RequestKnown'
  <2> DEFINE r == [th[Api] EXCEPT !.pc = pc, !.task = k]
  <2>1. r.pc = pc
    BY <1>1 DEF ThreadState
  <2> HIDE DEF r
  <2> QED BY <1>1, <1>2, <2>1, SameRequest DEF r
<1>3. ASSUME NEW k \in Tasks, Submit(k) PROVE RequestKnown'
  BY <1>2, <1>3 DEF Submit
<1>4. ASSUME NEW k \in Tasks, ReadSource(k) PROVE RequestKnown'
  BY <1>2, <1>4 DEF ReadSource
<1>5. ASSUME NEW k \in Tasks, SubmitCopy(k) PROVE RequestKnown'
  BY <1>2, <1>5 DEF SubmitCopy
<1>6. ASSUME NEW k \in Tasks, StartChat(k) PROVE RequestKnown'
  BY <1>2, <1>6 DEF StartChat
<1>7. ASSUME NEW k \in Tasks, CancelUnknown(k) PROVE RequestKnown'
  BY <1>7 DEF CancelUnknown, RequestKnown
<1>8. ASSUME NEW k \in Tasks, CancelRunning(k) PROVE RequestKnown'
  <2>1. /\ k \in registered /\ registered' = registered
        /\ th' = [th EXCEPT ![Api] = [th[Api] EXCEPT !.pc = "flag", !.task = k]]
    BY <1>8 DEF CancelRunning, Become
  <2>2. th'[Api].task = k
    BY <1>1, <2>1 DEF Typed, TypeOK, ThreadState
  <2> QED BY <2>1, <2>2 DEF RequestKnown
<1>9. CASE Enqueue
  <2>1. /\ registered' = registered \cup {th[Api].task}
        /\ th' = [th EXCEPT ![Api] = [th[Api] EXCEPT !.pc = "queued"]]
    BY <1>9 DEF Enqueue, Goto, Become
  <2>2. th'[Api].task = th[Api].task
    BY <1>1, <2>1 DEF Typed, TypeOK, ThreadState
  <2> QED BY <2>1, <2>2 DEF RequestKnown
<1>10. CASE RefuseCopy \/ MarkRunning \/ FlagCanceled \/ CloseDatabase
  <2>1. Become(Api, IdleThread) /\ registered' = registered /\ IdleThread.pc = "idle"
    BY <1>10 DEF RefuseCopy, MarkRunning, FlagCanceled, CloseDatabase, Rest, IdleThread
  <2> QED BY <1>1, <2>1, SameRequest
<1>11. CASE Shutdown
  <2> DEFINE r == [th[Api] EXCEPT !.pc = "closing"]
  <2>1. r.pc = "closing"
    BY <1>1 DEF ThreadState
  <2>2. Become(Api, r) /\ registered' = registered
    BY <1>11 DEF Shutdown, Goto
  <2> HIDE DEF r
  <2> QED BY <1>1, <2>1, <2>2, SameRequest
<1>12. ASSUME NEW w \in Workers, WorkerStep(w) PROVE RequestKnown'
  <2>1. PICK r \in ThreadState : Become(w, r)
    BY <1>12, WorkerMoves
  <2>2. w \in Threads /\ w # Api
    BY <1>12, WorkerMoves
  <2>3. CASE registered \subseteq registered'
    BY <2>1, <2>2, <2>3, SameRequest
  <2>4. CASE Pop(w)
    <3>1. th[Api].pc \notin {"queued", "flag"}
      BY <2>4 DEF Pop, RunnerLockFree, RunnerLockPcs
    <3>2. th'[Api] = th[Api]
      BY <1>1, <2>1, <2>2 DEF Become, Typed, TypeOK
    <3> QED BY <3>1, <3>2 DEF RequestKnown
  <2>5. Take(w) \/ ClearFlag(w) \/ Settle(w) \/ Finish(w) => registered \subseteq registered'
    BY DEF Take, ClearFlag, Settle, Finish
  <2> QED BY <1>12, <2>3, <2>4, <2>5 DEF WorkerStep
<1>13. ASSUME NEW t \in Threads, RunStep(t) PROVE RequestKnown'
  <2>1. PICK r : /\ Become(t, r)
                 /\ \/ r.pc \in RunPcs
                    \/ t = Api /\ r = IdleThread
    BY <1>13, RunMoves
  <2>2. registered' = registered
    BY <1>13, RunMoves
  <2>3. r.pc \notin {"queued", "flag"}
    BY <2>1 DEF RunPcs, LockPcs, NodePcs, IdleThread
  <2> QED BY <2>1, <2>2, <2>3, SameRequest
<1>14. CASE Restart
  BY <1>1, <1>14 DEF Restart, RequestKnown, IdleThread
<1>15. CASE UNCHANGED vars
  BY <1>15 DEF vars, RequestKnown
<1> QED BY <1>3, <1>4, <1>5, <1>6, <1>7, <1>8, <1>9, <1>10, <1>11, <1>12, <1>13, <1>14, <1>15
        DEF Next, Request, RequestStep

\* Only a task's owner writes its row once it has ended.
LEMMA EndedRowKept ==
    ASSUME Typed, RequestKnown, [Next]_vars,
           NEW k \in Tasks, row[k].status \in Ended, ~Live(k)
    PROVE  row'[k] = row[k]
<1>1. Api \in Threads /\ Workers \subseteq Threads /\ row \in Rows
  BY DEF Threads, Typed, TypeOK, Rows
<1>2. \A j \in Tasks : Written(j) /\ j # k => row'[k] = row[k]
  BY DEF Written
<1>3. row[k].status \notin {"absent", "pending", "running"}
  BY DEF Ended
<1>4. {"pending", "running", "success"} \subseteq RowStatus \ {"absent"}
  BY DEF RowStatus, Ended
<1>5. ASSUME NEW j \in Tasks, Submit(j) PROVE row'[k] = row[k]
  <2>1. j # k
    BY <1>3, <1>5 DEF Submit, Fresh
  <2> QED BY <1>2, <1>4, <1>5, <2>1, SaveType DEF Submit, Typed
<1>6. ASSUME NEW j \in Tasks, SubmitCopy(j) PROVE row'[k] = row[k]
  <2>1. j # k
    BY <1>3, <1>6 DEF SubmitCopy, Fresh
  <2> QED BY <1>2, <1>4, <1>6, <2>1, SaveType DEF SubmitCopy, Typed
<1>7. ASSUME NEW j \in Tasks, CancelUnknown(j) PROVE row'[k] = row[k]
  <2>1. j # k
    BY <1>3, <1>7 DEF CancelUnknown
  <2> QED BY <1>2, <1>7, <2>1, SetCancelType DEF CancelUnknown, Typed
<1>8. ASSUME NEW j \in Tasks, ReadSource(j) \/ CancelRunning(j) \/ StartChat(j)
      PROVE  row'[k] = row[k]
  BY <1>8 DEF ReadSource, CancelRunning, StartChat
<1>9. CASE Shutdown \/ RefuseCopy \/ Enqueue \/ CloseDatabase
  BY <1>9 DEF Shutdown, RefuseCopy, Enqueue, CloseDatabase
<1>10. CASE MarkRunning
  <2>1. th[Api].task \in registered /\ th[Api].task \in Tasks
    BY <1>10 DEF MarkRunning, RequestKnown, Typed, TypeOK
  <2>2. th[Api].task # k
    BY <2>1 DEF Live
  <2> QED BY <1>2, <1>4, <1>10, <2>1, <2>2, UpdateStatusType DEF MarkRunning, Typed
<1>11. CASE FlagCanceled
  <2>1. th[Api].task \in registered /\ th[Api].task \in Tasks
    BY <1>11 DEF FlagCanceled, RequestKnown, Typed, TypeOK
  <2>2. th[Api].task # k
    BY <2>1 DEF Live
  <2> QED BY <1>2, <1>11, <2>1, <2>2, SetCancelType DEF FlagCanceled, Typed
<1>12. ASSUME NEW t \in Threads, th[t].pc \in RunPcs
       PROVE  th[t].task # k /\ th[t].task \in Tasks
  BY <1>12 DEF Live, Owns, Typed, ThreadRoles, RunPcs, LockPcs, NodePcs
<1>13. ASSUME NEW w \in Workers, WorkerStep(w) PROVE row'[k] = row[k]
  <2>1. CASE Take(w) \/ Settle(w) \/ Pop(w)
    BY <2>1 DEF Take, Settle, Pop
  <2>2. CASE ClearFlag(w)
    <3>1. th[w].task # k /\ th[w].task \in Tasks
      BY <1>1, <1>12, <2>2 DEF ClearFlag, RunPcs
    <3> QED BY <1>2, <2>2, <3>1, SetCancelType DEF ClearFlag, Typed
  <2>3. CASE Finish(w)
    <3>1. th[w].task # k /\ th[w].task \in Tasks
      BY <1>1, <1>12, <2>3 DEF Finish, RunPcs
    <3> QED BY <1>2, <1>4, <2>3, <3>1, UpdateStatusType DEF Finish, Typed
  <2> QED BY <1>13, <2>1, <2>2, <2>3 DEF WorkerStep
<1>14. ASSUME NEW t \in Threads, RunStep(t) PROVE row'[k] = row[k]
  BY <1>2, <1>12, <1>14, RunMoves
<1>15. CASE Restart
  BY <1>3, <1>15 DEF Restart, MarkInterrupted
<1>16. CASE UNCHANGED vars
  BY <1>16 DEF vars
<1> QED BY <1>5, <1>6, <1>7, <1>8, <1>9, <1>10, <1>11, <1>13, <1>14, <1>15, <1>16
        DEF Next, Request, RequestStep

\* A result is final: the row of an ended task that nobody owns never changes.
THEOREM EndedRowsAreStable == Spec => EndedIsStable
<1>1. Init => RequestKnown
  BY DEF Init, RequestKnown, IdleThread, Threads
<1>2. Typed /\ RequestKnown /\ [Next]_vars =>
         [\A k \in Tasks : row[k].status \in Ended /\ ~Live(k) => row'[k] = row[k]]_vars
  BY EndedRowKept
<1> QED BY <1>1, <1>2, NextRequestKnown, SpecTyped, PTL DEF Spec, EndedIsStable
-----------------------------------------------------------------------------
(* Retries.                                                                 *)

\* No write takes a row away.
LEMMA RowsStay ==
    ASSUME Typed, [Next]_vars, NEW k \in Tasks, row[k].status # "absent"
    PROVE  row'[k].status # "absent"
<1>1. Api \in Threads /\ Workers \subseteq Threads /\ row \in Rows
  BY DEF Threads, Typed, TypeOK, Rows
<1>2. \A j \in Tasks : Written(j) => row'[k].status # "absent"
  BY DEF Written
<1>3. row' = row => row'[k].status # "absent"
  OBVIOUS
<1>4. {"pending", "running", "success"} \subseteq RowStatus \ {"absent"}
  BY DEF RowStatus, Ended
<1>5. ASSUME NEW t \in Threads, th[t].pc \in RunPcs \cup RequestPcs, th[t].pc # "closing"
      PROVE  th[t].task \in Tasks
  BY <1>5 DEF Typed, ThreadRoles, RunPcs, RequestPcs, LockPcs, NodePcs
<1>6. ASSUME NEW j \in Tasks, Submit(j) \/ SubmitCopy(j) \/ CancelUnknown(j)
      PROVE  row'[k].status # "absent"
  BY <1>2, <1>4, <1>6, SaveType, SetCancelType DEF Submit, SubmitCopy, CancelUnknown, Typed
<1>7. ASSUME NEW j \in Tasks, ReadSource(j) \/ CancelRunning(j) \/ StartChat(j)
      PROVE  row'[k].status # "absent"
  BY <1>3, <1>7 DEF ReadSource, CancelRunning, StartChat
<1>8. CASE Shutdown \/ RefuseCopy \/ Enqueue \/ CloseDatabase
  BY <1>3, <1>8 DEF Shutdown, RefuseCopy, Enqueue, CloseDatabase
<1>9. CASE MarkRunning \/ FlagCanceled
  <2>1. th[Api].task \in Tasks
    BY <1>1, <1>5, <1>9 DEF MarkRunning, FlagCanceled, RequestPcs
  <2> QED BY <1>2, <1>4, <1>9, <2>1, UpdateStatusType, SetCancelType DEF MarkRunning, FlagCanceled, Typed
<1>10. ASSUME NEW w \in Workers, WorkerStep(w) PROVE row'[k].status # "absent"
  <2>1. CASE Take(w) \/ Settle(w) \/ Pop(w)
    BY <1>3, <2>1 DEF Take, Settle, Pop
  <2>2. CASE ClearFlag(w)
    <3>1. th[w].task \in Tasks
      BY <1>1, <1>5, <2>2 DEF ClearFlag, RunPcs
    <3> QED BY <1>2, <2>2, <3>1, SetCancelType DEF ClearFlag, Typed
  <2>3. CASE Finish(w)
    <3>1. th[w].task \in Tasks
      BY <1>1, <1>5, <2>3 DEF Finish, RunPcs
    <3> QED BY <1>2, <1>3, <1>4, <2>3, <3>1, UpdateStatusType DEF Finish, Typed
  <2> QED BY <1>10, <2>1, <2>2, <2>3 DEF WorkerStep
<1>11. ASSUME NEW t \in Threads, RunStep(t) PROVE row'[k].status # "absent"
  BY <1>2, <1>11, RunMoves
<1>12. CASE Restart
  BY <1>1, <1>12 DEF Restart, MarkInterrupted, Rows
<1>13. CASE UNCHANGED vars
  BY <1>13 DEF vars
<1> QED BY <1>6, <1>7, <1>8, <1>9, <1>10, <1>11, <1>12, <1>13 DEF Next, Request, RequestStep

\* A thread that turns to other work wakes no task.
LEMMA StaysUnowned ==
    ASSUME Typed, NEW t \in Threads, NEW r, Become(t, r), NEW k \in Tasks, ~Live(k),
           registered' \subseteq registered,
           r.pc \in RunPcs \cup {"saved"} => r.task # k
    PROVE  ~Live(k)'
<1>1. th'[t] = r /\ \A u \in Threads : u # t => th'[u] = th[u]
  BY DEF Become, Typed, TypeOK
<1> QED BY <1>1 DEF Live, Owns

\* Only a task without a row, and without an owner, gets one.
LEMMA OnlyFreshWakes ==
    ASSUME Typed, OneOwner, [Next]_vars, NEW k \in Tasks, ~Live(k), Live(k)'
    PROVE  /\ Fresh(k)
           /\ Submit(k) \/ SubmitCopy(k) \/ StartChat(k)
<1> SUFFICES ASSUME ~(Submit(k) \/ SubmitCopy(k) \/ StartChat(k)) PROVE FALSE
  BY DEF Submit, SubmitCopy, StartChat
<1>1. /\ Api \in Threads /\ Workers \subseteq Threads /\ Api \notin Workers
      /\ \A t \in Threads : th[t] \in ThreadState
  BY ThreadAssumption DEF Threads, Typed, TypeOK
<1>2. ASSUME NEW j, NEW pc \in {"saved", "checked", "flag", "publish"},
             Become(Api, [th[Api] EXCEPT !.pc = pc, !.task = j]), registered' = registered
      PROVE  j = k
  <2> DEFINE r == [th[Api] EXCEPT !.pc = pc, !.task = j]
  <2>1. r.task = j
    BY <1>1 DEF ThreadState
  <2> HIDE DEF r
  <2> QED BY <1>1, <1>2, <2>1, StaysUnowned DEF r
<1>3. ASSUME NEW pc \in {"closing", "queued"}, Become(Api, [th[Api] EXCEPT !.pc = pc]),
             registered' = registered
      PROVE  FALSE
  <2> DEFINE r == [th[Api] EXCEPT !.pc = pc]
  <2>1. r.pc \notin RunPcs \cup {"saved"}
    BY <1>1 DEF ThreadState, RunPcs, LockPcs, NodePcs
  <2> HIDE DEF r
  <2> QED BY <1>1, <1>3, <2>1, StaysUnowned DEF r
<1>4. IdleThread.pc \notin RunPcs \cup {"saved"}
  BY DEF IdleThread, RunPcs, LockPcs, NodePcs
<1>5. ASSUME NEW j \in Tasks, Submit(j) \/ SubmitCopy(j) \/ StartChat(j) PROVE FALSE
  BY <1>2, <1>5 DEF Submit, SubmitCopy, StartChat
<1>6. ASSUME NEW j \in Tasks, ReadSource(j) \/ CancelRunning(j) PROVE FALSE
  <2>1. PICK pc \in {"checked", "flag"} :
           Become(Api, [th[Api] EXCEPT !.pc = pc, !.task = j]) /\ registered' = registered
    BY <1>6 DEF ReadSource, CancelRunning
  <2> DEFINE r == [th[Api] EXCEPT !.pc = pc, !.task = j]
  <2>2. r.pc \notin RunPcs \cup {"saved"}
    BY <1>1 DEF ThreadState, RunPcs, LockPcs, NodePcs
  <2> HIDE DEF r
  <2> QED BY <1>1, <2>1, <2>2, StaysUnowned DEF r
<1>7. ASSUME NEW j \in Tasks, CancelUnknown(j) PROVE FALSE
  BY <1>7 DEF CancelUnknown, Live, Owns
<1>8. CASE RefuseCopy \/ MarkRunning \/ FlagCanceled \/ CloseDatabase
  <2>1. Become(Api, IdleThread) /\ registered' = registered
    BY <1>8 DEF RefuseCopy, MarkRunning, FlagCanceled, CloseDatabase, Rest
  <2> QED BY <1>1, <1>4, <2>1, StaysUnowned
<1>9. CASE Shutdown
  BY <1>3, <1>9 DEF Shutdown, Goto
<1>10. CASE Enqueue
  <2>1. /\ th[Api].pc = "saved" /\ registered' = registered \cup {th[Api].task}
        /\ Become(Api, [th[Api] EXCEPT !.pc = "queued"])
    BY <1>10 DEF Enqueue, Goto
  <2>2. th[Api].task # k
    BY <1>1, <2>1 DEF Live, Owns
  <2>3. th'[Api].pc = "queued" /\ \A u \in Threads : u # Api => th'[u] = th[u]
    BY <1>1, <2>1 DEF Become, Typed, TypeOK, ThreadState
  <2> QED BY <1>1, <2>1, <2>2, <2>3 DEF Live, Owns, RunPcs, LockPcs, NodePcs
<1>11. ASSUME NEW w \in Workers, WorkerStep(w) PROVE FALSE
  <2>1. CASE Take(w)
    <3> DEFINE r == [th[w] EXCEPT !.pc = "clear", !.task = Head(queue)]
    <3>1. Become(w, r) /\ registered' = registered /\ queue # <<>> /\ queue \in Seq(Tasks)
      BY <2>1 DEF Take, Typed, TypeOK
    <3>2. Head(queue) \in Queued
      <4>1. Len(queue) \in Nat \ {0} /\ Head(queue) = queue[1]
        BY <3>1
      <4> QED BY <4>1 DEF Queued
    <3>3. Head(queue) # k
      BY <3>2 DEF Live, OneOwner
    <3>4. r.task # k
      BY <1>1, <3>3 DEF ThreadState
    <3> HIDE DEF r
    <3> QED BY <1>1, <3>1, <3>4, StaysUnowned
  <2>2. CASE ClearFlag(w) \/ Settle(w) \/ Finish(w)
    <3>1. PICK pc \in {"publish", "finish", "pop"} : Become(w, [th[w] EXCEPT !.pc = pc])
      BY <1>1, <2>2, SettleMoves DEF ClearFlag, Finish, Goto
    <3> DEFINE r == [th[w] EXCEPT !.pc = pc]
    <3>2. th[w].pc \in RunPcs /\ registered' = registered
      BY <2>2, SettleMoves DEF ClearFlag, Finish, RunPcs
    <3>3. r.task # k
      BY <1>1, <3>2 DEF Live, Owns, ThreadState
    <3> HIDE DEF r
    <3> QED BY <1>1, <3>1, <3>2, <3>3, StaysUnowned DEF r
  <2>3. CASE Pop(w)
    <3>1. Become(w, IdleThread) /\ registered' \subseteq registered
      BY <2>3 DEF Pop, Rest
    <3> QED BY <1>1, <1>4, <3>1, StaysUnowned
  <2> QED BY <1>11, <2>1, <2>2, <2>3 DEF WorkerStep
<1>12. ASSUME NEW t \in Threads, RunStep(t) PROVE FALSE
  <2>1. PICK r : /\ Become(t, r)
                 /\ \/ r.pc \in RunPcs /\ r.task = th[t].task
                    \/ t = Api /\ r = IdleThread
    BY <1>12, RunMoves
  <2>2. th[t].pc \in RunPcs /\ registered' = registered
    BY <1>12, RunMoves
  <2>3. r.pc \in RunPcs \cup {"saved"} => r.task # k
    BY <1>4, <2>1, <2>2 DEF Live, Owns
  <2> QED BY <2>1, <2>2, <2>3, StaysUnowned
<1>13. CASE Restart
  <2>1. registered' = {} /\ \A t \in Threads : th'[t].pc = "idle"
    BY <1>13 DEF Restart, IdleThread
  <2> QED BY <2>1 DEF Live, Owns, RunPcs, LockPcs, NodePcs
<1>14. CASE UNCHANGED vars
  BY <1>14 DEF vars, Live, Owns
<1> QED BY <1>5, <1>6, <1>7, <1>8, <1>9, <1>10, <1>11, <1>12, <1>13, <1>14
        DEF Next, Request, RequestStep

\* The row a retry has read exists.  So does that of a task's source, which nobody owns:
\* its id is taken for good, and it never runs again.
SourcesRest ==
    /\ th[Api].pc = "checked" => row[th[Api].task].status # "absent"
    /\ \A k \in Tasks : source[k] # None => row[source[k]].status # "absent" /\ ~Live(source[k])

\* The request thread has read a row only by ReadSource.
LEMMA OnlyReadSourceChecks ==
    ASSUME Typed, [Next]_vars, th'[Api].pc = "checked"
    PROVE  \/ th'[Api] = th[Api]
           \/ \E s \in Tasks : ReadSource(s) /\ th'[Api].task = s
<1>1. /\ Api \in Threads /\ Workers \subseteq Threads /\ Api \notin Workers
      /\ th[Api] \in ThreadState
      /\ \A t \in Threads : \A r : Become(t, r) =>
            th'[t] = r /\ \A u \in Threads : u # t => th'[u] = th[u]
  BY ThreadAssumption DEF Threads, Become, Typed, TypeOK
<1>2. ASSUME NEW j \in Tasks, Submit(j) \/ SubmitCopy(j) \/ StartChat(j) \/ CancelRunning(j)
      PROVE  FALSE
  <2>1. PICK pc \in {"saved", "flag", "publish"} :
           Become(Api, [th[Api] EXCEPT !.pc = pc, !.task = j])
    BY <1>2 DEF Submit, SubmitCopy, StartChat, CancelRunning
  <2>2. [th[Api] EXCEPT !.pc = pc, !.task = j].pc = pc
    BY <1>1 DEF ThreadState
  <2>3. th'[Api].pc = pc
    BY <1>1, <2>1, <2>2
  <2> QED BY <2>3
<1>3. ASSUME NEW s \in Tasks, ReadSource(s) PROVE th'[Api].task = s
  <2>1. Become(Api, [th[Api] EXCEPT !.pc = "checked", !.task = s])
    BY <1>3 DEF ReadSource
  <2>2. [th[Api] EXCEPT !.pc = "checked", !.task = s].task = s
    BY <1>1 DEF ThreadState
  <2> QED BY <1>1, <2>1, <2>2
<1>4. ASSUME NEW j \in Tasks, CancelUnknown(j) PROVE th'[Api] = th[Api]
  BY <1>4 DEF CancelUnknown
<1>5. CASE Shutdown \/ Enqueue
  <2>1. PICK pc \in {"closing", "queued"} : Become(Api, [th[Api] EXCEPT !.pc = pc])
    BY <1>5 DEF Shutdown, Enqueue, Goto
  <2>2. [th[Api] EXCEPT !.pc = pc].pc = pc
    BY <1>1 DEF ThreadState
  <2>3. th'[Api].pc = pc
    BY <1>1, <2>1, <2>2
  <2> QED BY <2>3
<1>6. CASE RefuseCopy \/ MarkRunning \/ FlagCanceled \/ CloseDatabase
  <2>1. Become(Api, IdleThread) /\ IdleThread.pc = "idle"
    BY <1>6 DEF RefuseCopy, MarkRunning, FlagCanceled, CloseDatabase, Rest, IdleThread
  <2>2. th'[Api] = IdleThread
    BY <1>1, <2>1
  <2> QED BY <2>1, <2>2
<1>7. ASSUME NEW w \in Workers, WorkerStep(w) PROVE th'[Api] = th[Api]
  <2>1. PICK r \in ThreadState : Become(w, r)
    BY <1>7, WorkerMoves
  <2> QED BY <1>1, <2>1
<1>8. ASSUME NEW t \in Threads, RunStep(t) PROVE th'[Api] = th[Api]
  <2>1. PICK r : /\ Become(t, r)
                 /\ \/ r.pc \in RunPcs
                    \/ t = Api /\ r = IdleThread
    BY <1>8, RunMoves
  <2>2. r.pc # "checked"
    BY <2>1 DEF RunPcs, LockPcs, NodePcs, IdleThread
  <2> QED BY <1>1, <2>1, <2>2
<1>9. CASE Restart
  BY <1>1, <1>9 DEF Restart, IdleThread
<1>10. CASE UNCHANGED vars
  BY <1>10 DEF vars
<1> QED BY <1>2, <1>3, <1>4, <1>5, <1>6, <1>7, <1>8, <1>9, <1>10 DEF Next, Request, RequestStep

\* A task's source is set when it is submitted, and only then.
LEMMA SourceIsSet ==
    ASSUME Typed, [Next]_vars
    PROVE  \/ source' = source
           \/ \E k \in Tasks : Submit(k) /\ source' = [source EXCEPT ![k] = None]
           \/ \E k \in Tasks : SubmitCopy(k) /\ source' = [source EXCEPT ![k] = th[Api].task]
<1>1. ASSUME NEW w \in Workers, WorkerStep(w) PROVE source' = source
  BY <1>1, WorkerMoves DEF control
<1>2. ASSUME NEW t \in Threads, RunStep(t) PROVE source' = source
  BY <1>2, RunMoves DEF control
<1>3. CASE Request \/ RequestStep
  BY <1>3 DEF Request, RequestStep, Submit, ReadSource, SubmitCopy, CancelRunning, CancelUnknown,
     StartChat, Shutdown, RefuseCopy, Enqueue, MarkRunning, FlagCanceled, CloseDatabase, control
<1>4. CASE Restart \/ UNCHANGED vars
  BY <1>4 DEF Restart, vars
<1> QED BY <1>1, <1>2, <1>3, <1>4 DEF Next

LEMMA NextSources ==
    ASSUME Typed, OneOwner, SourcesRest, [Next]_vars
    PROVE  SourcesRest'
<1>1. /\ source \in [Tasks -> Tasks \cup {None}] /\ Api \in Threads /\ Api \notin Workers
      /\ th[Api].pc = "checked" => th[Api].task \in Tasks
  BY ThreadAssumption DEF Threads, Typed, TypeOK, ThreadRoles
<1>2. \A j \in Tasks : row[j].status # "absent" => row'[j].status # "absent"
  BY RowsStay
<1>3. \A j \in Tasks : ~Live(j) /\ row[j].status # "absent" => ~Live(j)'
  BY OnlyFreshWakes DEF Fresh
<1>4. th'[Api].pc = "checked" => row'[th'[Api].task].status # "absent"
  <2> SUFFICES ASSUME th'[Api].pc = "checked" PROVE row'[th'[Api].task].status # "absent"
    OBVIOUS
  <2>1. CASE th'[Api] = th[Api]
    BY <1>1, <1>2, <2>1 DEF SourcesRest
  <2>2. ASSUME NEW s \in Tasks, ReadSource(s), th'[Api].task = s
        PROVE  row'[th'[Api].task].status # "absent"
    BY <2>2 DEF ReadSource, Ended
  <2> QED BY <2>1, <2>2, OnlyReadSourceChecks
<1>5. ASSUME NEW k \in Tasks, source'[k] # None
      PROVE  row'[source'[k]].status # "absent" /\ ~Live(source[k])'
  <2>1. CASE source'[k] = source[k]
    <3>1. PICK s \in Tasks : s = source[k]
      BY <1>1, <1>5, <2>1
    <3>2. row[s].status # "absent" /\ ~Live(s)
      BY <1>5, <2>1, <3>1 DEF SourcesRest
    <3>3. row'[s].status # "absent" /\ ~Live(s)'
      BY <1>2, <1>3, <3>2
    <3> QED BY <2>1, <3>1, <3>3 DEF Live, Owns
  <2>2. CASE SubmitCopy(k) /\ source'[k] = th[Api].task
    <3>1. PICK s \in Tasks : s = th[Api].task
      BY <1>1, <2>2 DEF SubmitCopy
    <3>2. th[Api].pc = "checked" /\ s \notin registered /\ row[s].status # "absent"
      BY <2>2, <3>1 DEF SubmitCopy, SourcesRest
    <3>3. ASSUME NEW t \in Threads, Owns(t, s) PROVE FALSE
      <4>1. t \in Workers
        BY <3>2, <3>3 DEF Threads, Owns, RunPcs, LockPcs, NodePcs
      <4>2. th[t].pc # "idle" /\ th[t].task = s
        BY <3>3 DEF Owns, RunPcs, LockPcs, NodePcs
      <4> QED BY <3>2, <4>1, <4>2 DEF OneOwner, WorkerTasks
    <3>4. ~Live(s)
      BY <3>2, <3>3 DEF Live
    <3>5. row'[s].status # "absent" /\ ~Live(s)'
      BY <1>2, <1>3, <3>2, <3>4
    <3> QED BY <2>2, <3>1, <3>5 DEF Live, Owns
  <2>3. source'[k] = source[k] \/ (SubmitCopy(k) /\ source'[k] = th[Api].task)
    BY <1>1, <1>5, SourceIsSet
  <2> QED BY <2>1, <2>2, <2>3
<1> QED BY <1>4, <1>5 DEF SourcesRest

\* A task and the retry made from it are never both alive, although retry_task reads the
\* row before it takes the runner's lock: the source of a copy has a row and no owner, and
\* a task with a row never gets an owner again.
THEOREM RetriesFollowTheirSource == Spec => []NoRetryOfLiveTask
<1>1. Init => SourcesRest
  BY DEF Init, SourcesRest, IdleThread, Threads
<1>2. Typed /\ OneOwner /\ SourcesRest /\ [Next]_vars => SourcesRest'
  BY NextSources
<1>3. Typed /\ SourcesRest => NoRetryOfLiveTask
  BY DEF SourcesRest, NoRetryOfLiveTask
<1> QED BY <1>1, <1>2, <1>3, SpecTyped, TasksHaveOneOwner, PTL DEF Spec
-----------------------------------------------------------------------------
(* The published request.                                                   *)

\* A thread's step inside chat_async, between publishing and retracting.
LEMMA StaysInside ==
    ASSUME Typed, NEW t \in Threads, RunStep(t), ~Publish(t), ~Retract(t)
    PROVE  /\ th[t].pc \in PublishedPcs /\ UNCHANGED <<signalled, published, met>>
           /\ \E r : Become(t, r) /\ r.pc \in PublishedPcs /\ r.task = th[t].task
<1>1. th[t] \in ThreadState
  BY DEF Typed, TypeOK
<1>2. LockPcs \cup {"lock", "plan", "unlock", "retract"} \subseteq PublishedPcs
  BY DEF PublishedPcs, LockPcs, NodePcs
<1>3. CASE GraphStep(t)
  BY <1>2, <1>3, GraphMoves DEF graph
<1>4. ASSUME NEW pc \in {"plan", "unlock", "retract"},
             \/ Become(t, [th[t] EXCEPT !.pc = pc])
             \/ Become(t, [th[t] EXCEPT !.pc = pc, !.raised = TRUE])
      PROVE  \E r : Become(t, r) /\ r.pc \in PublishedPcs /\ r.task = th[t].task
  <2>1. /\ [th[t] EXCEPT !.pc = pc].pc = pc
        /\ [th[t] EXCEPT !.pc = pc].task = th[t].task
        /\ [th[t] EXCEPT !.pc = pc, !.raised = TRUE].pc = pc
        /\ [th[t] EXCEPT !.pc = pc, !.raised = TRUE].task = th[t].task
    BY <1>1 DEF ThreadState
  <2> QED BY <1>2, <1>4, <2>1
<1>5. CASE Acquire(t)
  BY <1>2, <1>4, <1>5 DEF Acquire, Goto
<1>6. CASE AnswerDirectly(t) \/ Release(t)
  <2>1. th[t].pc \in {"plan", "unlock"} /\ \E pc \in {"unlock", "retract"} : Goto(t, pc)
    BY <1>6 DEF AnswerDirectly, Release
  <2> QED BY <1>2, <1>4, <1>6, <2>1 DEF AnswerDirectly, Release, Goto, control
<1>7. CASE Raise(t)
  <2>1. th[t].pc \in NodePcs /\ NodePcs \subseteq LockPcs
    BY <1>7 DEF Raise, NodePcs, LockPcs
  <2> QED BY <1>2, <1>4, <1>7, <2>1 DEF Raise
<1> QED BY <1>3, <1>5, <1>6, <1>7 DEF RunStep

\* Its first step there, and its last.
LEMMA GoesInside ==
    ASSUME Typed, NEW t \in Threads, Publish(t)
    PROVE  /\ t \notin Inside /\ Inside' = Inside \cup {t}
           /\ \A u \in Threads : /\ th'[u].task = th[u].task
                                 /\ u # t => th'[u] = th[u]
<1> DEFINE r == [th[t] EXCEPT !.pc = "lock"]
<1>1. r.pc = "lock" /\ r.task = th[t].task
  BY DEF Typed, TypeOK, ThreadState
<1>2. th' = [th EXCEPT ![t] = r] /\ th[t].pc = "publish"
  BY DEF Publish, Goto, Become
<1> HIDE DEF r
<1>3. th'[t] = r /\ \A u \in Threads : u # t => th'[u] = th[u]
  BY <1>2 DEF Typed, TypeOK
<1> QED BY <1>1, <1>2, <1>3 DEF Inside, PublishedPcs, LockPcs, NodePcs

LEMMA GoesOut ==
    ASSUME Typed, NEW t \in Threads, Retract(t)
    PROVE  /\ t \in Inside /\ Inside' = Inside \ {t} /\ published' = None
           /\ met' = [met EXCEPT ![t] = {}]
           /\ \A u \in Threads : u # t => th'[u] = th[u]
           /\ th'[t].pc \in {"idle", "settle"} /\ Keeps(th'[t], th[t])
           /\ th'[t].pc = "idle" => th'[t] = IdleThread
<1>1. th[t].pc = "retract" /\ published' = None /\ met' = [met EXCEPT ![t] = {}]
  BY DEF Retract
<1>2. PICK r : Become(t, r) /\ r.pc \in {"idle", "settle"} /\ Keeps(r, th[t])
               /\ (r.pc = "idle" => r = IdleThread)
  <2>1. CASE t = Api
    BY <2>1 DEF Retract, Rest, IdleThread, Keeps
  <2>2. CASE t # Api
    <3> DEFINE r == [th[t] EXCEPT !.pc = "settle"]
    <3>1. r.pc = "settle" /\ Keeps(r, th[t])
      BY DEF Typed, TypeOK, ThreadState, Keeps
    <3>2. Become(t, r)
      BY <2>2 DEF Retract, Goto
    <3> QED BY <3>1, <3>2
  <2> QED BY <2>1, <2>2
<1>3. th'[t] = r /\ \A u \in Threads : u # t => th'[u] = th[u]
  BY <1>2 DEF Become, Typed, TypeOK
<1> QED BY <1>1, <1>2, <1>3 DEF Inside, PublishedPcs, LockPcs, NodePcs

\* What is published is the request of some thread inside chat_async, two such threads
\* know of each other, and one that is alone reads its own request.
Overlaps ==
    /\ published = None \/ \E u \in Inside : th[u].task = published
    /\ \A t \in Inside : /\ \A u \in Inside : u # t => th[u].task \in met[t]
                         /\ met[t] = {} => published = th[t].task

\* A step by which nobody comes inside or goes out.
LEMMA SameInside ==
    ASSUME Typed, Overlaps, NEW t \in Threads, NEW r, Become(t, r),
           published' = published, met' = met,
           th[t].pc \in PublishedPcs <=> r.pc \in PublishedPcs,
           r.pc \in PublishedPcs => r.task = th[t].task
    PROVE  Overlaps'
<1>1. th'[t] = r /\ \A u \in Threads : u # t => th'[u] = th[u]
  BY DEF Become, Typed, TypeOK
<1>2. Inside' = Inside /\ Inside \subseteq Threads /\ \A u \in Inside : th'[u].task = th[u].task
  BY <1>1 DEF Inside
<1> QED BY <1>2 DEF Overlaps

LEMMA NextOverlaps == Typed /\ Overlaps /\ [Next]_vars => Overlaps'
<1> SUFFICES ASSUME Typed, Overlaps, [Next]_vars PROVE Overlaps'
  OBVIOUS
<1>1. ASSUME NEW t \in Threads, Publish(t) PROVE Overlaps'
  <2>1. /\ t \notin Inside /\ Inside' = Inside \cup {t} /\ published' = th[t].task
        /\ \A u \in Threads : th'[u].task = th[u].task
        /\ Inside \subseteq Threads
    BY <1>1, GoesInside DEF Publish, Inside
  <2>2. /\ met'[t] = {th[v].task : v \in Inside}
        /\ \A u \in Inside : met'[u] = met[u] \cup {th[t].task}
    BY <1>1, <2>1, PublishMeets
  <2>3. published' = None \/ \E u \in Inside' : th'[u].task = published'
    BY <2>1
  <2>4. ASSUME NEW v \in Inside', NEW u \in Inside', u # v PROVE th'[u].task \in met'[v]
    BY <2>1, <2>2, <2>4 DEF Overlaps
  <2>5. ASSUME NEW v \in Inside', met'[v] = {} PROVE published' = th'[v].task
    BY <2>1, <2>2, <2>5
  <2> QED BY <2>3, <2>4, <2>5 DEF Overlaps
<1>2. ASSUME NEW t \in Threads, Retract(t) PROVE Overlaps'
  <2>1. /\ t \in Inside /\ Inside' = Inside \ {t} /\ published' = None
        /\ met' = [met EXCEPT ![t] = {}]
        /\ \A u \in Threads : u # t => th'[u] = th[u]
        /\ Inside \subseteq Threads
    BY <1>2, GoesOut DEF Inside
  <2>2. \A v \in Inside' : met'[v] = met[v] /\ th'[v] = th[v] /\ th[t].task \in met[v]
    BY <2>1 DEF Overlaps, Typed, TypeOK
  <2> QED BY <2>1, <2>2 DEF Overlaps
<1>3. ASSUME NEW t \in Threads, RunStep(t), ~Publish(t), ~Retract(t) PROVE Overlaps'
  BY <1>3, StaysInside, SameInside
<1>4. ASSUME NEW w \in Workers, WorkerStep(w) PROVE Overlaps'
  <2>1. PICK r : Become(w, r) /\ r.pc \in {"idle", "clear", "publish", "finish", "pop"}
    BY <1>4, WorkerMoves
  <2>2. th[w].pc \notin PublishedPcs /\ r.pc \notin PublishedPcs
    BY <1>4, <2>1, WorkerMoves DEF PublishedPcs, LockPcs, NodePcs
  <2> QED BY <1>4, <2>1, <2>2, WorkerMoves, SameInside
<1>5. CASE Request \/ RequestStep
  <2>1. CASE th' = th
    BY <1>5, <2>1, RequestMoves DEF Overlaps, Inside
  <2>2. CASE th' # th
    <3>1. PICK r : Become(Api, r) /\ r.pc \in {"idle", "publish"} \cup RequestPcs
      BY <1>5, <2>2, RequestMoves
    <3>2. th[Api].pc \notin PublishedPcs /\ r.pc \notin PublishedPcs
      BY <1>5, <3>1, RequestMoves DEF PublishedPcs, LockPcs, NodePcs, RequestPcs
    <3> QED BY <1>5, <3>1, <3>2, RequestMoves, SameInside
  <2> QED BY <2>1, <2>2
<1>6. CASE Restart
  <2>1. published' = None /\ \A u \in Threads : th'[u].pc = "idle"
    BY <1>6 DEF Restart, IdleThread
  <2>2. Inside' = {}
    BY <2>1 DEF Inside, PublishedPcs, LockPcs, NodePcs
  <2> QED BY <2>1, <2>2 DEF Overlaps
<1>7. CASE UNCHANGED vars
  BY <1>7 DEF vars, Overlaps, Inside
<1> QED BY <1>1, <1>2, <1>3, <1>4, <1>5, <1>6, <1>7 DEF Next

LEMMA SpecOverlaps == Spec => []Overlaps
<1>1. Init => Overlaps
  BY DEF Init, Overlaps, Inside, IdleThread, PublishedPcs, LockPcs, NodePcs
<1> QED BY <1>1, NextOverlaps, SpecTyped, PTL DEF Spec

\* The request fields and the cancel event that a run's tools and executor read are its own
\* unless a request overlapped it, and never those of a request that is over: for any number
\* of workers and of chats beside them, and whatever is canceled, lost or restarted.
THEOREM ContextsAreOwn == Spec => []ContextIsOwn
<1>1. Typed /\ OneGraphRun /\ Overlaps => ContextIsOwn
  <2> SUFFICES ASSUME Typed, OneGraphRun, Overlaps,
                      NEW t \in Threads, th[t].pc \in LockPcs, published # th[t].task
               PROVE  /\ met[t] # {}
                      /\ published # None => \E u \in Threads : /\ th[u].pc \in {"lock", "retract"}
                                                                /\ th[u].task = published
    BY DEF ContextIsOwn
  <2>1. t \in Inside /\ met[t] # {}
    BY DEF Inside, PublishedPcs, Overlaps
  <2>2. ASSUME published # None
        PROVE  \E u \in Threads : th[u].pc \in {"lock", "retract"} /\ th[u].task = published
    <3>1. PICK u \in Inside : th[u].task = published
      BY <2>2 DEF Overlaps
    <3>2. u \in Threads /\ u # t /\ th[u].pc \in PublishedPcs
      BY <3>1 DEF Inside
    <3>3. held = t /\ th[u].pc \notin LockPcs
      BY <3>2 DEF OneGraphRun
    <3> QED BY <3>1, <3>2, <3>3 DEF PublishedPcs
  <2> QED BY <2>1, <2>2
<1> QED BY <1>1, SpecTyped, RunsAreSerial, SpecOverlaps, PTL

-----------------------------------------------------------------------------
(* Cancellation.                                                            *)

\* The events that a run of t may come to read.
Events(t) == {None, th[t].task} \cup met[t]

\* What a thread believes of its task's cancellation, and the event its tool was given.
Caused(r, t) ==
    /\ r.cancel \/ r.status = "canceled" => Asked(t)
    /\ r.pc = "tool" => r.seen \in Events(t)

\* The thread that a step of a graph run leaves, and the row that it writes.
CanceledForCause(t) ==
    /\ Caused(th'[t], t) /\ th'[t].task = th[t].task
    /\ row'[th[t].task].status = "canceled" =>
          row[th[t].task].status = "canceled" \/ Asked(t)

\* A save of a status.
LEMMA SavedStatus ==
    ASSUME Typed, NEW k \in Tasks, NEW s, NEW c, SaveTask(k, s, c)
    PROVE  row'[k].status \in {row[k].status, s}
<1>1. row' = [row EXCEPT ![k] = [status |-> s, cancel |-> c]] \/ row' = row
  BY DEF SaveTask, Persist
<1>2. [row EXCEPT ![k] = [status |-> s, cancel |-> c]][k].status = s
  BY DEF Typed, TypeOK
<1> QED BY <1>1, <1>2

LEMMA GraphIsCaused ==
    ASSUME Typed, NEW t \in Threads, GraphStep(t), published \in Events(t), Caused(th[t], t)
    PROVE  CanceledForCause(t)
<1> DEFINE k == th[t].task
<1>1. /\ th[t] \in ThreadState /\ k \in Tasks /\ k # None
      /\ th[t].cancel \in BOOLEAN
      /\ \A r : Become(t, r) => th'[t] = r
  BY GraphMoves, TaskAssumption DEF Typed, TypeOK, Become, ThreadState
<1>2. /\ th[t].cancel => Asked(t)
      /\ th[t].status = "canceled" => Asked(t)
      /\ th[t].pc = "tool" => (Signalled(th[t].seen) => Asked(t))
      /\ Signalled(published) => Asked(t)
  BY <1>1 DEF Caused, Signalled, Events, Asked
<1>3. WhenDone(t) \in {"plan", "solve"}
  BY DEF WhenDone
\* What a node leaves of the thread, and what it saves.
<1>4. ASSUME NEW r, th'[t] = r, r.task = k, r.cancel => Asked(t),
             r.status = "canceled" => Asked(t),
             r.pc = "tool" => r.seen \in Events(t),
             NEW s, s = "canceled" => Asked(t), row'[k].status \in {row[k].status, s}
      PROVE  CanceledForCause(t)
  BY <1>1, <1>4 DEF CanceledForCause, Caused
<1>5. ASSUME NEW p \in ThreadState, Advance(t, p), p.task = k
      PROVE  \E r : /\ th'[t] = r /\ r.task = k /\ r.pc = p.pc /\ r.status = p.status
                    /\ r.cancel = p.cancel
  <2> DEFINE r == [p EXCEPT !.fuel = @ - 1]
  <2>1. th'[t] = r
    BY <1>1, <1>5 DEF Advance
  <2>2. r.task = k /\ r.pc = p.pc /\ r.status = p.status /\ r.cancel = p.cancel
    BY <1>5 DEF ThreadState
  <2> QED BY <2>1, <2>2
<1>6. {"plan", "decide", "step", "solve", "review", "begin", "tool", "unlock"} \subseteq RunPcs
  BY DEF RunPcs, LockPcs, NodePcs
<1>7. /\ row' = row => row'[k].status \in {row[k].status, "running"}
      /\ \A s, c : SaveTask(k, s, c) => row'[k].status \in {row[k].status, s}
  BY <1>1, SavedStatus
\* Nodes that advance: the thread before the superstep is spent.
<1>8. ASSUME NEW p \in ThreadState, Advance(t, p), p.task = k, p.pc # "tool",
             p.cancel => Asked(t), p.status = "canceled" => Asked(t),
             NEW s, s = "canceled" => Asked(t), row'[k].status \in {row[k].status, s}
      PROVE  CanceledForCause(t)
  BY <1>4, <1>5, <1>8
<1>10. CASE Plan(t)
  <2> DEFINE p == [th[t] EXCEPT !.pc = "decide", !.status = "running",
                                !.pending = "none", !.cancel = FALSE, !.replan = FALSE]
  <2>1. p \in ThreadState
    BY <1>1, <1>6 DEF ThreadState
  <2>2. p.task = k /\ p.pc = "decide" /\ p.cancel = FALSE /\ p.status = "running"
    BY <1>1 DEF ThreadState
  <2>3. Advance(t, p) /\ SaveTask(k, "running", FALSE)
    BY <1>10 DEF Plan
  <2> HIDE DEF p
  <2> QED BY <1>7, <1>8, <2>1, <2>2, <2>3
<1>11. CASE PlanFails(t)
  <2> DEFINE p == [th[t] EXCEPT !.pc = "decide", !.error = TRUE]
  <2>1. p \in ThreadState
    BY <1>1, <1>6 DEF ThreadState
  <2>2. p.task = k /\ p.pc = "decide" /\ p.cancel = th[t].cancel /\ p.status = th[t].status
    BY <1>1 DEF ThreadState
  <2>3. Advance(t, p) /\ row' = row
    BY <1>11 DEF PlanFails
  <2> HIDE DEF p
  <2> QED BY <1>2, <1>7, <1>8, <2>1, <2>2, <2>3
<1>12. CASE Decide(t)
  <2> DEFINE p == [th[t] EXCEPT !.pc = "step"]
  <2>1. p \in ThreadState
    BY <1>1, <1>6 DEF ThreadState
  <2>2. p.task = k /\ p.pc = "step" /\ p.cancel = th[t].cancel /\ p.status = th[t].status
    BY <1>1 DEF ThreadState
  <2>3. Advance(t, p) /\ SaveTask(k, th[t].status, th[t].cancel)
    BY <1>12 DEF Decide
  <2> HIDE DEF p
  <2> QED BY <1>2, <1>7, <1>8, <2>1, <2>2, <2>3
<1>13. CASE NoStep(t)
  <2> DEFINE p == [th[t] EXCEPT !.pc = WhenDone(t)]
  <2>1. p \in ThreadState
    BY <1>1, <1>3, <1>6 DEF ThreadState
  <2>2. p.task = k /\ p.pc = WhenDone(t) /\ p.cancel = th[t].cancel /\ p.status = th[t].status
    BY <1>1 DEF ThreadState
  <2>3. Advance(t, p) /\ row' = row
    BY <1>13 DEF NoStep
  <2> HIDE DEF p
  <2> QED BY <1>2, <1>3, <1>7, <1>8, <2>1, <2>2, <2>3
<1>14. CASE StepCanceled(t)
  <2> DEFINE p == [th[t] EXCEPT !.pc = WhenDone(t), !.status = "canceled", !.cancel = TRUE]
  <2>1. p \in ThreadState
    BY <1>1, <1>3, <1>6 DEF ThreadState
  <2>2. p.task = k /\ p.pc = WhenDone(t)
    BY <1>1 DEF ThreadState
  <2>3. Advance(t, p) /\ SaveTask(k, "canceled", TRUE) /\ Asked(t)
    BY <1>2, <1>14 DEF StepCanceled
  <2> HIDE DEF p
  <2> QED BY <1>3, <1>7, <1>8, <2>1, <2>2, <2>3
<1>15. CASE StepNotCanceled(t)
  <2> DEFINE p == [th[t] EXCEPT !.pc = "begin"]
  <2>1. p \in ThreadState
    BY <1>1, <1>6 DEF ThreadState
  <2>2. p.task = k /\ p.pc = "begin" /\ p.cancel = th[t].cancel /\ p.status = th[t].status
    BY <1>1 DEF ThreadState
  <2>3. Advance(t, p) /\ row' = row
    BY <1>15 DEF StepNotCanceled
  <2> HIDE DEF p
  <2> QED BY <1>2, <1>7, <1>8, <2>1, <2>2, <2>3
<1>16. CASE SolveError(t)
  <2> DEFINE p == [th[t] EXCEPT !.pc = "review", !.status = "failed"]
  <2>1. p \in ThreadState
    BY <1>1, <1>6 DEF ThreadState
  <2>2. p.task = k /\ p.pc = "review" /\ p.cancel = th[t].cancel /\ p.status = "failed"
    BY <1>1 DEF ThreadState
  <2>3. Advance(t, p) /\ SaveTask(k, "failed", th[t].cancel)
    BY <1>16 DEF SolveError
  <2> HIDE DEF p
  <2> QED BY <1>2, <1>7, <1>8, <2>1, <2>2, <2>3
<1>17. CASE SolveCanceled(t)
  <2> DEFINE p == [th[t] EXCEPT !.pc = "review", !.status = "canceled"]
  <2>1. p \in ThreadState
    BY <1>1, <1>6 DEF ThreadState
  <2>2. p.task = k /\ p.pc = "review"
    BY <1>1 DEF ThreadState
  <2>3. Advance(t, p) /\ SaveTask(k, "canceled", TRUE) /\ Asked(t)
    BY <1>2, <1>17 DEF SolveCanceled
  <2> HIDE DEF p
  <2> QED BY <1>7, <1>8, <2>1, <2>2, <2>3
<1>18. CASE Solve(t)
  <2>1. PICK d \in {"success", "partial"} :
          Advance(t, [th[t] EXCEPT !.pc = "review", !.status = "running", !.pending = d])
    BY <1>18 DEF Solve
  <2> DEFINE p == [th[t] EXCEPT !.pc = "review", !.status = "running", !.pending = d]
  <2>2. p \in ThreadState
    BY <1>1, <1>6 DEF ThreadState
  <2>3. p.task = k /\ p.pc = "review" /\ p.cancel = th[t].cancel /\ p.status = "running"
    BY <1>1 DEF ThreadState
  <2>4. SaveTask(k, "running", FALSE)
    BY <1>18 DEF Solve
  <2>5. Advance(t, p)
    BY <2>1
  <2> HIDE DEF p
  <2> QED BY <1>2, <1>7, <1>8, <2>2, <2>3, <2>4, <2>5
<1>19. CASE ReviewEnds(t)
  <2> DEFINE p == [th[t] EXCEPT !.pc = "unlock"]
             s == IF th[t].pending # "none" THEN th[t].pending ELSE th[t].status
  <2>1. p \in ThreadState
    BY <1>1, <1>6 DEF ThreadState
  <2>2. p.task = k /\ p.pc = "unlock" /\ p.cancel = th[t].cancel /\ p.status = th[t].status
    BY <1>1 DEF ThreadState
  <2>3. Advance(t, p) /\ SaveTask(k, s, th[t].cancel)
    BY <1>19 DEF ReviewEnds
  <2>4. s = "canceled" => Asked(t)
    BY <1>1, <1>2 DEF ThreadState
  <2> HIDE DEF p, s
  <2> QED BY <1>2, <1>7, <1>8, <2>1, <2>2, <2>3, <2>4
<1>20. CASE ReviewFails(t)
  <2> DEFINE p == [th[t] EXCEPT !.pc = "plan", !.replan = TRUE]
  <2>1. p \in ThreadState
    BY <1>1, <1>6 DEF ThreadState
  <2>2. p.task = k /\ p.pc = "plan" /\ p.cancel = th[t].cancel /\ p.status = th[t].status
    BY <1>1 DEF ThreadState
  <2>3. Advance(t, p) /\ row' = row
    BY <1>20 DEF ReviewFails
  <2> HIDE DEF p
  <2> QED BY <1>2, <1>7, <1>8, <2>1, <2>2, <2>3
\* Steps inside a superstep.
<1>21. CASE BeginTool(t)
  <2> DEFINE r == [th[t] EXCEPT !.pc = "tool", !.seen = published]
  <2>1. th'[t] = r /\ row' = row
    BY <1>1, <1>21 DEF BeginTool
  <2>2. r.task = k /\ r.seen = published /\ r.cancel = th[t].cancel /\ r.status = th[t].status
    BY <1>1 DEF ThreadState
  <2> HIDE DEF r
  <2> QED BY <1>2, <1>4, <1>7, <2>1, <2>2
<1>22. CASE SkipTool(t)
  <2> DEFINE r == [th[t] EXCEPT !.pc = "plan", !.cancel = TRUE, !.replan = TRUE]
  <2>1. th'[t] = r /\ SaveTask(k, th[t].status, TRUE) /\ Asked(t)
    BY <1>1, <1>2, <1>22 DEF SkipTool
  <2>2. r.task = k /\ r.pc = "plan"
    BY <1>1 DEF ThreadState
  <2> HIDE DEF r
  <2> QED BY <1>2, <1>4, <1>7, <2>1, <2>2
<1>23. CASE RepeatStep(t)
  <2>1. PICK c \in {th[t].cancel, th[t].cancel \/ Signalled(th[t].seen)}, pc \in {"step", "plan"} :
          /\ SaveTask(k, th[t].status, c)
          /\ Become(t, [th[t] EXCEPT !.pc = pc, !.seen = None, !.cancel = c,
                                     !.replan = (pc = "plan")])
    BY <1>23 DEF RepeatStep
  <2>2. c => Asked(t)
    BY <1>1, <1>2, <1>23, <2>1 DEF RepeatStep
  <2> DEFINE r == [th[t] EXCEPT !.pc = pc, !.seen = None, !.cancel = c, !.replan = (pc = "plan")]
  <2>3. th'[t] = r
    BY <1>1, <2>1
  <2>4. r.task = k /\ r.pc # "tool" /\ r.status = th[t].status
    BY <1>1, <2>1 DEF ThreadState
  <2>5. r.cancel = c
    BY <1>1 DEF ThreadState
  <2> HIDE DEF r
  <2>6. r.cancel => Asked(t)
    BY <2>2, <2>5, Zenon
  <2>7. row'[k].status \in {row[k].status, th[t].status}
    BY <1>7, <2>1
  <2> QED BY <1>2, <1>4, <2>3, <2>4, <2>6, <2>7
<1>24. CASE FinishStep(t)
  <2>1. PICK pc \in {"step", "solve"} :
          Become(t, [th[t] EXCEPT !.pc = pc, !.seen = None, !.replan = FALSE])
    BY <1>24 DEF FinishStep
  <2> DEFINE r == [th[t] EXCEPT !.pc = pc, !.seen = None, !.replan = FALSE]
  <2>2. th'[t] = r /\ SaveTask(k, th[t].status, FALSE)
    BY <1>1, <1>24, <2>1 DEF FinishStep
  <2>3. r.task = k /\ r.pc # "tool" /\ r.cancel = th[t].cancel /\ r.status = th[t].status
    BY <1>1, <2>1 DEF ThreadState
  <2> HIDE DEF r
  <2> QED BY <1>2, <1>4, <1>7, <2>2, <2>3
<1>25. CASE FinishCanceled(t)
  <2> DEFINE r == [th[t] EXCEPT !.pc = WhenDone(t), !.seen = None,
                                !.status = "canceled", !.cancel = TRUE]
  <2>1. th'[t] = r /\ SaveTask(k, "canceled", TRUE)
    BY <1>1, <1>25 DEF FinishCanceled
  <2>2. Asked(t)
    BY <1>1, <1>2, <1>25 DEF FinishCanceled
  <2>3. r.task = k /\ r.pc # "tool"
    BY <1>1, <1>3 DEF ThreadState
  <2> HIDE DEF r
  <2> QED BY <1>4, <1>7, <2>1, <2>2, <2>3
<1> QED BY <1>10, <1>11, <1>12, <1>13, <1>14, <1>15, <1>16, <1>17, <1>18, <1>19, <1>20, <1>21,
           <1>22, <1>23, <1>24, <1>25 DEF GraphStep

\* Inside the lock a run reads one of its events.
LEMMA GraphReads ==
    ASSUME Typed, Overlaps, NEW t \in Threads, GraphStep(t)
    PROVE  published \in Events(t)
<1>1. t \in Inside
  BY GraphMoves DEF Inside, PublishedPcs
<1> QED BY <1>1 DEF Overlaps, Events

LEMMA InsideNow ==
    ASSUME Typed, NEW t \in Threads, Acquire(t) \/ AnswerDirectly(t) \/ Release(t) \/ Raise(t)
    PROVE  th[t].pc \in PublishedPcs /\ UNCHANGED <<signalled, published, met>>
<1>1. th[t].pc \in NodePcs \cup {"lock", "unlock"}
  BY DEF Acquire, AnswerDirectly, Release, Raise, NodePcs
<1>2. UNCHANGED <<signalled, published, met>>
  BY DEF Acquire, AnswerDirectly, Release, Raise
<1> QED BY <1>1, <1>2 DEF PublishedPcs, LockPcs

\* A thread inside chat_async has a cause for its belief, and one that has not come inside
\* yet believes in no cancellation.
BeforePcs == {"idle", "clear", "publish"} \cup RequestPcs

Causes ==
    \A t \in Threads : /\ th[t].pc \in PublishedPcs => Caused(th[t], t)
                       /\ th[t].pc \in BeforePcs => ~th[t].cancel /\ th[t].status # "canceled"

\* A cause is not forgotten while the thread's task, and whom it has met, are kept.
LEMMA CauseStays ==
    ASSUME NEW t \in Threads, NEW r, Caused(r, t), th'[t] = r, r.task = th[t].task,
           met[t] \subseteq met'[t], signalled \subseteq signalled'
    PROVE  Caused(th[t], t)'
<1>1. Asked(t) => Asked(t)'
  BY DEF Asked
<1>2. Events(t) \subseteq Events(t)'
  BY DEF Events
<1>3. /\ r.cancel \/ r.status = "canceled" => Asked(t)'
      /\ r.pc = "tool" => r.seen \in Events(t)'
  BY <1>1, <1>2 DEF Caused
<1> QED BY <1>3 DEF Caused

LEMMA NextCauses ==
    ASSUME Typed, Overlaps, Causes, [Next]_vars
    PROVE  Causes'
<1>1. /\ Api \in Threads /\ Workers \subseteq Threads
      /\ \A t \in Threads : th[t] \in ThreadState
      /\ \A t \in Threads : \A r : Become(t, r) =>
            th'[t] = r /\ \A u \in Threads : u # t => th'[u] = th[u]
      /\ BeforePcs \cap PublishedPcs = {}
  BY DEF Threads, Become, Typed, TypeOK, BeforePcs, PublishedPcs, LockPcs, NodePcs, RequestPcs
<1>2. ASSUME NEW u \in Threads, th'[u] = th[u], met[u] \subseteq met'[u],
             signalled \subseteq signalled'
      PROVE  /\ th'[u].pc \in PublishedPcs => Caused(th[u], u)'
             /\ th'[u].pc \in BeforePcs => ~th'[u].cancel /\ th'[u].status # "canceled"
  <2>1. th[u].pc \in PublishedPcs => Caused(th[u], u)'
    BY <1>2, CauseStays DEF Causes
  <2> QED BY <1>2, <2>1 DEF Causes
\* One thread's step, seen by all.
<1>3. ASSUME NEW t \in Threads, \A u \in Threads : u # t => th'[u] = th[u],
             \A u \in Threads : u # t => met[u] \subseteq met'[u], signalled \subseteq signalled',
             th'[t].pc \in PublishedPcs => Caused(th[t], t)',
             th'[t].pc \in BeforePcs => ~th'[t].cancel /\ th'[t].status # "canceled"
      PROVE  Causes'
  <2>1. \A u \in Threads : u # t =>
           /\ th'[u].pc \in PublishedPcs => Caused(th[u], u)'
           /\ th'[u].pc \in BeforePcs => ~th'[u].cancel /\ th'[u].status # "canceled"
    BY <1>2, <1>3
  <2> QED BY <1>3, <2>1 DEF Causes
<1>4. CASE Request \/ RequestStep
  <2>1. met' = met /\ signalled \subseteq signalled' /\ th[Api].pc \in BeforePcs
    BY <1>4, RequestMoves DEF BeforePcs
  <2>2. CASE th' = th
    BY <1>1, <1>3, <2>1, <2>2, <1>2
  <2>3. CASE th' # th
    <3>1. PICK r : /\ Become(Api, r) /\ Keeps(r, th[Api])
                   /\ r.pc \in {"idle", "publish"} \cup RequestPcs
      BY <1>4, <2>3, RequestMoves
    <3>2. th'[Api] = r /\ r.pc \in BeforePcs /\ \A u \in Threads : u # Api => th'[u] = th[u]
      BY <1>1, <3>1 DEF BeforePcs
    <3>3. ~r.cancel /\ r.status # "canceled"
      BY <1>1, <2>1, <3>1 DEF Causes, Keeps
    <3> QED BY <1>1, <1>3, <2>1, <3>2, <3>3
  <2> QED BY <2>2, <2>3
<1>5. ASSUME NEW w \in Workers, WorkerStep(w) PROVE Causes'
  <2>1. signalled' = signalled /\ met' = met /\ w \in Threads
    BY <1>5, WorkerMoves
  <2>2. PICK r : /\ Become(w, r) /\ r.pc \notin PublishedPcs
                 /\ r.pc \in BeforePcs => ~r.cancel /\ r.status # "canceled"
    <3>1. CASE Take(w)
      <4> DEFINE r == [th[w] EXCEPT !.pc = "clear", !.task = Head(queue)]
      <4>1. Become(w, r) /\ th[w].pc \in BeforePcs
        BY <3>1 DEF Take, BeforePcs
      <4>2. r.pc = "clear" /\ r.cancel = th[w].cancel /\ r.status = th[w].status
        BY <1>1, <2>1 DEF ThreadState
      <4> HIDE DEF r
      <4>3. ~r.cancel /\ r.status # "canceled"
        BY <2>1, <4>1, <4>2 DEF Causes
      <4> QED BY <4>1, <4>2, <4>3 DEF PublishedPcs, LockPcs, NodePcs
    <3>2. CASE ClearFlag(w)
      <4> DEFINE r == [th[w] EXCEPT !.pc = "publish"]
      <4>1. Become(w, r) /\ th[w].pc \in BeforePcs
        BY <3>2 DEF ClearFlag, Goto, BeforePcs
      <4>2. r.pc = "publish" /\ r.cancel = th[w].cancel /\ r.status = th[w].status
        BY <1>1, <2>1 DEF ThreadState
      <4> HIDE DEF r
      <4>3. ~r.cancel /\ r.status # "canceled"
        BY <2>1, <4>1, <4>2 DEF Causes
      <4> QED BY <4>1, <4>2, <4>3 DEF PublishedPcs, LockPcs, NodePcs
    <3>3. CASE Settle(w) \/ Finish(w)
      <4>1. PICK pc \in {"finish", "pop"} : Become(w, [th[w] EXCEPT !.pc = pc])
        BY <2>1, <3>3, SettleMoves DEF Finish, Goto
      <4>2. [th[w] EXCEPT !.pc = pc].pc = pc
        BY <1>1, <2>1 DEF ThreadState
      <4> QED BY <4>1, <4>2 DEF PublishedPcs, BeforePcs, LockPcs, NodePcs, RequestPcs
    <3>4. CASE Pop(w)
      BY <3>4 DEF Pop, Rest, IdleThread, PublishedPcs, LockPcs, NodePcs
    <3> QED BY <1>5, <3>1, <3>2, <3>3, <3>4 DEF WorkerStep
  <2>3. th'[w] = r /\ \A u \in Threads : u # w => th'[u] = th[u]
    BY <1>1, <2>1, <2>2
  <2> QED BY <1>3, <2>1, <2>2, <2>3
<1>6. ASSUME NEW t \in Threads, Publish(t) PROVE Causes'
  <2>1. /\ signalled' = signalled /\ th[t].pc = "publish"
        /\ \A u \in Threads : u # t => th'[u] = th[u] /\ met[u] \subseteq met'[u]
    BY <1>6, GoesInside, PublishMeets DEF Publish
  <2> DEFINE r == [th[t] EXCEPT !.pc = "lock"]
  <2>2. r.pc = "lock" /\ r.cancel = th[t].cancel /\ r.status = th[t].status
    BY <1>1 DEF ThreadState
  <2>3. th'[t] = r
    BY <1>1, <1>6 DEF Publish, Goto
  <2> HIDE DEF r
  <2>4. ~r.cancel /\ r.status # "canceled"
    BY <2>1, <2>2 DEF Causes, BeforePcs
  <2>5. Caused(th[t], t)' /\ r.pc \notin BeforePcs
    BY <2>2, <2>3, <2>4 DEF Caused, BeforePcs, RequestPcs
  <2> QED BY <1>3, <2>1, <2>3, <2>5
<1>7. ASSUME NEW t \in Threads, Retract(t) PROVE Causes'
  <2>1. /\ signalled' = signalled /\ th'[t].pc \in {"idle", "settle"}
        /\ th'[t].pc = "idle" => th'[t] = IdleThread
        /\ \A u \in Threads : u # t => th'[u] = th[u] /\ met'[u] = met[u]
    BY <1>7, GoesOut DEF Retract, Typed, TypeOK
  <2>2. th'[t].pc \notin PublishedPcs
    BY <2>1 DEF PublishedPcs, LockPcs, NodePcs
  <2>3. th'[t].pc \in BeforePcs => ~th'[t].cancel /\ th'[t].status # "canceled"
    BY <2>1 DEF BeforePcs, RequestPcs, IdleThread
  <2> QED BY <1>3, <2>1, <2>2, <2>3
<1>8. ASSUME NEW t \in Threads, GraphStep(t) PROVE Causes'
  <2>1. PICK r : /\ Become(t, r) /\ r.pc \in LockPcs /\ r.task = th[t].task
    BY <1>8, GraphMoves
  <2>2. /\ UNCHANGED <<signalled, published, met>> /\ th[t].pc \in PublishedPcs
        /\ th'[t] = r /\ \A u \in Threads : u # t => th'[u] = th[u]
    BY <1>1, <1>8, <2>1, GraphMoves DEF graph, PublishedPcs
  <2>3. Caused(r, t)
    BY <1>8, <2>2, GraphReads, GraphIsCaused DEF CanceledForCause, Causes
  <2>4. Caused(th[t], t)' /\ r.pc \notin BeforePcs
    BY <2>1, <2>2, <2>3, CauseStays DEF BeforePcs, RequestPcs, LockPcs, NodePcs
  <2> QED BY <1>3, <2>2, <2>4
<1>9. ASSUME NEW t \in Threads,
             Acquire(t) \/ AnswerDirectly(t) \/ Release(t) \/ Raise(t)
      PROVE  Causes'
  <2>1. th[t].pc \in PublishedPcs /\ UNCHANGED <<signalled, published, met>>
    BY <1>9, InsideNow
  <2>2. PICK r : /\ Become(t, r) /\ r.pc \in {"plan", "unlock", "retract"}
                 /\ r.task = th[t].task /\ r.cancel = th[t].cancel /\ r.status = th[t].status
    <3>1. PICK pc \in {"plan", "unlock", "retract"} :
             \/ Become(t, [th[t] EXCEPT !.pc = pc])
             \/ Become(t, [th[t] EXCEPT !.pc = pc, !.raised = TRUE])
      BY <1>9 DEF Acquire, AnswerDirectly, Release, Raise, Goto
    <3>2. ASSUME NEW r \in {[th[t] EXCEPT !.pc = pc], [th[t] EXCEPT !.pc = pc, !.raised = TRUE]}
          PROVE  /\ r.pc = pc /\ r.task = th[t].task /\ r.cancel = th[t].cancel
                 /\ r.status = th[t].status
      <4>1. th[t] \in ThreadState
        BY <1>1
      <4>2. CASE r = [th[t] EXCEPT !.pc = pc]
        BY <4>1, <4>2 DEF ThreadState
      <4>3. CASE r = [th[t] EXCEPT !.pc = pc, !.raised = TRUE]
        BY <4>1, <4>3 DEF ThreadState
      <4> QED BY <3>2, <4>2, <4>3
    <3>3. CASE Become(t, [th[t] EXCEPT !.pc = pc])
      BY <3>1, <3>2, <3>3
    <3>4. CASE Become(t, [th[t] EXCEPT !.pc = pc, !.raised = TRUE])
      BY <3>1, <3>2, <3>4
    <3> QED BY <3>1, <3>3, <3>4
  <2>3. th'[t] = r /\ \A u \in Threads : u # t => th'[u] = th[u]
    BY <1>1, <2>2
  <2>4. Caused(r, t) /\ r.pc \notin BeforePcs
    BY <2>1, <2>2 DEF Causes, Caused, BeforePcs, RequestPcs
  <2>5. Caused(th[t], t)'
    BY <2>1, <2>2, <2>3, <2>4, CauseStays
  <2> QED BY <1>3, <2>1, <2>3, <2>4, <2>5
<1>10. CASE Restart
  <2>1. \A t \in Threads : th'[t] = IdleThread
    BY <1>10 DEF Restart
  <2>2. IdleThread.pc \notin PublishedPcs /\ ~IdleThread.cancel /\ IdleThread.status # "canceled"
    BY DEF IdleThread, PublishedPcs, LockPcs, NodePcs
  <2> QED BY <2>1, <2>2 DEF Causes
<1>11. CASE UNCHANGED vars
  BY <1>1, <1>2, <1>11 DEF vars, Causes
<1> QED BY <1>4, <1>5, <1>6, <1>7, <1>8, <1>9, <1>10, <1>11 DEF Next, RunStep

LEMMA SpecCauses == Spec => [](Overlaps /\ Causes)
<1>1. Init => Causes
  BY DEF Init, Causes, Caused, IdleThread, PublishedPcs, LockPcs, NodePcs
<1>2. Typed /\ Overlaps /\ Causes /\ [Next]_vars => Causes'
  BY NextCauses
<1> QED BY <1>1, <1>2, SpecTyped, SpecOverlaps, PTL DEF Spec

\* A row becomes canceled only in a graph run of that task.
LEMMA CanceledByRun ==
    ASSUME Typed, Overlaps, Causes, [Next]_vars,
           NEW k \in Tasks, row[k].status # "canceled", row'[k].status = "canceled"
    PROVE  \E t \in Threads : th[t].task = k /\ th[t].pc \in LockPcs /\ Asked(t)
<1>1. /\ Api \in Threads /\ Workers \subseteq Threads /\ row \in Rows
  BY DEF Threads, Typed, TypeOK, Rows
<1>2. ASSUME NEW j \in Tasks, NEW s \in {"pending", "running", "success"},
             UpdateTaskStatus(j, s) \/ SaveTask(j, s, FALSE)
      PROVE  FALSE
  <2>1. \/ row' = row
        \/ row' = [row EXCEPT ![j].status = s]
        \/ row' = [row EXCEPT ![j] = [status |-> s, cancel |-> FALSE]]
    BY <1>2 DEF UpdateTaskStatus, SaveTask, Persist
  <2>2. row'[k].status \in {row[k].status, s}
    BY <1>1, <2>1 DEF Rows
  <2> QED BY <2>2
<1>3. ASSUME NEW j \in Tasks, NEW c, SetTaskCancelRequested(j, c) PROVE FALSE
  <2>1. row' = row \/ row' = [row EXCEPT ![j].cancel = c]
    BY <1>3 DEF SetTaskCancelRequested, Persist
  <2>2. row'[k].status = row[k].status
    BY <1>1, <2>1 DEF Rows
  <2> QED BY <2>2
<1>4. ASSUME NEW t \in Threads, th[t].pc \in RunPcs \cup RequestPcs, th[t].pc # "closing"
      PROVE  th[t].task \in Tasks
  BY <1>4 DEF Typed, ThreadRoles, RunPcs, RequestPcs, LockPcs, NodePcs
<1>5. row' # row
  OBVIOUS
<1>6. ASSUME NEW j \in Tasks, Submit(j) \/ SubmitCopy(j) PROVE FALSE
  BY <1>2, <1>6 DEF Submit, SubmitCopy
<1>7. CASE MarkRunning \/ FlagCanceled
  <2>1. th[Api].task \in Tasks
    BY <1>1, <1>4, <1>7 DEF MarkRunning, FlagCanceled, RequestPcs
  <2> QED BY <1>2, <1>3, <1>7, <2>1 DEF MarkRunning, FlagCanceled
<1>8. CASE Request \/ RequestStep
  BY <1>3, <1>5, <1>6, <1>7, <1>8 DEF Request, RequestStep, ReadSource, CancelRunning, CancelUnknown,
     StartChat, Shutdown, RefuseCopy, Enqueue, CloseDatabase
<1>9. ASSUME NEW w \in Workers, WorkerStep(w) PROVE FALSE
  <2>1. Take(w) \/ Settle(w) \/ Pop(w) => FALSE
    BY <1>5 DEF Take, Settle, Pop
  <2>2. ClearFlag(w) \/ Finish(w) => th[w].task \in Tasks
    BY <1>1, <1>4 DEF ClearFlag, Finish, RunPcs
  <2> QED BY <1>2, <1>3, <1>5, <1>9, <2>1, <2>2 DEF WorkerStep, ClearFlag, Finish
<1>10. ASSUME NEW t \in Threads, RunStep(t)
       PROVE  \E u \in Threads : th[u].task = k /\ th[u].pc \in LockPcs /\ Asked(u)
  <2>1. th[t].task = k
    BY <1>5, <1>10, RunMoves DEF Written
  <2>2. GraphStep(t)
    BY <1>5, <1>10 DEF RunStep, Publish, Acquire, AnswerDirectly, Raise, Release, Retract
  <2>3. th[t].pc \in LockPcs /\ Caused(th[t], t) /\ published \in Events(t)
    BY <2>2, GraphMoves, GraphReads DEF Causes, PublishedPcs
  <2> QED BY <2>1, <2>2, <2>3, GraphIsCaused DEF CanceledForCause
<1>11. CASE Restart
  BY <1>1, <1>11 DEF Restart, MarkInterrupted, Rows
<1>12. CASE UNCHANGED vars
  BY <1>5, <1>12 DEF vars
<1> QED BY <1>8, <1>9, <1>10, <1>11, <1>12 DEF Next

\* A row becomes canceled only when the cancellation of that very task was requested, or that
\* of a task whose request overlapped the run in chat_async: no event, flag or status reaches
\* another run otherwise, for any number of workers, tasks and chats.
THEOREM CanceledRowsWereRequested == Spec => CanceledWasRequested
<1>1. Typed /\ Overlaps /\ Causes /\ [Next]_vars =>
         [\A k \in Tasks : row[k].status # "canceled" /\ row'[k].status = "canceled" =>
             \E t \in Threads : th[t].task = k /\ th[t].pc \in LockPcs /\ Asked(t)]_vars
  BY CanceledByRun
<1> QED BY <1>1, SpecCauses, SpecTyped, PTL DEF Spec, CanceledWasRequested

-----------------------------------------------------------------------------
(* The runner implements JobBoard: each of its steps is a step of the board *)
(* or leaves it as it is, for any tasks, workers and bounds.                *)

\* What a thread's state puts into its hand.
InHand(r) == IF r.pc \in RunPcs \cup {"saved"} THEN r.task ELSE None

\* A step of the running process.
LiveStep == \/ Request \/ RequestStep
            \/ \E w \in Workers : WorkerStep(w)
            \/ \E t \in Threads : RunStep(t)

LEMMA BoardThreads == Board!Threads = Threads
  BY DEF Board!Threads, Threads

\* A thread's step changes its own hand.
LEMMA HandMoves ==
    ASSUME Typed, NEW t \in Threads, NEW r, Become(t, r)
    PROVE  /\ Hand[t] = InHand(th[t])
           /\ Hand' = [Hand EXCEPT ![t] = InHand(r)]
<1>1. /\ th'[t] = r
      /\ \A u \in Threads : u # t => th'[u] = th[u]
  BY DEF Become, Typed, TypeOK
<1>2. /\ Hand = [u \in Threads |-> InHand(th[u])]
      /\ Hand' = [u \in Threads |-> InHand(th'[u])]
  BY DEF Hand, InHand
<1> QED BY <1>1, <1>2

\* A step that leaves the thread's hand as it was leaves every hand so.
LEMMA SameHand ==
    ASSUME Typed, NEW t \in Threads, NEW r, Become(t, r), InHand(r) = InHand(th[t])
    PROVE  Hand' = Hand
<1>1. /\ Hand[t] = InHand(th[t])
      /\ Hand' = [Hand EXCEPT ![t] = InHand(r)]
  BY HandMoves
<1>2. Hand = [u \in Threads |-> Hand[u]]
  BY DEF Hand
<1> QED BY <1>1, <1>2

\* On the board a task is nowhere exactly when nobody owns it.
LEMMA NowhereIsUnowned ==
    ASSUME Typed, OneOwner, NEW k \in Tasks
    PROVE  Board!Nowhere(k) <=> ~Live(k)
<1>1. k # None
  BY TaskAssumption
<1>2. ASSUME NEW t \in Threads
      PROVE  Hand[t] = k <=> Owns(t, k)
  BY <1>1, <1>2 DEF Hand, Owns
<1>3. k \in Queued <=> \E i \in 1..Len(queue) : queue[i] = k
  BY DEF Queued
<1>4. ASSUME NEW w \in Workers, th[w].pc # "idle", th[w].task = k
      PROVE  Owns(w, k)
  <2>1. w \in Threads /\ w # Api
    BY ThreadAssumption DEF Threads
  <2>2. th[w].pc \in RunPcs
    BY <1>4, <2>1 DEF Typed, ThreadRoles, RolePcs
  <2> QED BY <1>4, <2>2 DEF Owns
<1>5. k \in WorkerTasks => \E t \in Threads : Owns(t, k)
  BY <1>4 DEF WorkerTasks, Threads
<1>6. k \in registered <=> k \in Queued \/ k \in WorkerTasks
  BY DEF OneOwner
<1>7. Live(k) <=> k \in Queued \/ \E t \in Threads : Owns(t, k)
  BY <1>5, <1>6 DEF Live
<1> QED BY <1>2, <1>3, <1>7, BoardThreads DEF Board!Nowhere

\* A submission's first write gives no result and takes none.
LEMMA PendingKeepsResults ==
    ASSUME Typed, NEW k \in Tasks, row[k].status = "absent", SaveTask(k, "pending", FALSE)
    PROVE  EndedTasks' = EndedTasks
<1>1. \A j \in Tasks : j # k => row'[j] = row[j]
  BY SaveType DEF Typed, Written, RowStatus, Ended
<1>2. row' = row \/ row' = [row EXCEPT ![k] = [status |-> "pending", cancel |-> FALSE]]
  BY DEF SaveTask, Persist
<1>3. row'[k].status \in {"absent", "pending"}
  BY <1>2 DEF Typed, TypeOK
<1>4. {"absent", "pending"} \cap Ended = {}
  BY DEF Ended
<1> QED BY <1>1, <1>3, <1>4 DEF EndedTasks

\* While the process runs, nobody gives a result to a task that nobody owns.
LEMMA NoResultFromNowhere ==
    ASSUME Typed, RequestKnown, LiveStep,
           NEW k \in Tasks, row[k].status \notin Ended, ~Live(k)
    PROVE  row'[k].status \notin Ended
<1>1. Api \in Threads /\ Workers \subseteq Threads /\ row \in Rows
  BY DEF Threads, Typed, TypeOK, Rows
<1>2. \A j \in Tasks : Written(j) /\ j # k => row'[k].status \notin Ended
  BY DEF Written
<1>3. {"pending", "running", "success"} \subseteq RowStatus \ {"absent"}
  BY DEF RowStatus, Ended
<1>4. ASSUME NEW j \in Tasks, row[j].status = "absent", SaveTask(j, "pending", FALSE)
      PROVE  row'[k].status \notin Ended
  BY <1>4, PendingKeepsResults DEF EndedTasks
<1>5. ASSUME NEW j \in Tasks, Submit(j) \/ SubmitCopy(j)
      PROVE  row'[k].status \notin Ended
  BY <1>4, <1>5 DEF Submit, SubmitCopy, Fresh
<1>6. ASSUME NEW j \in Tasks, CancelUnknown(j) PROVE row'[k].status \notin Ended
  <2>1. \/ row' = row
        \/ row' = [row EXCEPT ![j].cancel = TRUE]
    BY <1>6 DEF CancelUnknown, SetTaskCancelRequested, Persist
  <2>2. row'[k].status = row[k].status
    BY <1>1, <2>1 DEF Rows
  <2> QED BY <2>2
<1>7. ASSUME NEW j \in Tasks, ReadSource(j) \/ CancelRunning(j) \/ StartChat(j)
      PROVE  row'[k].status \notin Ended
  BY <1>7 DEF ReadSource, CancelRunning, StartChat
<1>8. CASE Shutdown \/ RefuseCopy \/ Enqueue \/ CloseDatabase
  BY <1>8 DEF Shutdown, RefuseCopy, Enqueue, CloseDatabase
<1>9. CASE MarkRunning \/ FlagCanceled
  <2>1. th[Api].task \in registered /\ th[Api].task \in Tasks
    BY <1>9 DEF MarkRunning, FlagCanceled, RequestKnown, Typed, TypeOK
  <2>2. th[Api].task # k
    BY <2>1 DEF Live
  <2>3. Written(th[Api].task)
    BY <1>3, <1>9, <2>1, UpdateStatusType, SetCancelType DEF MarkRunning, FlagCanceled, Typed
  <2> QED BY <1>2, <2>1, <2>2, <2>3
<1>10. ASSUME NEW t \in Threads, th[t].pc \in RunPcs
       PROVE  th[t].task # k /\ th[t].task \in Tasks
  BY <1>10 DEF Live, Owns, Typed, ThreadRoles, RunPcs, LockPcs, NodePcs
<1>11. ASSUME NEW w \in Workers, WorkerStep(w) PROVE row'[k].status \notin Ended
  <2>1. CASE Take(w) \/ Settle(w) \/ Pop(w)
    BY <2>1 DEF Take, Settle, Pop
  <2>2. CASE ClearFlag(w)
    <3>1. th[w].task # k /\ th[w].task \in Tasks
      BY <1>1, <1>10, <2>2 DEF ClearFlag, RunPcs
    <3> QED BY <1>2, <2>2, <3>1, SetCancelType DEF ClearFlag, Typed
  <2>3. CASE Finish(w)
    <3>1. th[w].task # k /\ th[w].task \in Tasks
      BY <1>1, <1>10, <2>3 DEF Finish, RunPcs
    <3> QED BY <1>2, <1>3, <2>3, <3>1, UpdateStatusType DEF Finish, Typed
  <2> QED BY <1>11, <2>1, <2>2, <2>3 DEF WorkerStep
<1>12. ASSUME NEW t \in Threads, RunStep(t) PROVE row'[k].status \notin Ended
  BY <1>2, <1>10, <1>12, RunMoves
<1> QED BY <1>5, <1>6, <1>7, <1>8, <1>9, <1>11, <1>12 DEF LiveStep, Request, RequestStep

\* A step that moves no task on the board is work on the tasks somebody owns.
LEMMA RestIsWork ==
    ASSUME Typed, OneOwner, RequestKnown, LiveStep,
           queue' = queue, Hand' = Hand
    PROVE  Board!Work
<1>0. [Next]_vars
  BY DEF LiveStep, Next
<1>1. ASSUME NEW k \in Tasks, Board!Nowhere(k)
      PROVE  k \in EndedTasks' <=> k \in EndedTasks
  <2>1. ~Live(k)
    BY <1>1, NowhereIsUnowned
  <2>2. row[k].status \in Ended => row'[k] = row[k]
    BY <1>0, <2>1, EndedRowKept
  <2>3. row[k].status \notin Ended => row'[k].status \notin Ended
    BY <2>1, NoResultFromNowhere
  <2> QED BY <2>2, <2>3 DEF EndedTasks
<1> QED BY <1>1 DEF Board!Work
-----------------------------------------------------------------------------
(* The steps.                                                               *)

\* A task that a request brings.
LEMMA ReceiveStep ==
    ASSUME Typed, OneOwner, NEW k \in Tasks, NEW pc \in {"saved", "publish"},
           th[Api].pc \in {"idle", "checked"}, Fresh(k),
           Become(Api, [th[Api] EXCEPT !.pc = pc, !.task = k]),
           queue' = queue, EndedTasks' = EndedTasks
    PROVE  Board!Receive(k)
<1> DEFINE r == [th[Api] EXCEPT !.pc = pc, !.task = k]
<1>1. Api \in Threads /\ th[Api] \in ThreadState
  BY DEF Threads, Typed, TypeOK
<1>2. r.pc = pc /\ r.task = k
  BY <1>1 DEF ThreadState
<1>3. InHand(r) = k /\ InHand(th[Api]) = None
  BY <1>2 DEF InHand, RunPcs, LockPcs, NodePcs
<1>4. Hand[Api] = None /\ Hand' = [Hand EXCEPT ![Api] = k]
  BY <1>1, <1>3, HandMoves
<1>5. k \notin EndedTasks
  BY DEF Fresh, EndedTasks, Ended
<1>6. Board!Nowhere(k)
  BY NowhereIsUnowned DEF Fresh
<1> QED BY <1>4, <1>5, <1>6 DEF Board!Receive

LEMMA RequestBoard ==
    ASSUME Typed, OneOwner, RequestKnown, Request \/ RequestStep
    PROVE  Board!Next
<1>1. Api \in Threads /\ th[Api] \in ThreadState
  BY DEF Threads, Typed, TypeOK
<1>2. "checked" \notin RunPcs \cup {"saved"} /\ "idle" \notin RunPcs \cup {"saved"}
      /\ "queued" \notin RunPcs \cup {"saved"} /\ "flag" \notin RunPcs \cup {"saved"}
      /\ "closing" \notin RunPcs \cup {"saved"}
  BY DEF RunPcs, LockPcs, NodePcs
<1>3. LiveStep
  BY DEF LiveStep
<1>5. ASSUME NEW k \in Tasks, Submit(k) PROVE Board!Next
  <2>1. EndedTasks' = EndedTasks
    BY <1>5, PendingKeepsResults DEF Submit, Fresh
  <2> QED BY <1>5, <2>1, ReceiveStep DEF Submit, ApiIdle, Board!Next
<1>6. ASSUME NEW k \in Tasks, SubmitCopy(k) PROVE Board!Next
  <2>1. EndedTasks' = EndedTasks
    BY <1>6, PendingKeepsResults DEF SubmitCopy, Fresh
  <2> QED BY <1>6, <2>1, ReceiveStep DEF SubmitCopy, Board!Next
<1>7. ASSUME NEW k \in Tasks, StartChat(k) PROVE Board!Next
  <2>1. EndedTasks' = EndedTasks
    BY <1>7 DEF StartChat, EndedTasks
  <2> QED BY <1>7, <2>1, ReceiveStep DEF StartChat, ApiIdle, Board!Next
<1>8. CASE Enqueue
  <2> DEFINE r == [th[Api] EXCEPT !.pc = "queued"]
  <2>1. /\ th[Api].pc = "saved" /\ queue' = Append(queue, th[Api].task)
        /\ Become(Api, r) /\ row' = row
    BY <1>8 DEF Enqueue, Goto
  <2>2. InHand(r) = None /\ InHand(th[Api]) = th[Api].task
    BY <1>1, <1>2, <2>1 DEF InHand, ThreadState
  <2> HIDE DEF r
  <2>3. Hand[Api] = th[Api].task /\ Hand' = [Hand EXCEPT ![Api] = None]
    BY <1>1, <2>1, <2>2, HandMoves
  <2>4. th[Api].task # None
    BY <1>1, <2>1, TaskAssumption DEF Typed, ThreadRoles
  <2>5. EndedTasks' = EndedTasks
    BY <2>1 DEF EndedTasks
  <2> QED BY <2>1, <2>3, <2>4, <2>5 DEF Board!Accept, Board!Next
<1>9. ASSUME Hand' = Hand, queue' = queue PROVE Board!Next
  BY <1>3, <1>9, RestIsWork DEF Board!Next
<1>10. ASSUME NEW k, NEW pc \in {"checked", "flag"},
              Become(Api, [th[Api] EXCEPT !.pc = pc, !.task = k]), th[Api].pc = "idle"
       PROVE  Hand' = Hand
  <2> DEFINE r == [th[Api] EXCEPT !.pc = pc, !.task = k]
  <2>1. r.pc = pc
    BY <1>1 DEF ThreadState
  <2>2. Become(Api, r)
    BY <1>10
  <2> HIDE DEF r
  <2>3. InHand(r) = None /\ InHand(th[Api]) = None
    BY <1>2, <1>10, <2>1 DEF InHand
  <2> QED BY <1>1, <2>2, <2>3, SameHand
<1>11. ASSUME NEW k \in Tasks, ReadSource(k) PROVE Board!Next
  <2>1. Hand' = Hand /\ queue' = queue
    BY <1>10, <1>11 DEF ReadSource, ApiIdle
  <2> QED BY <1>9, <2>1
<1>12. ASSUME NEW k \in Tasks, CancelRunning(k) PROVE Board!Next
  <2>1. Hand' = Hand /\ queue' = queue
    BY <1>10, <1>12 DEF CancelRunning, ApiIdle
  <2> QED BY <1>9, <2>1
<1>13. ASSUME NEW k \in Tasks, CancelUnknown(k) PROVE Board!Next
  <2>1. Hand' = Hand /\ queue' = queue
    BY <1>13 DEF CancelUnknown, Hand
  <2> QED BY <1>9, <2>1
<1>14. CASE RefuseCopy \/ MarkRunning \/ FlagCanceled \/ CloseDatabase
  <2>1. /\ Become(Api, IdleThread) /\ queue' = queue
        /\ th[Api].pc \in {"checked", "queued", "flag", "closing"}
    BY <1>14 DEF RefuseCopy, MarkRunning, FlagCanceled, CloseDatabase, Rest, control
  <2>2. InHand(IdleThread) = None /\ InHand(th[Api]) = None
    BY <1>2, <2>1 DEF InHand, IdleThread
  <2>3. Hand' = Hand
    BY <1>1, <2>1, <2>2, SameHand
  <2> QED BY <1>9, <2>1, <2>3
<1>15. CASE Shutdown
  <2> DEFINE r == [th[Api] EXCEPT !.pc = "closing"]
  <2>1. Become(Api, r) /\ queue' = queue /\ th[Api].pc = "idle"
    BY <1>15 DEF Shutdown, Goto, ApiIdle
  <2>2. r.pc = "closing"
    BY <1>1 DEF ThreadState
  <2> HIDE DEF r
  <2>3. InHand(r) = None /\ InHand(th[Api]) = None
    BY <1>2, <2>1, <2>2 DEF InHand
  <2>4. Hand' = Hand
    BY <1>1, <2>1, <2>3, SameHand
  <2> QED BY <1>9, <2>1, <2>4
<1> QED BY <1>5, <1>6, <1>7, <1>8, <1>11, <1>12, <1>13, <1>14, <1>15 DEF Request, RequestStep

LEMMA WorkerBoard ==
    ASSUME Typed, OneOwner, RequestKnown, NEW w \in Workers, WorkerStep(w)
    PROVE  Board!Next
<1>1. /\ w \in Threads /\ w # Api /\ th[w] \in ThreadState /\ w \in Board!Threads
      /\ LiveStep
  BY ThreadAssumption DEF Threads, Typed, TypeOK, LiveStep, Board!Threads
<1>2. {"clear", "publish", "settle", "finish", "pop"} \subseteq RunPcs /\ "idle" \notin RunPcs \cup {"saved"}
  BY DEF RunPcs, LockPcs, NodePcs
<1>3. CASE Take(w)
  <2> DEFINE k == Head(queue)
             r == [th[w] EXCEPT !.pc = "clear", !.task = k]
  <2>1. /\ th[w].pc = "idle" /\ queue # <<>> /\ queue' = Tail(queue)
        /\ Become(w, r) /\ row' = row
    BY <1>3 DEF Take
  <2>2. r.pc = "clear" /\ r.task = k
    BY <1>1 DEF ThreadState
  <2> HIDE DEF r
  <2>3. InHand(r) = k /\ InHand(th[w]) = None
    BY <1>2, <2>1, <2>2 DEF InHand
  <2>4. Hand[w] = None /\ Hand' = [Hand EXCEPT ![w] = k]
    BY <1>1, <2>1, <2>3, HandMoves
  <2>5. EndedTasks' = EndedTasks
    BY <2>1 DEF EndedTasks
  <2> QED BY <2>1, <2>4, <2>5 DEF Board!Start, Board!Next
<1>4. ASSUME NEW pc \in {"publish", "finish", "pop"}, th[w].pc \in {"clear", "settle", "finish"},
             Goto(w, pc), queue' = queue
      PROVE  Board!Next
  <2> DEFINE r == [th[w] EXCEPT !.pc = pc]
  <2>1. r.pc = pc /\ r.task = th[w].task
    BY <1>1 DEF ThreadState
  <2>2. Become(w, r)
    BY <1>4 DEF Goto
  <2> HIDE DEF r
  <2>3. InHand(r) = InHand(th[w])
    BY <1>2, <1>4, <2>1 DEF InHand
  <2>4. Hand' = Hand
    BY <1>1, <2>2, <2>3, SameHand
  <2> QED BY <1>1, <1>4, <2>4, RestIsWork DEF Board!Next
<1>5. CASE ClearFlag(w)
  BY <1>4, <1>5 DEF ClearFlag
<1>6. CASE Settle(w)
  BY <1>4, <1>6, SettleMoves
<1>8. CASE Finish(w)
  BY <1>4, <1>8 DEF Finish
<1>7. CASE Pop(w)
  <2>1. /\ th[w].pc = "pop" /\ queue' = queue /\ row' = row /\ Become(w, IdleThread)
    BY <1>7 DEF Pop, Rest
  <2>2. InHand(IdleThread) = None /\ InHand(th[w]) = th[w].task
    BY <1>2, <2>1 DEF InHand, IdleThread
  <2>3. Hand[w] = th[w].task /\ Hand' = [Hand EXCEPT ![w] = None]
    BY <1>1, <2>1, <2>2, HandMoves
  <2>4. th[w].task # None
    BY <1>1, <2>1, TaskAssumption DEF Typed, ThreadRoles
  <2>5. EndedTasks' = EndedTasks
    BY <2>1 DEF EndedTasks
  <2> QED BY <1>1, <2>1, <2>3, <2>4, <2>5 DEF Board!Leave, Board!Next
<1> QED BY <1>3, <1>5, <1>6, <1>7, <1>8 DEF WorkerStep

LEMMA RunBoard ==
    ASSUME Typed, OneOwner, RequestKnown, NEW t \in Threads, RunStep(t)
    PROVE  Board!Next
<1>1. /\ th[t].pc \in RunPcs /\ th[t].task \in Tasks /\ queue' = queue /\ LiveStep
  BY RunMoves DEF LiveStep
<1>2. PICK r : /\ Become(t, r)
               /\ \/ r.pc \in RunPcs /\ r.task = th[t].task
                  \/ t = Api /\ r = IdleThread
  BY RunMoves
<1>3. CASE r.pc \in RunPcs /\ r.task = th[t].task
  <2>1. InHand(r) = InHand(th[t])
    BY <1>1, <1>3 DEF InHand
  <2>2. Hand' = Hand
    BY <1>2, <2>1, SameHand
  <2> QED BY <1>1, <2>2, RestIsWork DEF Board!Next
<1>4. CASE t = Api /\ r = IdleThread
  <2>1. InHand(r) = None /\ InHand(th[t]) = th[t].task
    BY <1>1, <1>4 DEF InHand, IdleThread, RunPcs, LockPcs, NodePcs
  <2>2. Hand[t] = th[t].task /\ Hand' = [Hand EXCEPT ![t] = None]
    BY <1>2, <2>1, HandMoves
  <2>3. th[t].task # None
    BY <1>1, TaskAssumption
  <2>4. row' = row
    <3>1. th'[t] = IdleThread /\ IdleThread.pc \notin LockPcs
      BY <1>2, <1>4 DEF Become, Typed, TypeOK, IdleThread, LockPcs, NodePcs
    <3>2. ~GraphStep(t)
      BY <3>1, GraphMoves DEF Become, Typed, TypeOK
    <3> QED BY <3>2 DEF RunStep, Publish, Acquire, AnswerDirectly, Raise, Release, Retract
  <2>5. EndedTasks' = EndedTasks
    BY <2>4 DEF EndedTasks
  <2> QED BY <1>1, <2>2, <2>3, <2>5, BoardThreads DEF Board!Leave, Board!Next
<1> QED BY <1>2, <1>3, <1>4

\* A restart stops the board: it empties every hand, and the sweep ends rows only.
LEMMA RestartBoard ==
    ASSUME Typed, Restart
    PROVE  Board!Stop
<1>1. queue' = <<>> /\ th' = [t \in Threads |-> IdleThread]
  BY DEF Restart
<1>2. Hand' = [t \in Board!Threads |-> None]
  BY <1>1, BoardThreads DEF Hand, IdleThread, RunPcs, LockPcs, NodePcs
<1>3. row' = row \/ row' = MarkInterrupted
  BY DEF Restart
<1>4. EndedTasks \subseteq EndedTasks'
  BY <1>3 DEF EndedTasks, MarkInterrupted, Ended
<1> QED BY <1>1, <1>2, <1>4 DEF Board!Stop

\* The runner implements the job board: tasks are started once and in order, a
\* retry is a new task, and results change only while somebody has the task.
THEOREM RunnerKeepsBoard == Spec => KeepsBoard
<1>1. Init => Board!Init
  BY BoardThreads DEF Init, Board!Init, Hand, EndedTasks, IdleThread, Ended, RunPcs,
                      LockPcs, NodePcs
<1>2. Typed /\ OneOwner /\ RequestKnown /\ [Next]_vars => [Board!Next]_(Board!board)
  <2> SUFFICES ASSUME Typed, OneOwner, RequestKnown, [Next]_vars
               PROVE  [Board!Next]_(Board!board)
    OBVIOUS
  <2>1. CASE Request \/ RequestStep
    BY <2>1, RequestBoard
  <2>2. CASE \E w \in Workers : WorkerStep(w)
    BY <2>2, WorkerBoard
  <2>3. CASE \E t \in Threads : RunStep(t)
    BY <2>3, RunBoard
  <2>4. CASE Restart
    BY <2>4, RestartBoard DEF Board!Next
  <2>5. CASE UNCHANGED vars
    BY <2>5 DEF vars, Board!board, Hand, EndedTasks
  <2> QED BY <2>1, <2>2, <2>3, <2>4, <2>5 DEF Next
<1>3. Init => RequestKnown
  BY DEF Init, RequestKnown, IdleThread, Threads
<1> QED BY <1>1, <1>2, <1>3, NextRequestKnown, SpecTyped, TasksHaveOneOwner, PTL
        DEF Spec, KeepsBoard, Board!Spec
-----------------------------------------------------------------------------
(* The runs of the graph.                                                   *)

\* A thread that no node has touched.
Untouched(r) ==
    /\ r.status = "running" /\ r.pending = "none"
    /\ r.cancel = FALSE /\ r.error = FALSE /\ r.replan = FALSE /\ r.raised = FALSE
    /\ r.fuel = RecursionLimit

\* What a thread's fields are at its program counter: they are untouched before the
\* first node and for a run that still has every superstep, a tool works in a run that
\* has noticed no cancellation, and only a run that is over has raised.
InForm(r) ==
    /\ r.pc \notin LockPcs \cup {"retract", "settle", "finish", "pop"} => Untouched(r)
    /\ r.pc = "plan" /\ r.fuel = RecursionLimit => Untouched(r)
    /\ r.pc \in {"begin", "tool"} => r.cancel = FALSE /\ r.fuel < RecursionLimit
    /\ r.pc \in LockPcs \ {"unlock"} => r.raised = FALSE

AllInForm == \A t \in Threads : InForm(th[t])

RunFields == {"node", "status", "pending", "cancel", "error", "replan"}

LEMMA SameFields ==
    ASSUME NEW a, NEW b, a = [f \in RunFields |-> a[f]], b = [f \in RunFields |-> b[f]],
           a.node = b.node, a.status = b.status, a.pending = b.pending,
           a.cancel = b.cancel, a.error = b.error, a.replan = b.replan
    PROVE  a = b
<1>1. \A f \in RunFields : a[f] = b[f]
  BY DEF RunFields
<1> QED BY <1>1

\* The run of a thread whose review has not settled its status.
LEMMA RunFieldsOf ==
    ASSUME NEW r \in ThreadState, r.pc # "unlock" \/ r.raised
    PROVE  /\ RunOf(r) = [f \in RunFields |-> RunOf(r)[f]]
           /\ RunOf(r).node = NodeName(r) /\ RunOf(r).status = r.status
           /\ RunOf(r).pending = r.pending /\ RunOf(r).cancel = r.cancel
           /\ RunOf(r).error = r.error /\ RunOf(r).replan = r.replan
<1>1. ~Settled(r) /\ r.replan \in BOOLEAN
  BY DEF Settled, ThreadState
<1>2. (r.replan /\ ~Settled(r)) = r.replan
  BY <1>1
<1> QED BY <1>1, <1>2 DEF RunOf, RunFields

\* And of one whose review has.
LEMMA SettledFields ==
    ASSUME NEW r \in ThreadState, r.pc = "unlock", r.raised = FALSE
    PROVE  /\ RunOf(r) = [f \in RunFields |-> RunOf(r)[f]]
           /\ RunOf(r).node = "over"
           /\ RunOf(r).status = IF r.pending # "none" THEN r.pending ELSE r.status
           /\ RunOf(r).pending = "none" /\ RunOf(r).cancel = r.cancel
           /\ RunOf(r).error = r.error /\ RunOf(r).replan = FALSE
<1>1. Settled(r) /\ r.replan \in BOOLEAN
  BY DEF Settled, ThreadState
<1>2. (r.replan /\ ~Settled(r)) = FALSE
  BY <1>1
<1> QED BY <1>1, <1>2 DEF RunOf, RunFields, NodeName

LEMMA IdleFields ==
    /\ Graph!Idle = [f \in RunFields |-> Graph!Idle[f]]
    /\ Graph!Idle.node = "idle" /\ Graph!Idle.status = "running" /\ Graph!Idle.pending = "none"
    /\ Graph!Idle.cancel = FALSE /\ Graph!Idle.error = FALSE /\ Graph!Idle.replan = FALSE
BY DEF Graph!Idle, RunFields

LEMMA FreshFields ==
    /\ Graph!Fresh = [f \in RunFields |-> Graph!Fresh[f]]
    /\ Graph!Fresh.node = "plan" /\ Graph!Fresh.status = "running"
    /\ Graph!Fresh.pending = "none" /\ Graph!Fresh.cancel = FALSE
    /\ Graph!Fresh.error = FALSE /\ Graph!Fresh.replan = FALSE
BY DEF Graph!Fresh, Graph!Idle, RunFields

\* Outside the lock a thread has no run.
LEMMA IdleRun ==
    /\ RunOf(IdleThread) = Graph!Idle
    /\ \A t \in Threads : th[t].pc \notin LockPcs => Runs[t] = Graph!Idle
    /\ \A t \in Threads : th[t].pc \in LockPcs => Runs[t] = RunOf(th[t])
<1> DEFINE r == IdleThread
<1>1. /\ r \in ThreadState /\ r.pc = "idle" /\ r.status = "running" /\ r.pending = "none"
      /\ r.cancel = FALSE /\ r.error = FALSE /\ r.replan = FALSE
  BY IdleType DEF IdleThread
<1> DEFINE a == RunOf(r)
           b == Graph!Idle
<1> HIDE DEF r
<1>2. NodeName(r) = "idle"
  BY <1>1 DEF NodeName
<1>3. /\ a = [f \in RunFields |-> a[f]]
      /\ a.node = "idle" /\ a.status = "running" /\ a.pending = "none"
      /\ a.cancel = FALSE /\ a.error = FALSE /\ a.replan = FALSE
  <2>1. r.pc # "unlock"
    BY <1>1
  <2> QED BY <1>1, <1>2, <2>1, RunFieldsOf
<1>4. /\ b = [f \in RunFields |-> b[f]]
      /\ b.node = "idle" /\ b.status = "running" /\ b.pending = "none"
      /\ b.cancel = FALSE /\ b.error = FALSE /\ b.replan = FALSE
  BY IdleFields
<1> HIDE DEF a, b
<1>5. a = b
  <2>1. \A f \in RunFields : a[f] = b[f]
    BY <1>3, <1>4 DEF RunFields
  <2> QED BY <1>3, <1>4, <2>1
<1>6. RunOf(IdleThread) = Graph!Idle
  BY <1>5 DEF a, b, r
<1> QED BY <1>6 DEF Runs

\* A thread's step changes its own run.
LEMMA RunChanges ==
    ASSUME Typed, NEW t \in Threads, NEW r, Become(t, r)
    PROVE  /\ r.pc \in LockPcs => Graph!Becomes(t, RunOf(r))
           /\ r.pc \notin LockPcs => Graph!Becomes(t, Graph!Idle)
           /\ InForm(r) /\ AllInForm => AllInForm'
<1>1. /\ th'[t] = r
      /\ \A u \in Threads : u # t => th'[u] = th[u]
  BY DEF Become, Typed, TypeOK
<1> DEFINE Of(q) == RunOf(IF q.pc \in LockPcs THEN q ELSE IdleThread)
<1>2. Runs = [u \in Threads |-> Of(th[u])] /\ Runs' = [u \in Threads |-> Of(th'[u])]
  BY DEF Runs
<1>3. Runs' = [Runs EXCEPT ![t] = Of(r)]
  <2> HIDE DEF Of
  <2> QED BY <1>1, <1>2
<1>4. /\ r.pc \in LockPcs => Of(r) = RunOf(r)
      /\ r.pc \notin LockPcs => Of(r) = Graph!Idle
  BY IdleRun
<1>5. InForm(r) /\ AllInForm => AllInForm'
  <2> SUFFICES ASSUME InForm(r), AllInForm, NEW u \in Threads PROVE InForm(th'[u])
    BY DEF AllInForm, InForm, Untouched
  <2>1. CASE u = t
    BY <1>1, <2>1
  <2>2. CASE u # t
    BY <1>1, <2>2 DEF AllInForm
  <2> QED BY <2>1, <2>2
<1> HIDE DEF Of
<1> QED BY <1>3, <1>4, <1>5 DEF Graph!Becomes

\* It leaves the runs as they are when its own stays.
LEMMA SameRuns ==
    ASSUME NEW t \in Threads, Graph!Becomes(t, Runs[t])
    PROVE  Runs' = Runs
<1>1. Runs = [u \in Threads |-> Runs[u]]
  BY DEF Runs
<1> QED BY <1>1 DEF Graph!Becomes

LEMMA StepIsRunStep ==
    ASSUME NEW t \in Threads,
           \/ Graph!Step(t) \/ Graph!Raise(t) \/ Graph!Begin(t) \/ Graph!AnswerDirectly(t)
           \/ Graph!Leave(t)
    PROVE  Graph!Next
BY DEF Graph!Next

\* A thread's step inside the lock, told in the fields of the run.
LEMMA RunBecomes ==
    ASSUME Typed, AllInForm, NEW t \in Threads, NEW r \in ThreadState, Become(t, r),
           r.pc \in LockPcs \ {"unlock"}, InForm(r),
           NEW new, new = [f \in RunFields |-> new[f]],
           new.node = NodeName(r), new.status = r.status, new.pending = r.pending,
           new.cancel = r.cancel, new.error = r.error, new.replan = r.replan
    PROVE  Graph!Becomes(t, new) /\ AllInForm'
<1> DEFINE a == RunOf(r)
<1>1. /\ a = [f \in RunFields |-> a[f]]
      /\ a.node = NodeName(r) /\ a.status = r.status /\ a.pending = r.pending
      /\ a.cancel = r.cancel /\ a.error = r.error /\ a.replan = r.replan
  <2>1. r.pc # "unlock"
    OBVIOUS
  <2> QED BY <2>1, RunFieldsOf
<1>2. Graph!Becomes(t, a) /\ AllInForm'
  BY RunChanges
<1> HIDE DEF a
<1>3. a = new
  BY <1>1, SameFields
<1> QED BY <1>2, <1>3

\* The run of a thread that is inside the lock and not at its end.
LEMMA InsideRun ==
    ASSUME Typed, NEW t \in Threads, th[t].pc \in LockPcs \ {"unlock"}
    PROVE  /\ Runs[t] = [f \in RunFields |-> Runs[t][f]]
           /\ Runs[t].node = NodeName(th[t]) /\ Runs[t].status = th[t].status
           /\ Runs[t].pending = th[t].pending /\ Runs[t].cancel = th[t].cancel
           /\ Runs[t].error = th[t].error /\ Runs[t].replan = th[t].replan
<1>1. Runs[t] = RunOf(th[t])
  BY IdleRun
<1>2. th[t] \in ThreadState /\ th[t].pc # "unlock"
  BY DEF Typed, TypeOK
<1> QED BY <1>1, <1>2, RunFieldsOf

\* Outside the lock a step leaves the runs alone.
LEMMA OutsideStep ==
    ASSUME Typed, AllInForm, NEW t \in Threads, NEW r, Become(t, r),
           th[t].pc \notin LockPcs, r.pc \notin LockPcs, InForm(r)
    PROVE  Runs' = Runs /\ AllInForm'
<1>1. Graph!Becomes(t, Graph!Idle) /\ AllInForm'
  BY RunChanges
<1>2. Runs[t] = Graph!Idle
  BY IdleRun
<1> QED BY <1>1, <1>2, SameRuns

\* A node that spends its superstep.
LEMMA NodeBecomes ==
    ASSUME Typed, AllInForm, NEW t \in Threads, NEW p \in ThreadState, Advance(t, p),
           th[t].pc \in NodePcs, th[t].fuel > 0, p.fuel = th[t].fuel, p.raised = th[t].raised,
           p.pc \in NodePcs,
           NEW new, new = [f \in RunFields |-> new[f]],
           new.node = p.pc, new.status = p.status, new.pending = p.pending,
           new.cancel = p.cancel, new.error = p.error, new.replan = p.replan
    PROVE  Graph!Becomes(t, new) /\ AllInForm'
<1> DEFINE r == [p EXCEPT !.fuel = @ - 1]
<1>1. r \in ThreadState /\ r.pc = p.pc
  BY SpendType
<1>2. /\ r.status = p.status /\ r.pending = p.pending /\ r.cancel = p.cancel
      /\ r.error = p.error /\ r.replan = p.replan /\ r.raised = p.raised
      /\ r.fuel = p.fuel - 1
  BY DEF ThreadState
<1>3. Become(t, r)
  BY DEF Advance
<1> HIDE DEF r
<1>4. th[t].raised = FALSE /\ p.fuel <= RecursionLimit /\ p.fuel \in Nat /\ RecursionLimit \in Nat
  BY BoundAssumption DEF AllInForm, InForm, LockPcs, NodePcs, ThreadState
<1>5. InForm(r)
  BY <1>1, <1>2, <1>4 DEF InForm, LockPcs, NodePcs
<1>6. r.pc \in LockPcs \ {"unlock"} /\ NodeName(r) = r.pc
  BY <1>1 DEF LockPcs, NodePcs, NodeName
<1> QED BY <1>1, <1>2, <1>3, <1>5, <1>6, RunBecomes

\* At a node of the graph the run is at that node of the outline.
LEMMA AtRunNode ==
    ASSUME Typed, NEW t \in Threads, th[t].pc \in LockPcs \ {"unlock"}
    PROVE  Graph!At(t, NodeName(th[t]))
BY InsideRun DEF Graph!At

LEMMA PlanFollows ==
    ASSUME Typed, AllInForm, NEW t \in Threads, Plan(t) \/ PlanFails(t)
    PROVE  Graph!Next /\ AllInForm'
<1>1. th[t] \in ThreadState
  BY DEF Typed, TypeOK
<1>2. th[t].pc = "plan" /\ th[t].fuel > 0
  BY DEF Plan, PlanFails, AtNode
<1>3. /\ NodeName(th[t]) = "plan" /\ th[t].pc \in LockPcs \ {"unlock"}
      /\ {"plan", "decide"} \subseteq NodePcs
  BY <1>2 DEF NodeName, LockPcs, NodePcs
<1>4. Graph!At(t, "plan")
  BY <1>3, AtRunNode
<1>5. CASE Plan(t)
  <2> DEFINE p == [th[t] EXCEPT !.pc = "decide", !.status = "running",
                                !.pending = "none", !.cancel = FALSE, !.replan = FALSE]
             new == [Graph!Fresh EXCEPT !.node = "decide", !.error = Runs[t].error]
  <2>1. p \in ThreadState
    BY <1>1 DEF ThreadState, RunPcs, LockPcs, NodePcs
  <2>2. /\ p.pc = "decide" /\ p.status = "running" /\ p.pending = "none"
        /\ p.cancel = FALSE /\ p.error = th[t].error /\ p.replan = FALSE
        /\ p.fuel = th[t].fuel /\ p.raised = th[t].raised
    BY <1>1 DEF ThreadState
  <2>3. /\ new = [f \in RunFields |-> new[f]]
        /\ new.node = "decide" /\ new.status = "running" /\ new.pending = "none"
        /\ new.cancel = FALSE /\ new.error = Runs[t].error /\ new.replan = FALSE
    BY DEF RunFields, Graph!Fresh, Graph!Idle
  <2>4. Runs[t].error = th[t].error
    BY <1>3, InsideRun
  <2>5. Advance(t, p)
    BY <1>5 DEF Plan
  <2>6. Graph!Becomes(t, new) => Graph!Plan(t)
    BY <1>4 DEF Graph!Plan
  <2> HIDE DEF p, new
  <2>7. Graph!Becomes(t, new) /\ AllInForm'
    BY <1>2, <1>3, <2>1, <2>2, <2>3, <2>4, <2>5, NodeBecomes
  <2> QED BY <2>6, <2>7, StepIsRunStep DEF Graph!Step
<1>6. CASE PlanFails(t)
  <2> DEFINE p == [th[t] EXCEPT !.pc = "decide", !.error = TRUE]
             new == [Runs[t] EXCEPT !.node = "decide", !.error = TRUE]
  <2>1. p \in ThreadState
    BY <1>1 DEF ThreadState, RunPcs, LockPcs, NodePcs
  <2>2. /\ p.pc = "decide" /\ p.status = th[t].status /\ p.pending = th[t].pending
        /\ p.cancel = th[t].cancel /\ p.error = TRUE /\ p.replan = th[t].replan
        /\ p.fuel = th[t].fuel /\ p.raised = th[t].raised
    BY <1>1 DEF ThreadState
  <2>3. /\ new = [f \in RunFields |-> new[f]]
        /\ new.node = "decide" /\ new.status = th[t].status /\ new.pending = th[t].pending
        /\ new.cancel = th[t].cancel /\ new.error = TRUE /\ new.replan = th[t].replan
    BY <1>3, InsideRun DEF RunFields
  <2>4. Advance(t, p)
    BY <1>6 DEF PlanFails
  <2>5. Graph!Becomes(t, new) => Graph!PlanFails(t)
    BY <1>4 DEF Graph!PlanFails
  <2> HIDE DEF p, new
  <2>6. Graph!Becomes(t, new) /\ AllInForm'
    <3>1. /\ new.node = p.pc /\ new.status = p.status /\ new.pending = p.pending
          /\ new.cancel = p.cancel /\ new.error = p.error /\ new.replan = p.replan
          /\ p.pc \in NodePcs /\ th[t].pc \in NodePcs
      BY <1>2, <1>3, <2>2, <2>3
    <3>2. new = [f \in RunFields |-> new[f]] /\ p.fuel = th[t].fuel /\ p.raised = th[t].raised
      BY <2>2, <2>3
    <3> QED BY <1>2, <2>1, <2>4, <3>1, <3>2, NodeBecomes
  <2> QED BY <2>5, <2>6, StepIsRunStep DEF Graph!Step
<1> QED BY <1>5, <1>6

LEMMA DecideFollows ==
    ASSUME Typed, AllInForm, NEW t \in Threads, Decide(t)
    PROVE  Graph!Next /\ AllInForm'
<1>1. th[t] \in ThreadState
  BY DEF Typed, TypeOK
<1>2. th[t].pc = "decide" /\ th[t].fuel > 0
  BY DEF Decide, AtNode
<1>3. /\ NodeName(th[t]) = "decide" /\ th[t].pc \in LockPcs \ {"unlock"}
      /\ {"decide", "step"} \subseteq NodePcs
  BY <1>2 DEF NodeName, LockPcs, NodePcs
<1>4. Graph!At(t, "decide")
  BY <1>3, AtRunNode
<1>5. CASE Decide(t)
  <2> DEFINE p == [th[t] EXCEPT !.pc = "step"]
             new == [Runs[t] EXCEPT !.node = "step"]
  <2>1. p \in ThreadState
    BY <1>1, <1>2 DEF ThreadState, RunPcs, LockPcs, NodePcs
  <2>2. /\ p.pc = "step" /\ p.status = th[t].status /\ p.pending = th[t].pending
        /\ p.cancel = th[t].cancel /\ p.error = th[t].error /\ p.replan = th[t].replan
        /\ p.fuel = th[t].fuel /\ p.raised = th[t].raised
    BY <1>1 DEF ThreadState
  <2>3. /\ new = [f \in RunFields |-> new[f]]
        /\ new.node = "step" /\ new.status = th[t].status /\ new.pending = th[t].pending
        /\ new.cancel = th[t].cancel /\ new.error = th[t].error /\ new.replan = th[t].replan
    BY <1>3, InsideRun DEF RunFields
  <2>4. Advance(t, p)
    BY <1>5 DEF Decide
  <2>5. Graph!Becomes(t, new) => Graph!Decide(t)
    BY <1>2, <1>3, <1>4, <1>5, InsideRun DEF Graph!Decide
  <2> HIDE DEF p, new
  <2>6. Graph!Becomes(t, new) /\ AllInForm'
    <3>1. /\ new.node = p.pc /\ new.status = p.status /\ new.pending = p.pending
          /\ new.cancel = p.cancel /\ new.error = p.error /\ new.replan = p.replan
          /\ p.pc \in NodePcs /\ th[t].pc \in NodePcs
      BY <1>2, <1>3, <2>2, <2>3
    <3>2. new = [f \in RunFields |-> new[f]] /\ p.fuel = th[t].fuel /\ p.raised = th[t].raised
      BY <2>2, <2>3
    <3> QED BY <1>2, <2>1, <2>4, <3>1, <3>2, NodeBecomes
  <2> QED BY <2>5, <2>6, StepIsRunStep DEF Graph!Step
<1> QED BY <1>5

LEMMA SolverFollows ==
    ASSUME Typed, AllInForm, NEW t \in Threads, SolveError(t) \/ SolveCanceled(t) \/ Solve(t)
    PROVE  Graph!Next /\ AllInForm'
<1>1. th[t] \in ThreadState
  BY DEF Typed, TypeOK
<1>2. th[t].pc = "solve" /\ th[t].fuel > 0
  BY DEF SolveError, SolveCanceled, Solve, AtNode
<1>3. /\ NodeName(th[t]) = "solve" /\ th[t].pc \in LockPcs \ {"unlock"}
      /\ {"solve", "review"} \subseteq NodePcs
  BY <1>2 DEF NodeName, LockPcs, NodePcs
<1>4. Graph!At(t, "solve")
  BY <1>3, AtRunNode
<1>5. CASE SolveError(t)
  <2> DEFINE p == [th[t] EXCEPT !.pc = "review", !.status = "failed"]
             new == [Runs[t] EXCEPT !.node = "review", !.status = "failed"]
  <2>1. p \in ThreadState
    BY <1>1, <1>2 DEF ThreadState, RunPcs, LockPcs, NodePcs
  <2>2. /\ p.pc = "review" /\ p.status = "failed" /\ p.pending = th[t].pending
        /\ p.cancel = th[t].cancel /\ p.error = th[t].error /\ p.replan = th[t].replan
        /\ p.fuel = th[t].fuel /\ p.raised = th[t].raised
    BY <1>1 DEF ThreadState
  <2>3. /\ new = [f \in RunFields |-> new[f]]
        /\ new.node = "review" /\ new.status = "failed" /\ new.pending = th[t].pending
        /\ new.cancel = th[t].cancel /\ new.error = th[t].error /\ new.replan = th[t].replan
    BY <1>3, InsideRun DEF RunFields
  <2>4. Advance(t, p)
    BY <1>5 DEF SolveError
  <2>5. Graph!Becomes(t, new) => Graph!SolveError(t)
    BY <1>2, <1>3, <1>4, <1>5, InsideRun DEF SolveError, Graph!SolveError
  <2> HIDE DEF p, new
  <2>6. Graph!Becomes(t, new) /\ AllInForm'
    <3>1. /\ new.node = p.pc /\ new.status = p.status /\ new.pending = p.pending
          /\ new.cancel = p.cancel /\ new.error = p.error /\ new.replan = p.replan
          /\ p.pc \in NodePcs /\ th[t].pc \in NodePcs
      BY <1>2, <1>3, <2>2, <2>3
    <3>2. new = [f \in RunFields |-> new[f]] /\ p.fuel = th[t].fuel /\ p.raised = th[t].raised
      BY <2>2, <2>3
    <3> QED BY <1>2, <2>1, <2>4, <3>1, <3>2, NodeBecomes
  <2> QED BY <2>5, <2>6, StepIsRunStep DEF Graph!Step
<1>6. CASE SolveCanceled(t)
  <2> DEFINE p == [th[t] EXCEPT !.pc = "review", !.status = "canceled"]
             new == [Runs[t] EXCEPT !.node = "review", !.status = "canceled"]
  <2>1. p \in ThreadState
    BY <1>1, <1>2 DEF ThreadState, RunPcs, LockPcs, NodePcs
  <2>2. /\ p.pc = "review" /\ p.status = "canceled" /\ p.pending = th[t].pending
        /\ p.cancel = th[t].cancel /\ p.error = th[t].error /\ p.replan = th[t].replan
        /\ p.fuel = th[t].fuel /\ p.raised = th[t].raised
    BY <1>1 DEF ThreadState
  <2>3. /\ new = [f \in RunFields |-> new[f]]
        /\ new.node = "review" /\ new.status = "canceled" /\ new.pending = th[t].pending
        /\ new.cancel = th[t].cancel /\ new.error = th[t].error /\ new.replan = th[t].replan
    BY <1>3, InsideRun DEF RunFields
  <2>4. Advance(t, p)
    BY <1>6 DEF SolveCanceled
  <2>5. Graph!Becomes(t, new) => Graph!SolveCanceled(t)
    BY <1>2, <1>3, <1>4, <1>6, InsideRun DEF SolveCanceled, Graph!SolveCanceled
  <2> HIDE DEF p, new
  <2>6. Graph!Becomes(t, new) /\ AllInForm'
    <3>1. /\ new.node = p.pc /\ new.status = p.status /\ new.pending = p.pending
          /\ new.cancel = p.cancel /\ new.error = p.error /\ new.replan = p.replan
          /\ p.pc \in NodePcs /\ th[t].pc \in NodePcs
      BY <1>2, <1>3, <2>2, <2>3
    <3>2. new = [f \in RunFields |-> new[f]] /\ p.fuel = th[t].fuel /\ p.raised = th[t].raised
      BY <2>2, <2>3
    <3> QED BY <1>2, <2>1, <2>4, <3>1, <3>2, NodeBecomes
  <2> QED BY <2>5, <2>6, StepIsRunStep DEF Graph!Step
<1>7. CASE Solve(t)
  <2>0. PICK v \in {"success", "partial"} :
           Advance(t, [th[t] EXCEPT !.pc = "review", !.status = "running", !.pending = v])
    BY <1>7 DEF Solve
  <2> DEFINE p == [th[t] EXCEPT !.pc = "review", !.status = "running", !.pending = v]
             new == [Runs[t] EXCEPT !.node = "review", !.status = "running", !.pending = v]
  <2>1. p \in ThreadState
    BY <1>1, <1>2 DEF ThreadState, RunPcs, LockPcs, NodePcs
  <2>2. /\ p.pc = "review" /\ p.status = "running" /\ p.pending = v
        /\ p.cancel = th[t].cancel /\ p.error = th[t].error /\ p.replan = th[t].replan
        /\ p.fuel = th[t].fuel /\ p.raised = th[t].raised
    BY <1>1 DEF ThreadState
  <2>3. /\ new = [f \in RunFields |-> new[f]]
        /\ new.node = "review" /\ new.status = "running" /\ new.pending = v
        /\ new.cancel = th[t].cancel /\ new.error = th[t].error /\ new.replan = th[t].replan
    BY <1>3, InsideRun DEF RunFields
  <2>4. Advance(t, p)
    BY <2>0
  <2>5. Graph!Becomes(t, new) => Graph!Solve(t)
    BY <1>2, <1>3, <1>4, <1>7, InsideRun DEF Solve, Graph!Solve
  <2> HIDE DEF p, new
  <2>6. Graph!Becomes(t, new) /\ AllInForm'
    <3>1. /\ new.node = p.pc /\ new.status = p.status /\ new.pending = p.pending
          /\ new.cancel = p.cancel /\ new.error = p.error /\ new.replan = p.replan
          /\ p.pc \in NodePcs /\ th[t].pc \in NodePcs
      BY <1>2, <1>3, <2>2, <2>3
    <3>2. new = [f \in RunFields |-> new[f]] /\ p.fuel = th[t].fuel /\ p.raised = th[t].raised
      BY <2>2, <2>3
    <3> QED BY <1>2, <2>1, <2>4, <3>1, <3>2, NodeBecomes
  <2> QED BY <2>5, <2>6, StepIsRunStep DEF Graph!Step
<1> QED BY <1>5, <1>6, <1>7

LEMMA ReviewSendsBack ==
    ASSUME Typed, AllInForm, NEW t \in Threads, ReviewFails(t)
    PROVE  Graph!Next /\ AllInForm'
<1>1. th[t] \in ThreadState
  BY DEF Typed, TypeOK
<1>2. th[t].pc = "review" /\ th[t].fuel > 0
  BY DEF ReviewFails, AtNode
<1>3. /\ NodeName(th[t]) = "review" /\ th[t].pc \in LockPcs \ {"unlock"}
      /\ {"review", "plan"} \subseteq NodePcs
  BY <1>2 DEF NodeName, LockPcs, NodePcs
<1>4. Graph!At(t, "review")
  BY <1>3, AtRunNode
<1>5. CASE ReviewFails(t)
  <2> DEFINE p == [th[t] EXCEPT !.pc = "plan", !.replan = TRUE]
             new == [Runs[t] EXCEPT !.node = "plan", !.replan = TRUE]
  <2>1. p \in ThreadState
    BY <1>1, <1>2 DEF ThreadState, RunPcs, LockPcs, NodePcs
  <2>2. /\ p.pc = "plan" /\ p.status = th[t].status /\ p.pending = th[t].pending
        /\ p.cancel = th[t].cancel /\ p.error = th[t].error /\ p.replan = TRUE
        /\ p.fuel = th[t].fuel /\ p.raised = th[t].raised
    BY <1>1 DEF ThreadState
  <2>3. /\ new = [f \in RunFields |-> new[f]]
        /\ new.node = "plan" /\ new.status = th[t].status /\ new.pending = th[t].pending
        /\ new.cancel = th[t].cancel /\ new.error = th[t].error /\ new.replan = TRUE
    BY <1>3, InsideRun DEF RunFields
  <2>4. Advance(t, p)
    BY <1>5 DEF ReviewFails
  <2>5. Graph!Becomes(t, new) => Graph!ReviewFails(t)
    BY <1>2, <1>3, <1>4, <1>5, InsideRun DEF Graph!ReviewFails
  <2> HIDE DEF p, new
  <2>6. Graph!Becomes(t, new) /\ AllInForm'
    <3>1. /\ new.node = p.pc /\ new.status = p.status /\ new.pending = p.pending
          /\ new.cancel = p.cancel /\ new.error = p.error /\ new.replan = p.replan
          /\ p.pc \in NodePcs /\ th[t].pc \in NodePcs
      BY <1>2, <1>3, <2>2, <2>3
    <3>2. new = [f \in RunFields |-> new[f]] /\ p.fuel = th[t].fuel /\ p.raised = th[t].raised
      BY <2>2, <2>3
    <3> QED BY <1>2, <2>1, <2>4, <3>1, <3>2, NodeBecomes
  <2> QED BY <2>5, <2>6, StepIsRunStep DEF Graph!Step
<1> QED BY <1>5

\* The graph and its outline go to the same node with no step left.
LEMMA SameEnd ==
    ASSUME Typed, NEW t \in Threads, th[t].pc \in LockPcs \ {"unlock"}
    PROVE  WhenDone(t) = Graph!WhenDone(t) /\ WhenDone(t) \in {"plan", "solve"}
BY InsideRun DEF WhenDone, Graph!WhenDone

LEMMA NoStepFollows ==
    ASSUME Typed, AllInForm, NEW t \in Threads, NoStep(t) \/ StepCanceled(t)
    PROVE  Graph!Next /\ AllInForm'
<1>1. th[t] \in ThreadState
  BY DEF Typed, TypeOK
<1>2. th[t].pc = "step" /\ th[t].fuel > 0
  BY DEF NoStep, StepCanceled, AtNode
<1>3. /\ NodeName(th[t]) = "step" /\ th[t].pc \in LockPcs \ {"unlock"}
      /\ {"step", "plan", "solve"} \subseteq NodePcs
  BY <1>2 DEF NodeName, LockPcs, NodePcs
<1>4. Graph!At(t, "step")
  BY <1>3, AtRunNode
<1>5. WhenDone(t) = Graph!WhenDone(t) /\ WhenDone(t) \in {"plan", "solve"}
  BY <1>3, SameEnd
<1>6. CASE NoStep(t)
  <2> DEFINE p == [th[t] EXCEPT !.pc = WhenDone(t)]
             new == [Runs[t] EXCEPT !.node = Graph!WhenDone(t)]
  <2>1. p \in ThreadState
    BY <1>1, <1>2, <1>5 DEF ThreadState, RunPcs, LockPcs, NodePcs
  <2>2. /\ p.pc = WhenDone(t) /\ p.status = th[t].status /\ p.pending = th[t].pending
        /\ p.cancel = th[t].cancel /\ p.error = th[t].error /\ p.replan = th[t].replan
        /\ p.fuel = th[t].fuel /\ p.raised = th[t].raised
    BY <1>1 DEF ThreadState
  <2>3. /\ new = [f \in RunFields |-> new[f]]
        /\ new.node = Graph!WhenDone(t) /\ new.status = th[t].status /\ new.pending = th[t].pending
        /\ new.cancel = th[t].cancel /\ new.error = th[t].error /\ new.replan = th[t].replan
    BY <1>3, InsideRun DEF RunFields
  <2>4. Advance(t, p)
    BY <1>6 DEF NoStep
  <2>5. Graph!Becomes(t, new) => Graph!NoStep(t)
    BY <1>2, <1>3, <1>4, <1>6, InsideRun DEF Graph!NoStep
  <2> HIDE DEF p, new
  <2>6. Graph!Becomes(t, new) /\ AllInForm'
    <3>1. /\ new.node = p.pc /\ new.status = p.status /\ new.pending = p.pending
          /\ new.cancel = p.cancel /\ new.error = p.error /\ new.replan = p.replan
          /\ p.pc \in NodePcs /\ th[t].pc \in NodePcs
      BY <1>2, <1>3, <1>5, <2>2, <2>3
    <3>2. new = [f \in RunFields |-> new[f]] /\ p.fuel = th[t].fuel /\ p.raised = th[t].raised
      BY <2>2, <2>3
    <3> QED BY <1>2, <2>1, <2>4, <3>1, <3>2, NodeBecomes
  <2> QED BY <2>5, <2>6, StepIsRunStep DEF Graph!Step
<1>7. CASE StepCanceled(t)
  <2> DEFINE p == [th[t] EXCEPT !.pc = WhenDone(t), !.status = "canceled", !.cancel = TRUE]
             new == [Runs[t] EXCEPT !.node = Graph!WhenDone(t), !.status = "canceled",
                                    !.cancel = TRUE]
  <2>1. p \in ThreadState
    BY <1>1, <1>2, <1>5 DEF ThreadState, RunPcs, LockPcs, NodePcs
  <2>2. /\ p.pc = WhenDone(t) /\ p.status = "canceled" /\ p.pending = th[t].pending
        /\ p.cancel = TRUE /\ p.error = th[t].error /\ p.replan = th[t].replan
        /\ p.fuel = th[t].fuel /\ p.raised = th[t].raised
    BY <1>1 DEF ThreadState
  <2>3. /\ new = [f \in RunFields |-> new[f]]
        /\ new.node = Graph!WhenDone(t) /\ new.status = "canceled" /\ new.pending = th[t].pending
        /\ new.cancel = TRUE /\ new.error = th[t].error /\ new.replan = th[t].replan
    BY <1>3, InsideRun DEF RunFields
  <2>4. Advance(t, p)
    BY <1>7 DEF StepCanceled
  <2>5. Graph!Becomes(t, new) => Graph!StepsCanceled(t)
    BY <1>2, <1>3, <1>4, <1>7, InsideRun DEF Graph!StepsCanceled
  <2> HIDE DEF p, new
  <2>6. Graph!Becomes(t, new) /\ AllInForm'
    <3>1. /\ new.node = p.pc /\ new.status = p.status /\ new.pending = p.pending
          /\ new.cancel = p.cancel /\ new.error = p.error /\ new.replan = p.replan
          /\ p.pc \in NodePcs /\ th[t].pc \in NodePcs
      BY <1>2, <1>3, <1>5, <2>2, <2>3
    <3>2. new = [f \in RunFields |-> new[f]] /\ p.fuel = th[t].fuel /\ p.raised = th[t].raised
      BY <2>2, <2>3
    <3> QED BY <1>2, <2>1, <2>4, <3>1, <3>2, NodeBecomes
  <2> QED BY <2>5, <2>6, StepIsRunStep DEF Graph!Step
<1> QED BY <1>6, <1>7

\* A step that is to be repeated, in the outline.
LEMMA RepeatIs ==
    ASSUME NEW t \in Threads, Graph!At(t, "step"), ~Runs[t].cancel,
           NEW seen \in BOOLEAN, NEW again \in BOOLEAN,
           NEW pc, pc = IF again THEN "plan" ELSE "step",
           Graph!Becomes(t, [Runs[t] EXCEPT !.node = pc, !.cancel = seen, !.replan = again])
    PROVE  Graph!Repeat(t)
BY DEF Graph!Repeat

\* The executor's way into a tool shows in the rows and events only.
LEMMA ExecutorFollows ==
    ASSUME Typed, AllInForm, NEW t \in Threads,
           \/ StepNotCanceled(t) \/ BeginTool(t) \/ SkipTool(t)
           \/ RepeatStep(t) \/ FinishStep(t) \/ FinishCanceled(t)
    PROVE  (Graph!Next \/ Runs' = Runs) /\ AllInForm'
<1>1. th[t] \in ThreadState
  BY DEF Typed, TypeOK
<1>2. th[t].pc \in LockPcs \ {"unlock"} /\ NodeName(th[t]) = "step"
  BY DEF StepNotCanceled, BeginTool, SkipTool, RepeatStep, FinishStep, FinishCanceled, AtNode,
         NodeName, LockPcs, NodePcs
<1>3. Graph!At(t, "step")
  BY <1>2, AtRunNode
<1>4. /\ th[t].raised = FALSE
      /\ th[t].pc \in {"begin", "tool"} => th[t].cancel = FALSE /\ th[t].fuel < RecursionLimit
      /\ th[t].fuel \in 0..RecursionLimit /\ RecursionLimit \in Nat
  BY <1>1, <1>2, BoundAssumption DEF AllInForm, InForm, ThreadState
<1>5. WhenDone(t) = Graph!WhenDone(t) /\ WhenDone(t) \in {"plan", "solve"}
  BY <1>2, SameEnd
<1>6. th[t].pc \in {"begin", "tool"} => Runs[t].cancel = FALSE
  BY <1>2, <1>4, InsideRun
<1>7. CASE StepNotCanceled(t)
  <2> DEFINE r == [th[t] EXCEPT !.pc = "begin", !.fuel = @ - 1]
             new == Runs[t]
  <2>1. r \in ThreadState
    <3>1. th[t].fuel - 1 \in 0..RecursionLimit
      BY <1>4, <1>7 DEF StepNotCanceled, AtNode
    <3> QED BY <1>1, <3>1 DEF ThreadState, RunPcs, LockPcs
  <2>2. /\ r.status = th[t].status /\ r.pending = th[t].pending /\ r.cancel = FALSE
        /\ r.error = th[t].error /\ r.replan = th[t].replan
        /\ r.raised = FALSE /\ r.pc \in {"begin", "tool"} /\ r.fuel < RecursionLimit
        /\ th[t].cancel = FALSE
    BY <1>1, <1>2, <1>4, <1>7, BoundAssumption DEF StepNotCanceled, AtNode, ThreadState
  <2>3. Become(t, r)
    BY <1>1, <1>7 DEF StepNotCanceled, Advance, ThreadState
  <2> HIDE DEF r
  <2>4. InForm(r) /\ r.pc \in LockPcs \ {"unlock"}
    BY <2>2 DEF InForm, LockPcs, NodePcs
  <2>5. NodeName(r) = new.node
    BY <1>2, <1>3, <2>2 DEF NodeName, Graph!At
  <2>6. /\ new = [f \in RunFields |-> new[f]]
        /\ new.status = r.status /\ new.pending = r.pending
        /\ new.cancel = r.cancel /\ new.error = r.error /\ new.replan = r.replan
    BY <1>2, <2>2, InsideRun
  <2> HIDE DEF new
  <2>7. Graph!Becomes(t, new) /\ AllInForm'
    BY <2>1, <2>3, <2>4, <2>5, <2>6, RunBecomes
  <2> QED BY <2>7, SameRuns DEF new
<1>8. CASE BeginTool(t)
  <2> DEFINE r == [th[t] EXCEPT !.pc = "tool", !.seen = published]
             new == Runs[t]
  <2>1. r \in ThreadState
    BY <1>1, <1>2, <1>8, BoundAssumption DEF BeginTool, ThreadState, RunPcs, LockPcs,
       Typed, TypeOK
  <2>2. /\ r.status = th[t].status /\ r.pending = th[t].pending /\ r.cancel = FALSE
        /\ r.error = th[t].error /\ r.replan = th[t].replan
        /\ r.raised = FALSE /\ r.pc \in {"begin", "tool"} /\ r.fuel < RecursionLimit
        /\ th[t].cancel = FALSE
    BY <1>1, <1>2, <1>4, <1>8, BoundAssumption DEF BeginTool, AtNode, ThreadState
  <2>3. Become(t, r)
    BY <1>1, <1>8 DEF BeginTool, Advance, ThreadState
  <2> HIDE DEF r
  <2>4. InForm(r) /\ r.pc \in LockPcs \ {"unlock"}
    BY <2>2 DEF InForm, LockPcs, NodePcs
  <2>5. NodeName(r) = new.node
    BY <1>2, <1>3, <2>2 DEF NodeName, Graph!At
  <2>6. /\ new = [f \in RunFields |-> new[f]]
        /\ new.status = r.status /\ new.pending = r.pending
        /\ new.cancel = r.cancel /\ new.error = r.error /\ new.replan = r.replan
    BY <1>2, <2>2, InsideRun
  <2> HIDE DEF new
  <2>7. Graph!Becomes(t, new) /\ AllInForm'
    BY <2>1, <2>3, <2>4, <2>5, <2>6, RunBecomes
  <2> QED BY <2>7, SameRuns DEF new
<1>9. CASE SkipTool(t)
  <2> DEFINE r == [th[t] EXCEPT !.pc = "plan", !.cancel = TRUE, !.replan = TRUE]
             new == [Runs[t] EXCEPT !.node = "plan", !.cancel = TRUE, !.replan = TRUE]
  <2>1. r \in ThreadState
    BY <1>1, <1>2 DEF ThreadState, RunPcs, LockPcs, NodePcs
  <2>2. /\ r.pc = "plan" /\ r.status = th[t].status /\ r.pending = th[t].pending
        /\ r.cancel = TRUE /\ r.error = th[t].error /\ r.replan = TRUE
        /\ r.fuel = th[t].fuel /\ r.raised = th[t].raised
    BY <1>1 DEF ThreadState
  <2>3. /\ new = [f \in RunFields |-> new[f]]
        /\ new.node = "plan" /\ new.status = th[t].status /\ new.pending = th[t].pending
        /\ new.cancel = TRUE /\ new.error = th[t].error /\ new.replan = TRUE
    BY <1>2, InsideRun DEF RunFields
  <2>4. Become(t, r)
    BY <1>9 DEF SkipTool
  <2>5. Graph!Becomes(t, new) => Graph!Repeat(t)
    BY <1>3, <1>6, <1>9, RepeatIs DEF SkipTool
  <2> HIDE DEF r, new
  <2>6. InForm(r) /\ r.pc \in LockPcs \ {"unlock"}
    BY <1>2, <1>4, <1>9, <2>2 DEF SkipTool, InForm, LockPcs, NodePcs
  <2>7. NodeName(r) = new.node
    BY <2>2, <2>3 DEF NodeName
  <2>8. Graph!Becomes(t, new) /\ AllInForm'
    <3>1. /\ new.status = r.status /\ new.pending = r.pending
          /\ new.cancel = r.cancel /\ new.error = r.error /\ new.replan = r.replan
      BY <2>2, <2>3
    <3>2. new = [f \in RunFields |-> new[f]]
      BY <2>3
    <3> QED BY <2>1, <2>4, <2>6, <2>7, <3>1, <3>2, RunBecomes
  <2> QED BY <2>5, <2>8, StepIsRunStep DEF Graph!Step
<1>10. CASE RepeatStep(t)
  <2>0. PICK c \in BOOLEAN, again \in BOOLEAN :
           Become(t, [th[t] EXCEPT !.pc = IF again THEN "plan" ELSE "step",
                                   !.seen = None, !.cancel = c, !.replan = again])
    <3>1. PICK c \in BOOLEAN, pc \in {"step", "plan"} :
             Become(t, [th[t] EXCEPT !.pc = pc, !.seen = None, !.cancel = c,
                                     !.replan = (pc = "plan")])
      BY <1>1, <1>10 DEF RepeatStep, Signalled, ThreadState
    <3>2. CASE pc = "plan"
      BY <3>1, <3>2
    <3>3. CASE pc = "step"
      BY <3>1, <3>3
    <3> QED BY <3>2, <3>3
  <2> DEFINE pc == IF again THEN "plan" ELSE "step"
  <2> DEFINE r == [th[t] EXCEPT !.pc = pc, !.seen = None, !.cancel = c, !.replan = again]
             new == [Runs[t] EXCEPT !.node = pc, !.cancel = c, !.replan = again]
  <2>1. r \in ThreadState
    BY <1>1, <1>2 DEF ThreadState, RunPcs, LockPcs, NodePcs
  <2>2. /\ r.pc = pc /\ r.status = th[t].status /\ r.pending = th[t].pending
        /\ r.cancel = c /\ r.error = th[t].error /\ r.replan = again
        /\ r.fuel = th[t].fuel /\ r.raised = th[t].raised
    BY <1>1 DEF ThreadState
  <2>3. /\ new = [f \in RunFields |-> new[f]]
        /\ new.node = pc /\ new.status = th[t].status /\ new.pending = th[t].pending
        /\ new.cancel = c /\ new.error = th[t].error /\ new.replan = again
    BY <1>2, InsideRun DEF RunFields
  <2>4. Become(t, r)
    BY <2>0
  <2>5. Graph!Becomes(t, new) => Graph!Repeat(t)
    BY <1>3, <1>10, <1>6, RepeatIs DEF RepeatStep
  <2> HIDE DEF r, new
  <2>6. InForm(r) /\ r.pc \in LockPcs \ {"unlock"}
    BY <1>2, <1>4, <1>10, <2>2 DEF RepeatStep, InForm, LockPcs, NodePcs
  <2>7. NodeName(r) = new.node
    BY <2>2, <2>3 DEF NodeName
  <2>8. Graph!Becomes(t, new) /\ AllInForm'
    <3>1. /\ new.status = r.status /\ new.pending = r.pending
          /\ new.cancel = r.cancel /\ new.error = r.error /\ new.replan = r.replan
      BY <2>2, <2>3
    <3>2. new = [f \in RunFields |-> new[f]]
      BY <2>3
    <3> QED BY <2>1, <2>4, <2>6, <2>7, <3>1, <3>2, RunBecomes
  <2> QED BY <2>5, <2>8, StepIsRunStep DEF Graph!Step
<1>11. CASE FinishStep(t)
  <2>0. PICK pc \in {"step", "solve"} :
           Become(t, [th[t] EXCEPT !.pc = pc, !.seen = None, !.replan = FALSE])
    BY <1>11 DEF FinishStep
  <2> DEFINE r == [th[t] EXCEPT !.pc = pc, !.seen = None, !.replan = FALSE]
             new == [Runs[t] EXCEPT !.node = pc, !.replan = FALSE]
  <2>1. r \in ThreadState
    BY <1>1, <1>2 DEF ThreadState, RunPcs, LockPcs, NodePcs
  <2>2. /\ r.pc = pc /\ r.status = th[t].status /\ r.pending = th[t].pending
        /\ r.cancel = th[t].cancel /\ r.error = th[t].error /\ r.replan = FALSE
        /\ r.fuel = th[t].fuel /\ r.raised = th[t].raised
    BY <1>1 DEF ThreadState
  <2>3. /\ new = [f \in RunFields |-> new[f]]
        /\ new.node = pc /\ new.status = th[t].status /\ new.pending = th[t].pending
        /\ new.cancel = th[t].cancel /\ new.error = th[t].error /\ new.replan = FALSE
    BY <1>2, InsideRun DEF RunFields
  <2>4. Become(t, r)
    BY <2>0
  <2>5. Graph!Becomes(t, new) => Graph!FinishStep(t)
    BY <1>2, <1>3, <1>11, InsideRun DEF FinishStep, Graph!FinishStep
  <2> HIDE DEF r, new
  <2>6. InForm(r) /\ r.pc \in LockPcs \ {"unlock"}
    BY <1>2, <1>4, <1>11, <2>2 DEF FinishStep, InForm, LockPcs, NodePcs
  <2>7. NodeName(r) = new.node
    BY <2>2, <2>3 DEF NodeName
  <2>8. Graph!Becomes(t, new) /\ AllInForm'
    <3>1. /\ new.status = r.status /\ new.pending = r.pending
          /\ new.cancel = r.cancel /\ new.error = r.error /\ new.replan = r.replan
      BY <2>2, <2>3
    <3>2. new = [f \in RunFields |-> new[f]]
      BY <2>3
    <3> QED BY <2>1, <2>4, <2>6, <2>7, <3>1, <3>2, RunBecomes
  <2> QED BY <2>5, <2>8, StepIsRunStep DEF Graph!Step
<1>12. CASE FinishCanceled(t)
  <2> DEFINE r == [th[t] EXCEPT !.pc = WhenDone(t), !.seen = None, !.status = "canceled",
                                !.cancel = TRUE]
             new == [Runs[t] EXCEPT !.node = Graph!WhenDone(t), !.status = "canceled",
                                    !.cancel = TRUE]
  <2>1. r \in ThreadState
    BY <1>1, <1>2, <1>5 DEF ThreadState, RunPcs, LockPcs, NodePcs
  <2>2. /\ r.pc = WhenDone(t) /\ r.status = "canceled" /\ r.pending = th[t].pending
        /\ r.cancel = TRUE /\ r.error = th[t].error /\ r.replan = th[t].replan
        /\ r.fuel = th[t].fuel /\ r.raised = th[t].raised
    BY <1>1 DEF ThreadState
  <2>3. /\ new = [f \in RunFields |-> new[f]]
        /\ new.node = Graph!WhenDone(t) /\ new.status = "canceled" /\ new.pending = th[t].pending
        /\ new.cancel = TRUE /\ new.error = th[t].error /\ new.replan = th[t].replan
    BY <1>2, InsideRun DEF RunFields
  <2>4. Become(t, r)
    BY <1>12 DEF FinishCanceled
  <2>5. Graph!Becomes(t, new) => Graph!StepsCanceled(t)
    BY <1>2, <1>3, <1>12, <1>4, InsideRun DEF FinishCanceled, Graph!StepsCanceled
  <2> HIDE DEF r, new
  <2>6. InForm(r) /\ r.pc \in LockPcs \ {"unlock"}
    BY <1>2, <1>4, <1>12, <2>2, <1>5 DEF FinishCanceled, InForm, LockPcs, NodePcs
  <2>7. NodeName(r) = new.node
    BY <2>2, <2>3, <1>5 DEF NodeName
  <2>8. Graph!Becomes(t, new) /\ AllInForm'
    <3>1. /\ new.status = r.status /\ new.pending = r.pending
          /\ new.cancel = r.cancel /\ new.error = r.error /\ new.replan = r.replan
      BY <2>2, <2>3
    <3>2. new = [f \in RunFields |-> new[f]]
      BY <2>3
    <3> QED BY <2>1, <2>4, <2>6, <2>7, <3>1, <3>2, RunBecomes
  <2> QED BY <2>5, <2>8, StepIsRunStep DEF Graph!Step
<1> QED BY <1>7, <1>8, <1>9, <1>10, <1>11, <1>12

\* The run's end: the review settles what was pending.
LEMMA ReviewEndFollows ==
    ASSUME Typed, AllInForm, NEW t \in Threads, ReviewEnds(t)
    PROVE  Graph!Next /\ AllInForm'
<1> DEFINE r == [th[t] EXCEPT !.pc = "unlock", !.fuel = @ - 1]
           a == RunOf(r)
           new == [Runs[t] EXCEPT !.node = "over", !.pending = "none", !.replan = FALSE,
                                  !.status = IF Runs[t].pending = "none" THEN @
                                                                         ELSE Runs[t].pending]
<1>1. th[t] \in ThreadState /\ th[t].pc = "review" /\ th[t].fuel > 0
  BY DEF Typed, TypeOK, ReviewEnds, AtNode
<1>2. /\ th[t].pc \in LockPcs \ {"unlock"} /\ NodeName(th[t]) = "review"
      /\ th[t].raised = FALSE
  BY <1>1 DEF LockPcs, NodePcs, NodeName, AllInForm, InForm
<1>3. r \in ThreadState
  <2>1. th[t].fuel - 1 \in 0..RecursionLimit
    BY <1>1, BoundAssumption DEF ThreadState
  <2> QED BY <1>1, <2>1 DEF ThreadState, RunPcs, LockPcs
<1>4. /\ r.pc = "unlock" /\ r.raised = FALSE /\ r.status = th[t].status
      /\ r.pending = th[t].pending /\ r.cancel = th[t].cancel /\ r.error = th[t].error
  BY <1>1, <1>2 DEF ThreadState
<1>5. Become(t, r)
  BY <1>1 DEF ReviewEnds, Advance, ThreadState
<1>6. /\ new = [f \in RunFields |-> new[f]]
      /\ new.node = "over" /\ new.pending = "none" /\ new.replan = FALSE
      /\ new.status = IF th[t].pending # "none" THEN th[t].pending ELSE th[t].status
      /\ new.cancel = th[t].cancel /\ new.error = th[t].error
  BY <1>2, InsideRun DEF RunFields
<1>7. Graph!Becomes(t, new) => Graph!ReviewEnds(t)
  BY <1>2, AtRunNode DEF Graph!ReviewEnds
<1> HIDE DEF r, new
<1>8. /\ a = [f \in RunFields |-> a[f]]
      /\ a.node = "over" /\ a.pending = "none" /\ a.replan = FALSE
      /\ a.status = IF th[t].pending # "none" THEN th[t].pending ELSE th[t].status
      /\ a.cancel = th[t].cancel /\ a.error = th[t].error
  BY <1>3, <1>4, SettledFields
<1>9. InForm(r) /\ r.pc \in LockPcs
  BY <1>4 DEF InForm, LockPcs, NodePcs
<1>10. Graph!Becomes(t, a) /\ AllInForm'
  BY <1>5, <1>9, RunChanges
<1> HIDE DEF a
<1>11. a = new
  <2>1. \A f \in RunFields : a[f] = new[f]
    BY <1>6, <1>8 DEF RunFields
  <2> QED BY <1>6, <1>8, <2>1
<1> QED BY <1>7, <1>10, <1>11, StepIsRunStep DEF Graph!Step

\* A node that raises, or the recursion limit.
LEMMA RaiseFollows ==
    ASSUME Typed, AllInForm, NEW t \in Threads, Raise(t)
    PROVE  Graph!Next /\ AllInForm'
<1> DEFINE r == [th[t] EXCEPT !.pc = "unlock", !.raised = TRUE]
           a == RunOf(r)
           new == [Runs[t] EXCEPT !.node = "over"]
<1>1. th[t] \in ThreadState /\ th[t].pc \in NodePcs
  BY DEF Typed, TypeOK, Raise, NodePcs
<1>2. th[t].pc \in LockPcs \ {"unlock"} /\ NodeName(th[t]) = th[t].pc
  BY <1>1 DEF LockPcs, NodePcs, NodeName
<1>3. r \in ThreadState
  BY <1>1 DEF ThreadState, RunPcs, LockPcs
<1>4. /\ r.pc = "unlock" /\ r.raised = TRUE /\ r.status = th[t].status
      /\ r.pending = th[t].pending /\ r.cancel = th[t].cancel /\ r.error = th[t].error
      /\ r.replan = th[t].replan
  BY <1>1 DEF ThreadState
<1>5. Become(t, r)
  BY DEF Raise
<1>6. /\ new = [f \in RunFields |-> new[f]]
      /\ new.node = "over" /\ new.status = th[t].status /\ new.pending = th[t].pending
      /\ new.cancel = th[t].cancel /\ new.error = th[t].error /\ new.replan = th[t].replan
  BY <1>2, InsideRun DEF RunFields
<1>7. Graph!Becomes(t, new) => Graph!Raise(t)
  BY <1>1, <1>2, InsideRun DEF Graph!Raise, Graph!Nodes, NodePcs
<1> HIDE DEF r, new
<1>8. /\ a = [f \in RunFields |-> a[f]]
      /\ a.node = "over" /\ a.status = th[t].status /\ a.pending = th[t].pending
      /\ a.cancel = th[t].cancel /\ a.error = th[t].error /\ a.replan = th[t].replan
  <2>1. NodeName(r) = "over"
    BY <1>4 DEF NodeName
  <2> QED BY <1>3, <1>4, <2>1, RunFieldsOf
<1>9. InForm(r) /\ r.pc \in LockPcs
  BY <1>4 DEF InForm, LockPcs, NodePcs
<1>10. Graph!Becomes(t, a) /\ AllInForm'
  BY <1>5, <1>9, RunChanges
<1> HIDE DEF a
<1>11. a = new
  <2>1. \A f \in RunFields : a[f] = new[f]
    BY <1>6, <1>8 DEF RunFields
  <2> QED BY <1>6, <1>8, <2>1
<1> QED BY <1>7, <1>10, <1>11, StepIsRunStep

\* A thread at the planner that has every superstep has the run it began.
LEMMA FreshRun ==
    ASSUME NEW r \in ThreadState, r.pc = "plan", Untouched(r)
    PROVE  RunOf(r) = Graph!Fresh
<1> DEFINE a == RunOf(r)
           b == Graph!Fresh
<1>1. NodeName(r) = "plan" /\ r.pc # "unlock"
  BY DEF NodeName
<1>2. /\ a = [f \in RunFields |-> a[f]]
      /\ a.node = "plan" /\ a.status = "running" /\ a.pending = "none"
      /\ a.cancel = FALSE /\ a.error = FALSE /\ a.replan = FALSE
  BY <1>1, RunFieldsOf DEF Untouched
<1>3. /\ b = [f \in RunFields |-> b[f]]
      /\ b.node = "plan" /\ b.status = "running" /\ b.pending = "none"
      /\ b.cancel = FALSE /\ b.error = FALSE /\ b.replan = FALSE
  BY FreshFields
<1> HIDE DEF a, b
<1>4. \A f \in RunFields : a[f] = b[f]
  BY <1>2, <1>3 DEF RunFields
<1>5. a = b
  BY <1>2, <1>3, <1>4
<1> QED BY <1>5 DEF a, b

\* An answer without the graph.
LEMMA DirectAnswerFollows ==
    ASSUME Typed, AllInForm, NEW t \in Threads, AnswerDirectly(t)
    PROVE  Graph!Next /\ AllInForm'
<1> DEFINE r == [th[t] EXCEPT !.pc = "unlock"]
           a == RunOf(r)
           new == [Runs[t] EXCEPT !.node = "over"]
<1>1. th[t] \in ThreadState /\ th[t].pc = "plan" /\ Untouched(th[t])
  BY DEF Typed, TypeOK, AnswerDirectly, AllInForm, InForm
<1>2. th[t].pc \in LockPcs \ {"unlock"} /\ NodeName(th[t]) = "plan"
  BY <1>1 DEF LockPcs, NodePcs, NodeName
<1>3. r \in ThreadState
  BY <1>1 DEF ThreadState, RunPcs, LockPcs
<1>4. /\ r.pc = "unlock" /\ r.raised = FALSE /\ r.status = "running"
      /\ r.pending = "none" /\ r.cancel = FALSE /\ r.error = FALSE
  BY <1>1 DEF ThreadState, Untouched
<1>5. Become(t, r)
  BY DEF AnswerDirectly, Goto
<1>6. /\ new = [f \in RunFields |-> new[f]]
      /\ new.node = "over" /\ new.status = "running" /\ new.pending = "none"
      /\ new.cancel = FALSE /\ new.error = FALSE /\ new.replan = FALSE
  BY <1>1, <1>2, InsideRun DEF RunFields, Untouched
<1>7. Graph!Becomes(t, new) => Graph!AnswerDirectly(t)
  <2>1. Runs[t] = Graph!Fresh
    BY <1>1, <1>2, IdleRun, FreshRun
  <2> QED BY <2>1 DEF Graph!AnswerDirectly
<1> HIDE DEF r, new
<1>8. /\ a = [f \in RunFields |-> a[f]]
      /\ a.node = "over" /\ a.status = "running" /\ a.pending = "none"
      /\ a.cancel = FALSE /\ a.error = FALSE /\ a.replan = FALSE
  BY <1>3, <1>4, SettledFields
<1>9. InForm(r) /\ r.pc \in LockPcs
  BY <1>4 DEF InForm, LockPcs, NodePcs
<1>10. Graph!Becomes(t, a) /\ AllInForm'
  BY <1>5, <1>9, RunChanges
<1> HIDE DEF a
<1>11. a = new
  <2>1. \A f \in RunFields : a[f] = new[f]
    BY <1>6, <1>8 DEF RunFields
  <2> QED BY <1>6, <1>8, <2>1
<1> QED BY <1>7, <1>10, <1>11, StepIsRunStep

\* The execution lock is taken: all other runs are over.
LEMMA AcquireFollows ==
    ASSUME Typed, OneGraphRun, AllInForm, NEW t \in Threads, Acquire(t)
    PROVE  Graph!Next /\ AllInForm'
<1> DEFINE r == [th[t] EXCEPT !.pc = "plan"]
<1>1. th[t] \in ThreadState /\ th[t].pc = "lock" /\ Untouched(th[t])
  BY DEF Typed, TypeOK, Acquire, AllInForm, InForm, LockPcs, NodePcs
<1>2. r \in ThreadState
  BY <1>1 DEF ThreadState, RunPcs, LockPcs, NodePcs
<1>3. r.pc = "plan" /\ Untouched(r)
  BY <1>1 DEF ThreadState, Untouched
<1>4. Become(t, r)
  BY DEF Acquire, Goto
<1>5. \A q \in Threads : Runs[q] = Graph!Idle
  <2>1. \A q \in Threads : th[q].pc \notin LockPcs
    BY ThreadAssumption DEF Acquire, OneGraphRun
  <2> QED BY <2>1, IdleRun
<1> HIDE DEF r
<1>6. InForm(r) /\ r.pc \in LockPcs
  BY <1>3 DEF InForm, LockPcs, NodePcs, Untouched
<1>7. RunOf(r) = Graph!Fresh
  BY <1>2, <1>3, FreshRun
<1>8. Graph!Becomes(t, Graph!Fresh) /\ AllInForm'
  BY <1>4, <1>6, <1>7, RunChanges
<1> QED BY <1>5, <1>8, StepIsRunStep DEF Graph!Begin

\* And given back.
LEMMA ReleaseFollows ==
    ASSUME Typed, AllInForm, NEW t \in Threads, Release(t)
    PROVE  Graph!Next /\ AllInForm'
<1> DEFINE r == [th[t] EXCEPT !.pc = "retract"]
<1>1. th[t] \in ThreadState /\ th[t].pc = "unlock"
  BY DEF Typed, TypeOK, Release
<1>2. r.pc = "retract"
  BY <1>1 DEF ThreadState
<1>3. Become(t, r)
  BY DEF Release, Goto
<1> HIDE DEF r
<1>4. InForm(r) /\ r.pc \notin LockPcs
  BY <1>2 DEF InForm, LockPcs, NodePcs
<1>5. Graph!Becomes(t, Graph!Idle) /\ AllInForm'
  BY <1>3, <1>4, RunChanges
<1>6. Graph!At(t, "over")
  <2>1. th[t].pc \in LockPcs /\ NodeName(th[t]) = "over"
    BY <1>1 DEF LockPcs, NodeName
  <2>2. Runs[t] = RunOf(th[t])
    BY <2>1, IdleRun
  <2>3. RunOf(th[t]).node = NodeName(th[t])
    BY DEF RunOf
  <2> QED BY <2>1, <2>2, <2>3 DEF Graph!At
<1> QED BY <1>5, <1>6, StepIsRunStep DEF Graph!Leave

\* A step outside the lock that moves the thread, and may change its task.
LEMMA OutsideMove ==
    ASSUME Typed, AllInForm, NEW t \in Threads, NEW r \in ThreadState, Become(t, r),
           th[t].pc \notin LockPcs, r.pc \notin LockPcs,
           th[t].pc \in {"retract", "settle", "finish", "pop"} => r.pc \in {"retract", "settle", "finish", "pop"},
           r.status = th[t].status, r.pending = th[t].pending, r.cancel = th[t].cancel,
           r.error = th[t].error, r.replan = th[t].replan, r.raised = th[t].raised,
           r.fuel = th[t].fuel
    PROVE  Runs' = Runs /\ AllInForm'
<1>1. InForm(th[t])
  BY DEF AllInForm
<1>2. InForm(r)
  BY <1>1 DEF InForm, Untouched, LockPcs, NodePcs
<1> QED BY <1>2, OutsideStep

\* The forms of such a step.
LEMMA OutsideGoto ==
    ASSUME Typed, AllInForm, NEW t \in Threads, NEW pc, NEW k \in Tasks \cup {None},
           pc \in ({"idle"} \cup RunPcs \cup RequestPcs) \ LockPcs, th[t].pc \notin LockPcs,
           th[t].pc \in {"retract", "settle", "finish", "pop"} => pc \in {"retract", "settle", "finish", "pop"},
           \/ Goto(t, pc)
           \/ Become(t, [th[t] EXCEPT !.pc = pc, !.task = k])
    PROVE  Runs' = Runs /\ AllInForm'
<1>1. th[t] \in ThreadState
  BY DEF Typed, TypeOK
<1>2. CASE Goto(t, pc)
  <2> DEFINE r == [th[t] EXCEPT !.pc = pc]
  <2>1. r \in ThreadState
    BY <1>1 DEF ThreadState
  <2>2. /\ r.pc = pc /\ r.status = th[t].status /\ r.pending = th[t].pending
        /\ r.cancel = th[t].cancel /\ r.error = th[t].error /\ r.replan = th[t].replan
        /\ r.raised = th[t].raised /\ r.fuel = th[t].fuel
    BY <1>1 DEF ThreadState
  <2>3. Become(t, r)
    BY <1>2 DEF Goto
  <2> HIDE DEF r
  <2> QED BY <2>1, <2>2, <2>3, OutsideMove
<1>3. CASE Become(t, [th[t] EXCEPT !.pc = pc, !.task = k])
  <2> DEFINE r == [th[t] EXCEPT !.pc = pc, !.task = k]
  <2>1. r \in ThreadState
    BY <1>1 DEF ThreadState
  <2>2. /\ r.pc = pc /\ r.status = th[t].status /\ r.pending = th[t].pending
        /\ r.cancel = th[t].cancel /\ r.error = th[t].error /\ r.replan = th[t].replan
        /\ r.raised = th[t].raised /\ r.fuel = th[t].fuel
    BY <1>1 DEF ThreadState
  <2>3. Become(t, r)
    BY <1>3
  <2> HIDE DEF r
  <2> QED BY <2>1, <2>2, <2>3, OutsideMove
<1> QED BY <1>2, <1>3

LEMMA OutsideRest ==
    ASSUME Typed, AllInForm, NEW t \in Threads, th[t].pc \notin LockPcs, Rest(t)
    PROVE  Runs' = Runs /\ AllInForm'
<1> DEFINE r == IdleThread
<1>1. r.pc \notin LockPcs /\ InForm(r)
  BY DEF IdleThread, InForm, Untouched, LockPcs, NodePcs
<1>2. Become(t, r)
  BY DEF Rest
<1> HIDE DEF r
<1> QED BY <1>1, <1>2, OutsideStep

\* No other step touches a run.
LEMMA OthersFollow ==
    ASSUME Typed, AllInForm,
           \/ Request \/ RequestStep
           \/ \E w \in Workers : WorkerStep(w)
           \/ \E t \in Threads : Publish(t) \/ Retract(t)
    PROVE  Runs' = Runs /\ AllInForm'
<1>1. /\ Api \in Threads /\ \A w \in Workers : w \in Threads
      /\ None \in Tasks \cup {None} /\ \A k \in Tasks : k \in Tasks \cup {None}
  BY DEF Threads
<1>2. /\ {"idle", "saved", "queued", "checked", "flag", "closing", "clear", "publish", "lock",
          "retract", "settle", "finish", "pop"} \subseteq ({"idle"} \cup RunPcs \cup RequestPcs) \ LockPcs
      /\ RunnerLockPcs \subseteq RequestPcs
  BY DEF RunPcs, RequestPcs, LockPcs, NodePcs, RunnerLockPcs
<1>3. CASE Request
  <2>1. ApiIdle
    BY <1>3 DEF Request, Submit, ReadSource, CancelRunning, CancelUnknown, StartChat, Shutdown
  <2>2. th[Api].pc = "idle"
    BY <2>1 DEF ApiIdle
  <2>3. CASE \E k \in Tasks : CancelUnknown(k)
    <3>1. th' = th
      BY <2>3 DEF CancelUnknown
    <3> QED BY <3>1 DEF Runs, AllInForm, InForm, Untouched
  <2>4. ASSUME NEW k \in Tasks, Submit(k) PROVE Runs' = Runs /\ AllInForm'
    <3>1. Become(Api, [th[Api] EXCEPT !.pc = "saved", !.task = k])
      BY <2>4 DEF Submit
    <3> QED BY <1>1, <1>2, <2>2, <3>1, OutsideGoto
  <2>5. ASSUME NEW k \in Tasks, ReadSource(k) PROVE Runs' = Runs /\ AllInForm'
    <3>1. Become(Api, [th[Api] EXCEPT !.pc = "checked", !.task = k])
      BY <2>5 DEF ReadSource
    <3> QED BY <1>1, <1>2, <2>2, <3>1, OutsideGoto
  <2>6. ASSUME NEW k \in Tasks, CancelRunning(k) PROVE Runs' = Runs /\ AllInForm'
    <3>1. Become(Api, [th[Api] EXCEPT !.pc = "flag", !.task = k])
      BY <2>6 DEF CancelRunning
    <3> QED BY <1>1, <1>2, <2>2, <3>1, OutsideGoto
  <2>7. ASSUME NEW k \in Tasks, StartChat(k) PROVE Runs' = Runs /\ AllInForm'
    <3>1. Become(Api, [th[Api] EXCEPT !.pc = "publish", !.task = k])
      BY <2>7 DEF StartChat
    <3> QED BY <1>1, <1>2, <2>2, <3>1, OutsideGoto
  <2>8. CASE Shutdown
    <3>1. Goto(Api, "closing")
      BY <2>8 DEF Shutdown
    <3> QED BY <1>1, <1>2, <2>2, <3>1, OutsideGoto
  <2> QED BY <1>3, <2>3, <2>4, <2>5, <2>6, <2>7, <2>8 DEF Request
<1>4. CASE RequestStep
  <2>1. th[Api].pc \in {"checked", "saved", "queued", "flag", "closing"}
    BY <1>4 DEF RequestStep, SubmitCopy, RefuseCopy, Enqueue, MarkRunning, FlagCanceled,
                CloseDatabase
  <2>2. th[Api].pc \notin LockPcs /\ th[Api].pc \notin {"retract", "settle", "finish", "pop"}
    BY <1>2, <2>1
  <2>3. ASSUME NEW k \in Tasks, SubmitCopy(k) PROVE Runs' = Runs /\ AllInForm'
    <3>1. Become(Api, [th[Api] EXCEPT !.pc = "saved", !.task = k])
      BY <2>3 DEF SubmitCopy
    <3> QED BY <1>1, <1>2, <2>2, <3>1, OutsideGoto
  <2>4. CASE Enqueue
    <3>1. Goto(Api, "queued")
      BY <2>4 DEF Enqueue
    <3> QED BY <1>1, <1>2, <2>2, <3>1, OutsideGoto
  <2>5. CASE RefuseCopy \/ MarkRunning \/ FlagCanceled \/ CloseDatabase
    <3>1. Rest(Api)
      BY <2>5 DEF RefuseCopy, MarkRunning, FlagCanceled, CloseDatabase
    <3> QED BY <1>1, <2>2, <3>1, OutsideRest
  <2> QED BY <1>4, <2>3, <2>4, <2>5 DEF RequestStep
<1>5. ASSUME NEW w \in Workers, WorkerStep(w) PROVE Runs' = Runs /\ AllInForm'
  <2>1. w \in Threads /\ th[w].pc \notin LockPcs
    BY <1>1, <1>5 DEF WorkerStep, Take, ClearFlag, Settle, Finish, Pop, LockPcs, NodePcs
  <2>2. CASE Take(w)
    <3>1. Head(queue) \in Tasks
      BY <2>2 DEF Take, Typed, TypeOK
    <3>2. Become(w, [th[w] EXCEPT !.pc = "clear", !.task = Head(queue)]) /\ th[w].pc = "idle"
      BY <2>2 DEF Take
    <3> QED BY <1>1, <1>2, <2>1, <3>1, <3>2, OutsideGoto
  <2>3. CASE ClearFlag(w)
    <3>1. Goto(w, "publish") /\ th[w].pc = "clear"
      BY <2>3 DEF ClearFlag
    <3> QED BY <1>1, <1>2, <2>1, <3>1, OutsideGoto
  <2>4. CASE Settle(w)
    <3>1. PICK pc \in {"finish", "pop"} : Goto(w, pc)
      BY <2>4, SettleMoves
    <3> QED BY <1>1, <1>2, <2>1, <3>1, OutsideGoto
  <2>6. CASE Finish(w)
    <3>1. Goto(w, "pop")
      BY <2>6 DEF Finish
    <3> QED BY <1>1, <1>2, <2>1, <3>1, OutsideGoto
  <2>5. CASE Pop(w)
    <3>1. Rest(w)
      BY <2>5 DEF Pop
    <3> QED BY <2>1, <3>1, OutsideRest
  <2> QED BY <1>5, <2>2, <2>3, <2>4, <2>5, <2>6 DEF WorkerStep
<1>6. ASSUME NEW t \in Threads, Publish(t) PROVE Runs' = Runs /\ AllInForm'
  <2>1. Goto(t, "lock") /\ th[t].pc = "publish" /\ th[t].pc \notin LockPcs
    BY <1>6 DEF Publish, LockPcs, NodePcs
  <2> QED BY <1>1, <1>2, <2>1, OutsideGoto
<1>7. ASSUME NEW t \in Threads, Retract(t) PROVE Runs' = Runs /\ AllInForm'
  <2>1. th[t].pc \notin LockPcs
    BY <1>7 DEF Retract, LockPcs, NodePcs
  <2>2. CASE t = Api
    <3>1. Rest(t)
      BY <1>7, <2>2 DEF Retract
    <3> QED BY <2>1, <3>1, OutsideRest
  <2>3. CASE t # Api
    <3>1. Goto(t, "settle")
      BY <1>7, <2>3 DEF Retract
    <3> QED BY <1>1, <1>2, <2>1, <3>1, OutsideGoto
  <2> QED BY <2>2, <2>3
<1> QED BY <1>3, <1>4, <1>5, <1>6, <1>7

\* The process ends and starts again.
LEMMA RestartFollows ==
    ASSUME Restart
    PROVE  Graph!Next /\ AllInForm'
<1>1. th' = [t \in Threads |-> IdleThread]
  BY DEF Restart
<1>2. \A t \in Threads : th'[t] = IdleThread
  BY <1>1
<1>3. IdleThread.pc \notin LockPcs /\ InForm(IdleThread)
  BY DEF IdleThread, InForm, Untouched, LockPcs, NodePcs
<1>4. Runs' = [t \in Threads |-> Graph!Idle]
  BY <1>2, <1>3, IdleRun DEF Runs
<1>5. AllInForm'
  BY <1>2, <1>3 DEF AllInForm, InForm, Untouched
<1> QED BY <1>4, <1>5 DEF Graph!Next, Graph!Stop

\* The graph runs of the threads follow the outline that module Workflow's run follows:
\* they take turns, and each goes through the nodes of one.
THEOREM RunsFollowGraph == Spec => FollowsGraph
<1>1. Init => Graph!Init /\ AllInForm
  <2> SUFFICES ASSUME Init PROVE Graph!Init /\ AllInForm
    OBVIOUS
  <2>1. \A t \in Threads : th[t] = IdleThread
    BY DEF Init
  <2>2. IdleThread.pc \notin LockPcs /\ InForm(IdleThread)
    BY DEF IdleThread, InForm, Untouched, LockPcs, NodePcs
  <2>3. Runs = [t \in Threads |-> Graph!Idle]
    BY <2>1, <2>2, IdleRun DEF Runs
  <2>4. AllInForm
    BY <2>1, <2>2 DEF AllInForm
  <2> QED BY <2>3, <2>4 DEF Graph!Init
<1>2. Typed /\ OneGraphRun /\ AllInForm /\ [Next]_vars => [Graph!Next]_Runs /\ AllInForm'
  <2> SUFFICES ASSUME Typed, OneGraphRun, AllInForm, [Next]_vars
               PROVE  (Graph!Next \/ Runs' = Runs) /\ AllInForm'
    OBVIOUS
  <2>1. CASE Restart
    BY <2>1, RestartFollows
  <2>2. CASE UNCHANGED vars
    BY <2>2 DEF vars, Runs, AllInForm, InForm, Untouched
  <2>3. CASE \/ Request \/ RequestStep
             \/ \E w \in Workers : WorkerStep(w)
             \/ \E t \in Threads : Publish(t) \/ Retract(t)
    BY <2>3, OthersFollow
  <2>4. ASSUME NEW t \in Threads,
               \/ Acquire(t) \/ AnswerDirectly(t) \/ Raise(t) \/ Release(t)
        PROVE  (Graph!Next \/ Runs' = Runs) /\ AllInForm'
    BY <2>4, AcquireFollows, DirectAnswerFollows, RaiseFollows, ReleaseFollows
  <2>5. ASSUME NEW t \in Threads, GraphStep(t)
        PROVE  (Graph!Next \/ Runs' = Runs) /\ AllInForm'
    BY <2>5, PlanFollows, DecideFollows, NoStepFollows, ExecutorFollows, SolverFollows,
       ReviewSendsBack, ReviewEndFollows DEF GraphStep
  <2> QED BY <2>1, <2>2, <2>3, <2>4, <2>5 DEF Next, RunStep
<1> QED BY <1>1, <1>2, SpecTyped, RunsAreSerial, PTL DEF Spec, FollowsGraph, Graph!Spec
=============================================================================
