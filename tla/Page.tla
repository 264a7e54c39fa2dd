-------------------------------- MODULE Page --------------------------------
(***************************************************************************)
(* The web client's view of the tasks (static/app.js) before a server      *)
(* whose tasks go on by themselves.  Everything the page does is an async  *)
(* function that sends a request, awaits the reply and goes on with it;    *)
(* the functions a user starts and the polls of the timer are in flight    *)
(* together, share the page's state, and their replies come in any order.  *)
(* A reply is a snapshot of the moment the server handled the request.     *)
(* All that is shown of a task is one number that grows until it ends.     *)
(***************************************************************************)
EXTENDS Naturals, FiniteSets, Functions

CONSTANTS Sessions, Tasks,
          Final,       \* bound: what there is to see of a task; a task that ended shows this
          Flows,       \* bound: functions of the user in flight at once
          Polls,       \* bound: polls in flight at once
          MaxEvents,   \* bound: what the user does and requests that are lost, together
          None

ASSUME PageAssumption ==
    /\ Final \in Nat \ {0} /\ MaxEvents \in Nat
    /\ Flows \cap Polls = {} /\ None \notin Tasks \cup Sessions

VARIABLES version,  \* the server: what is to see of each task, 0 when there is none
          home,     \* the session of each task
          cur,      \* state.currentSessionId
          tasks,    \* state.tasks: what is shown of each task of the list
          curTask,  \* state.currentTaskId
          detail,   \* state.currentTaskDetail: of which task, and what
          loading,  \* state.taskDetailLoading
          flow,     \* the functions in flight
          events

server == <<version, home>>
screen == <<cur, tasks, curTask, detail, loading>>
vars == <<server, screen, flow, events>>

NoTasks == <<>>
NoDetail == [task |-> None, v |-> 0]
\* kind: what the function is; at: what it awaits; session, task: what it asks for;
\* own: the session of a chat; list, v: the reply.
Idle == [kind |-> "none", at |-> "idle", session |-> None, task |-> None, own |-> None,
         list |-> NoTasks, v |-> 0]

\* Sessions, tasks that are new and functions that are not in flight are all alike.
AnyOf(S) == CHOOSE x \in S : TRUE

\* The page has been loaded, in a session with a task that runs, or with none.
Init ==
    /\ \E s \in {AnyOf(Sessions)}, some \in {{}, {AnyOf(Tasks)}} :
          /\ cur = s /\ home = [k \in Tasks |-> s]
          /\ version = [k \in Tasks |-> IF k \in some THEN 1 ELSE 0]
          /\ tasks = [k \in some |-> 1]
          /\ \/ some = {} /\ curTask = None /\ detail = NoDetail
             \/ curTask \in some /\ detail = [task |-> curTask, v |-> 1]
    /\ loading = FALSE
    /\ flow = [f \in Flows \cup Polls |-> Idle] /\ events = 0

Becomes(f, r) == flow' = [flow EXCEPT ![f] = r]
End(f) == Becomes(f, Idle)
AskList(r, s) == [r EXCEPT !.at = "list", !.session = s, !.list = NoTasks]
AskDetail(r, t) == [r EXCEPT !.at = "detail", !.task = t, !.session = None, !.list = NoTasks]

\* fetchTaskDetail up to its request; a silent one leaves what is shown.
Show(r, t) ==
    /\ curTask' = t
    /\ IF r.kind = "poll" THEN UNCHANGED <<detail, loading>>
       ELSE detail' = NoDetail /\ loading' = TRUE

-----------------------------------------------------------------------------
(* What starts.                                                             *)

Tick_Wrong(f) ==
    /\ f \in Polls /\ flow[f] = Idle
    /\ \E t \in DOMAIN tasks : tasks[t] < Final
    /\ Becomes(f, AskList([Idle EXCEPT !.kind = "poll"], cur))
    /\ UNCHANGED <<server, screen, events>>

\* startTaskPolling: every three seconds, whether or not the poll before has ended.
Tick(f) ==
    /\ f \in Polls /\ flow[f] = Idle
    /\ (\E t \in DOMAIN tasks : tasks[t] < Final) \/ curTask # None
    /\ Becomes(f, AskList([Idle EXCEPT !.kind = "poll"], cur))
    /\ UNCHANGED <<server, screen, events>>

Event == events < MaxEvents /\ events' = events + 1

User(f) ==
    /\ \E g \in Flows : flow[g] = Idle
    /\ f = AnyOf({g \in Flows : flow[g] = Idle})
    /\ Event

\* A task of the list is clicked.
Click(f, t) ==
    /\ User(f) /\ t \in DOMAIN tasks
    /\ LET r == [Idle EXCEPT !.kind = "click"] IN Becomes(f, AskDetail(r, t)) /\ Show(r, t)
    /\ UNCHANGED <<server, cur, tasks>>

\* switchSession; a new session, and the one left after a deletion, become the current one
\* before that, and between the two the sessions are listed again for a new one.
Switch(f, s) ==
    /\ User(f)
    /\ \E kind \in {"switch", "new", "left"} :
          Becomes(f, [Idle EXCEPT !.kind = kind, !.at = "post", !.session = s])
    /\ UNCHANGED <<server, screen>>

Asking == \E f \in Flows : flow[f].kind = "chat"

\* sendQuestion and sendBackgroundQuestion; neither while a chat is awaited.
Send(f) ==
    /\ User(f) /\ ~Asking
    /\ \E kind \in {"chat", "background"} :
          Becomes(f, [Idle EXCEPT !.kind = kind, !.at = "post", !.session = cur,
                                  !.own = IF kind = "chat" THEN cur ELSE None])
    /\ UNCHANGED <<server, screen>>

\* runTaskAction, for the task whose detail is shown.
Act(f) ==
    /\ User(f) /\ detail # NoDetail
    /\ Becomes(f, [Idle EXCEPT !.kind = "act", !.at = "post", !.task = detail.task])
    /\ UNCHANGED <<server, screen>>

-----------------------------------------------------------------------------
(* The server.                                                              *)

Progress(t) ==
    /\ version[t] \in 1..(Final - 1)
    /\ version' = [version EXCEPT ![t] = @ + 1]
    /\ UNCHANGED <<home, screen, flow, events>>

Listing(s) == Restrict(version, {t \in Tasks : version[t] > 0 /\ home[t] = s})

Replied(f) == Becomes(f, [flow[f] EXCEPT !.at = "posted"])

\* A task that is new is written with the session of the request; a retry has its source's.
Created(f, s, at) ==
    \E t \in Tasks :
        /\ version[t] = 0 /\ t = AnyOf({k \in Tasks : version[k] = 0}) /\ version' = [version EXCEPT ![t] = 1] /\ home' = [home EXCEPT ![t] = s]
        /\ Becomes(f, [flow[f] EXCEPT !.at = at, !.task = t])

Handle(f) ==
    LET r == flow[f]
    IN  /\ \/ r.at = "post" /\ r.kind \in {"switch", "new", "left"} /\ Replied(f) /\ UNCHANGED server
           \/ r.at = "sessions" /\ Replied(f) /\ UNCHANGED server
           \/ r.at = "post" /\ r.kind = "background" /\ Created(f, r.session, "posted")
           \/ r.at = "post" /\ r.kind = "chat" /\ Created(f, r.session, "answer")
           \/ r.at = "answer" /\ version[r.task] = Final /\ Replied(f) /\ UNCHANGED server
           \* a cancellation, and a retry or a continuation of what has ended
           \/ r.at = "post" /\ r.kind = "act" /\ Replied(f) /\ UNCHANGED server
           \/ /\ r.at = "post" /\ r.kind = "act" /\ version[r.task] = Final
              /\ Created(f, home[r.task], "posted")
           \/ /\ r.at = "list" /\ UNCHANGED server
              /\ Becomes(f, [r EXCEPT !.at = "listed", !.session = None, !.list = Listing(r.session)])
           \/ /\ r.at = "detail" /\ UNCHANGED server
              /\ Becomes(f, [r EXCEPT !.at = "shown", !.v = version[r.task]])
        /\ UNCHANGED <<screen, events>>

-----------------------------------------------------------------------------
(* The replies.                                                             *)

\* The reply of a POST; then fetchTasks for the session that is current now.
Posted(f) ==
    LET r == flow[f]
    IN  /\ r.at = "posted"
        /\ \/ /\ r.kind = "switch" /\ cur' = r.session
              /\ curTask' = None /\ detail' = NoDetail /\ tasks' = NoTasks
              /\ Becomes(f, AskList(r, r.session))
           \/ /\ r.kind = "left" /\ cur' = r.session
              /\ Becomes(f, [r EXCEPT !.kind = "switch", !.at = "post"])
              /\ UNCHANGED <<curTask, detail, tasks>>
           \/ /\ r.kind = "new" /\ cur' = r.session
              /\ Becomes(f, [r EXCEPT !.kind = "listing", !.at = "sessions", !.session = None])
              /\ UNCHANGED <<curTask, detail, tasks>>
           \* what is current by now is switched to
           \/ /\ r.kind = "listing"
              /\ Becomes(f, [r EXCEPT !.kind = "switch", !.at = "post", !.session = cur])
              /\ UNCHANGED <<cur, curTask, detail, tasks>>
           \/ /\ r.kind \in {"chat", "background"} /\ Becomes(f, AskList(r, cur))
              /\ UNCHANGED <<cur, curTask, detail, tasks>>
           \/ /\ r.kind = "act" /\ curTask' = r.task
              /\ Becomes(f, AskList([r EXCEPT !.task = None], cur))
              /\ UNCHANGED <<cur, detail, tasks>>
        /\ UNCHANGED <<server, loading, events>>

\* The rest of fetchTasks, and the fetchTaskDetail after it, if any.
Listed(f) ==
    LET r == flow[f]
        first == IF curTask # None \/ r.list = NoTasks THEN {curTask} ELSE DOMAIN r.list
    IN  /\ r.at = "listed" /\ tasks' = r.list
        /\ IF r.kind \in {"chat", "background"}
           THEN Becomes(f, AskDetail(r, r.task)) /\ Show(r, r.task)
           ELSE \E t \in first :
                   IF t = None THEN End(f) /\ UNCHANGED <<curTask, detail, loading>>
                   ELSE Becomes(f, AskDetail(r, t)) /\ Show(r, t)
        /\ UNCHANGED <<server, cur, events>>

\* A chat makes its session the current one again when all else is done.
Ended(f) == End(f) /\ cur' = IF flow[f].kind = "chat" THEN flow[f].own ELSE cur

\* The rest of fetchTaskDetail: what is no longer asked for is not shown.
Shown(f) ==
    LET r == flow[f]
    IN  /\ r.at = "shown"
        /\ IF curTask = r.task
           THEN detail' = [task |-> r.task, v |-> r.v] /\ loading' = FALSE
           ELSE UNCHANGED <<detail, loading>>
        /\ Ended(f)
        /\ UNCHANGED <<server, tasks, curTask, events>>

\* A request is lost, or the reply to one that had an effect, or the user stops a chat whose
\* answer is awaited: the function ends, and a detail is no longer awaited.
Fails(f) ==
    /\ flow[f].at \in {"post", "posted", "answer", "sessions", "list", "detail"} /\ Event
    /\ End(f)
    /\ loading' = IF flow[f].at = "detail" /\ curTask = flow[f].task THEN FALSE ELSE loading
    /\ UNCHANGED <<server, cur, tasks, curTask, detail>>

-----------------------------------------------------------------------------
Arrive(f) == Posted(f) \/ Listed(f) \/ Shown(f)

Next ==
    \/ \E t \in Tasks : Progress(t)
    \/ \E f \in Polls : Tick(f)
    \/ \E f \in Flows : \/ Send(f) \/ Act(f)
                        \/ \E t \in Tasks : Click(f, t)
                        \/ \E s \in Sessions : Switch(f, s)
    \/ \E f \in Flows \cup Polls : Handle(f) \/ Arrive(f) \/ Fails(f)

\* The timer ticks for ever, requests are handled, replies arrive, and tasks come to an end
\* (AcceptedTasksLeave of TaskLifecycle); the user need not do anything.
Spec ==
    /\ Init /\ [][Next]_vars
    /\ \A t \in Tasks : WF_vars(Progress(t))
    /\ \A f \in Polls : WF_vars(Tick(f))
    /\ \A f \in Flows \cup Polls : WF_vars(Handle(f)) /\ WF_vars(Arrive(f))

-----------------------------------------------------------------------------
\* When the tasks have ended and the user is done, a page that shows a task shows its end,
\* and the tasks of the session it is in, for good: replies that overtook each other, came
\* after a switch or never came have been made up for by a poll.
ScreenSettles ==
    <>[](curTask # None => /\ ~loading /\ detail = [task |-> curTask, v |-> Final]
                           /\ tasks = Listing(cur))
=============================================================================
