------------------------------- MODULE Bridge -------------------------------
(***************************************************************************)
(* The process around the agent: the bridge (api/context.py) that builds   *)
(* one agent on first use and serialises the requests that change it, the  *)
(* system reset in its two halves (api/routes_kb.py, core/agent_core.py),  *)
(* the flag file it leaves and the deletion of the files at the next start *)
(* (core/reset_handler.py, app.py).  Requests declared "def" run in the    *)
(* server's pool of threads; an upload is declared "async def" and holds   *)
(* the event loop, which accepts requests and sends answers, while it      *)
(* waits for the bridge's lock.                                            *)
(***************************************************************************)
EXTENDS Naturals, FiniteSets, Sequences

CONSTANTS Chats,      \* requests under with_agent, in the pool
          Polls,      \* requests under with_agent_readonly
          Resets,     \* POST /api/system/reset
          Uploads,    \* POST /api/files/upload
          PoolSize,   \* threads of the server's pool
          MaxFailures, \* bound: deletions, marks and constructions that fail
          MaxCrashes, \* bound: stops of the process that no reset asked for
          Boot,       \* the start of the process, an actor like a request
          None

Requests == Chats \cup Polls \cup Resets \cup Uploads
Actors == Requests \cup {Boot}
Locked == Chats \cup Resets \cup Uploads

ASSUME BridgeAssumption ==
    /\ Boot \notin Requests /\ None \notin Actors
    /\ Polls \cap Locked = {} /\ Uploads \cap (Chats \cup Resets) = {} /\ Chats \cap Resets = {}
    /\ PoolSize \in Nat \ {0} /\ MaxFailures \in Nat /\ MaxCrashes \in Nat

\* What the reset deletes, in its order: the vector store, the database, the fingerprint.
Parts == <<"vec", "db", "fp">>
PartNames == {"vec", "db", "fp"}

VARIABLES up,        \* the process: down, starting or serving
          pc,        \* where each actor is
          got,       \* the agent a request has taken from get_agent, 0 is None
          lock,      \* who holds RAGBridge._lock
          loop,      \* the upload that holds the event loop
          agent,     \* RAGBridge._agent: its number in this process, 0 is None
          born,      \* agents constructed in this process
          open,      \* the agents whose resources are open
          half,      \* those of them whose constructor raised
          shut,      \* the vector store of the current agent is closed
          pending,   \* RAGBridge._reset_pending
          performed, \* _RESET_CHECK_PERFORMED
          flag,      \* the file .need_reset
          disk,      \* each part: absent, new, or old, which a granted reset should remove
          granted,   \* factory_reset has succeeded in this process
          unmarked,  \* a reset of this process could not be marked
          todo,      \* the next part to delete
          spoilt,    \* a part could not be deleted
          failures, crashes

bridge == <<agent, born, open, half, shut, pending>>
reset == <<performed, flag, disk, granted, unmarked, todo, spoilt>>
vars == <<up, pc, got, lock, loop, bridge, reset, failures, crashes>>

Init ==
    /\ up = "down" /\ pc = [a \in Actors |-> "idle"] /\ got = [r \in Requests |-> 0]
    /\ lock = None /\ loop = None /\ agent = 0 /\ born = 0 /\ open = {} /\ half = {} /\ shut = FALSE
    /\ pending = FALSE /\ performed = FALSE /\ flag = FALSE
    /\ disk = [p \in PartNames |-> "absent"] /\ granted = FALSE /\ unmarked = FALSE /\ todo = 1 /\ spoilt = FALSE
    /\ failures = 0 /\ crashes = 0

Go(a, where) == pc' = [pc EXCEPT ![a] = where]
Fail == failures < MaxFailures /\ failures' = failures + 1 /\ UNCHANGED crashes
Fine == UNCHANGED <<failures, crashes>>
Leave(r) == lock' = IF lock = r THEN None ELSE lock
InPool == {r \in Requests \ Uploads : pc[r] \notin {"idle", "queued", "reply", "bye", "leaving", "done"}}
HasThread == Cardinality(InPool) < PoolSize
\* An answer of an upload frees the loop, any other waits for the loop to send it.
Answered(r) ==
    /\ Go(r, IF r \in Uploads THEN "done" ELSE "reply")
    /\ loop' = IF loop = r THEN None ELSE loop

-----------------------------------------------------------------------------
(* The deletion, by whoever consumes the flag first in this process.        *)

\* consume_reset_flag_once: the check is marked as made before the deletion begins.
Consume(a) ==
    /\ IF performed \/ ~flag THEN Go(a, "look") ELSE Go(a, "deleting")
    /\ performed' = TRUE
    /\ UNCHANGED <<flag, disk, granted, unmarked, todo, spoilt>>

DeletePart(a) ==
    /\ pc[a] = "deleting" /\ todo <= Len(Parts)
    /\ todo' = todo + 1
    /\ \/ disk' = [disk EXCEPT ![Parts[todo]] = "absent"] /\ Fine /\ UNCHANGED spoilt
       \/ disk[Parts[todo]] # "absent" /\ Fail /\ spoilt' = TRUE /\ UNCHANGED disk
    /\ UNCHANGED <<up, pc, got, lock, loop, bridge, performed, flag, granted, unmarked>>

ClearFlag_Wrong(a) ==
    /\ pc[a] = "deleting" /\ todo > Len(Parts)
    /\ Go(a, "look") /\ Fine /\ flag' = FALSE
    /\ UNCHANGED <<up, got, lock, loop, bridge, performed, disk, granted, unmarked, todo, spoilt>>

\* The flag goes only when every part is gone; it may withstand its removal.
ClearFlag(a) ==
    /\ pc[a] = "deleting" /\ todo > Len(Parts)
    /\ Go(a, "look")
    /\ \/ flag' = spoilt /\ Fine
       \/ ~spoilt /\ flag' = TRUE /\ Fail
    /\ UNCHANGED <<up, got, lock, loop, bridge, performed, disk, granted, unmarked, todo, spoilt>>

-----------------------------------------------------------------------------
(* The process.                                                             *)

Start ==
    /\ up = "down" /\ up' = "starting"
    /\ Go(Boot, "consume")
    /\ UNCHANGED <<got, lock, loop, bridge, reset, failures, crashes>>

\* lifespan: the flag is consumed before the first request is accepted.
Lifespan ==
    /\ pc[Boot] = "consume" /\ Consume(Boot)
    /\ UNCHANGED <<up, got, lock, loop, bridge, failures, crashes>>

Serve ==
    /\ pc[Boot] = "look" /\ Go(Boot, "idle") /\ up' = "serving"
    /\ UNCHANGED <<got, lock, loop, bridge, reset, failures, crashes>>

\* Nothing of the process is left; what a granted reset should remove stays marked.
Down ==
    /\ up' = "down" /\ pc' = [a \in Actors |-> "idle"] /\ got' = [r \in Requests |-> 0]
    /\ lock' = None /\ loop' = None /\ agent' = 0 /\ born' = 0 /\ open' = {} /\ half' = {}
    /\ shut' = FALSE /\ pending' = FALSE /\ performed' = FALSE
    /\ granted' = FALSE /\ unmarked' = FALSE /\ todo' = 1 /\ spoilt' = FALSE
    /\ UNCHANGED <<flag, disk>>

\* A stop that no reset asked for; POST /api/system/shutdown is one too.
Crash ==
    /\ up # "down" /\ crashes < MaxCrashes
    /\ Down /\ crashes' = crashes + 1 /\ UNCHANGED failures

-----------------------------------------------------------------------------
(* Requests.                                                                *)

Same == UNCHANGED <<up, reset, failures, crashes>>

Arrive(r) ==
    /\ up = "serving" /\ loop = None /\ pc[r] = "idle"
    /\ IF r \in Uploads THEN Go(r, "wait") /\ loop' = r ELSE Go(r, "queued") /\ UNCHANGED loop
    /\ UNCHANGED <<got, lock, bridge>> /\ Same

Thread(r) ==
    /\ pc[r] = "queued" /\ HasThread
    /\ Go(r, IF r \in Polls THEN "ensure" ELSE "wait")
    /\ UNCHANGED <<got, lock, loop, bridge>> /\ Same

\* with_agent: the lock, and the answer 503 once the reset is pending.
Acquire(r) ==
    /\ pc[r] = "wait" /\ lock = None
    /\ IF pending THEN Answered(r) /\ UNCHANGED lock
       ELSE Go(r, "get") /\ lock' = r /\ UNCHANGED loop
    /\ UNCHANGED <<got, bridge>> /\ Same

\* with_agent_readonly: the first of its two looks at _reset_pending, without the lock.
Ensure(r) ==
    /\ pc[r] = "ensure"
    /\ IF pending THEN Answered(r) ELSE Go(r, "get") /\ UNCHANGED loop
    /\ UNCHANGED <<got, lock, bridge>> /\ Same

GetAgent(r) ==
    /\ pc[r] = "get"
    /\ \/ pending /\ Answered(r) /\ Leave(r) /\ UNCHANGED reset
       \/ ~pending /\ Consume(r) /\ UNCHANGED <<lock, loop>>
    /\ UNCHANGED <<up, got, bridge>> /\ Fine

Look(r) ==
    /\ pc[r] = "look" /\ Go(r, IF agent = 0 THEN "build" ELSE "take")
    /\ UNCHANGED <<got, lock, loop, bridge>> /\ Same

\* What is written after a reset was granted, or beside what one has left, is old for the next
\* process.
Written(parts) ==
    disk' = [p \in PartNames |-> IF p \notin parts THEN disk[p]
                                 ELSE IF granted \/ disk[p] = "old" THEN "old" ELSE "new"]
Files == UNCHANGED <<performed, flag, granted, unmarked, todo, spoilt>>

Build_Wrong(r) ==
    /\ pc[r] = "build" /\ lock \in {None, r}
    /\ Go(r, "take")
    /\ agent' = born + 1 /\ born' = born + 1 /\ open' = open \cup {born + 1} /\ shut' = FALSE
    /\ Written({p \in PartNames : disk[p] = "absent"})
    /\ UNCHANGED <<up, got, lock, loop, half, pending>> /\ Files /\ Fine

Build_Plain(r) ==
    /\ pc[r] = "build" /\ lock = None
    /\ Go(r, "take")
    /\ IF agent # 0 THEN UNCHANGED <<bridge, disk>>
       ELSE /\ agent' = born + 1 /\ born' = born + 1 /\ open' = open \cup {born + 1}
            /\ shut' = FALSE /\ UNCHANGED <<half, pending>>
            /\ Written({p \in PartNames : disk[p] = "absent"})
    /\ UNCHANGED <<up, got, lock, loop>> /\ Files /\ Fine

\* The second look at _agent is made with the lock; the constructor opens the store and the
\* database and synchronises what is missing.
Build(r) ==
    /\ pc[r] = "build" /\ lock \in {None, r}
    /\ Go(r, "take")
    /\ IF agent # 0 THEN UNCHANGED <<bridge, disk>>
       ELSE /\ agent' = born + 1 /\ born' = born + 1 /\ open' = open \cup {born + 1}
            /\ shut' = FALSE /\ UNCHANGED <<half, pending>>
            /\ Written({p \in PartNames : disk[p] = "absent"})
    /\ UNCHANGED <<up, got, lock, loop>> /\ Files /\ Fine

\* The constructor raises; no agent is kept, but the store and the database it may have opened
\* are closed by nobody, and what it wrote stays.
BuildFails(r) ==
    /\ pc[r] = "build" /\ lock \in {None, r} /\ agent = 0
    /\ Answered(r) /\ Leave(r) /\ Fail
    /\ born' = born + 1
    /\ \E opened \in SUBSET {born + 1} : open' = open \cup opened /\ half' = half \cup opened
    /\ \E parts \in SUBSET {p \in PartNames : disk[p] = "absent"} : Written(parts)
    /\ UNCHANGED <<up, got, agent, shut, pending>> /\ Files

\* return self._agent: read once more, without the lock for a poll.
TakeAgent(r) ==
    /\ pc[r] = "take" /\ Go(r, "use") /\ got' = [got EXCEPT ![r] = agent]
    /\ UNCHANGED <<lock, loop, bridge>> /\ Same

\* A poll reads, or fails on an agent that is gone.
Poll(r) ==
    /\ r \in Polls /\ pc[r] = "use" /\ Answered(r)
    /\ UNCHANGED <<got, lock, bridge>> /\ Same

\* A chat or an upload writes the database; the vector store only when it is open.
Work(r) ==
    /\ r \in Chats \cup Uploads /\ pc[r] = "use"
    /\ Answered(r) /\ Leave(r)
    /\ Written(IF shut THEN {"db"} ELSE PartNames)
    /\ UNCHANGED <<up, got, bridge>> /\ Files /\ Fine

-----------------------------------------------------------------------------
(* The reset, in two halves between which the lock is free.                 *)

\* factory_reset clears the conversations and closes the vector store.
FactoryReset(r) ==
    /\ r \in Resets /\ pc[r] = "use"
    /\ Go(r, "mark") /\ shut' = TRUE
    /\ UNCHANGED <<got, lock, loop, agent, born, open, half, pending>> /\ Same

\* mark_for_reset writes the flag, or raises, before or after the file is there: then the
\* closed agent stays in service.
Mark(r) ==
    /\ pc[r] = "mark" /\ Leave(r)
    /\ \/ /\ Go(r, "pend") /\ flag' = TRUE /\ granted' = TRUE /\ Fine
          /\ disk' = [p \in PartNames |-> IF disk[p] = "absent" THEN "absent" ELSE "old"]
          /\ UNCHANGED <<loop, unmarked>>
       \/ /\ Answered(r) /\ flag' \in {flag, TRUE} /\ unmarked' = TRUE /\ Fail
          /\ UNCHANGED <<granted, disk>>
    /\ UNCHANGED <<up, got, bridge, performed, todo, spoilt>>

EnterPending_Wrong(r) ==
    /\ pc[r] = "pend"
    /\ Go(r, "bye") /\ pending' = TRUE /\ open' = open \ {agent} /\ agent' = 0 /\ shut' = FALSE
    /\ UNCHANGED <<got, lock, loop, born, half>> /\ Same

\* enter_reset_pending closes the agent there is, with the lock.
EnterPending(r) ==
    /\ pc[r] = "pend" /\ lock = None
    /\ Go(r, "bye") /\ pending' = TRUE /\ open' = open \ {agent} /\ agent' = 0 /\ shut' = FALSE
    /\ UNCHANGED <<got, lock, loop, born, half>> /\ Same

\* The loop sends the answer; the shutdown after a granted reset is a task behind it.
Reply(r) ==
    /\ loop = None
    /\ \/ pc[r] = "reply" /\ Go(r, "done")
       \/ pc[r] = "bye" /\ Go(r, "leaving")
    /\ UNCHANGED <<got, lock, loop, bridge>> /\ Same

\* _shutdown_process, in a thread of the pool.
Exit(r) == pc[r] = "leaving" /\ HasThread /\ Down /\ Fine

-----------------------------------------------------------------------------
Step(r) ==
    \/ Thread(r) \/ Acquire(r) \/ Ensure(r) \/ GetAgent(r) \/ Look(r) \/ Build(r) \/ BuildFails(r)
    \/ TakeAgent(r) \/ Poll(r) \/ Work(r) \/ FactoryReset(r) \/ Mark(r) \/ EnterPending(r)
    \/ Reply(r) \/ Exit(r)

Startup == Start \/ Lifespan \/ Serve
Delete(a) == DeletePart(a) \/ ClearFlag(a)

Next ==
    \/ Startup \/ Crash
    \/ \E a \in Actors : Delete(a)
    \/ \E r \in Requests : Arrive(r) \/ Step(r)

\* A thread that has work goes on, and one that waits for a lock or a thread gets it when
\* that is free for good; that requests arrive, or the process starts again, is not promised.
Spec == Init /\ [][Next]_vars /\ \A r \in Requests : WF_vars(Step(r))

-----------------------------------------------------------------------------
Places == {"idle", "queued", "ensure", "wait", "get", "consume", "deleting", "look", "build",
           "take", "use", "mark", "pend", "reply", "bye", "leaving", "done"}

TypeOK ==
    /\ up \in {"down", "starting", "serving"} /\ pc \in [Actors -> Places]
    /\ got \in [Requests -> Nat] /\ lock \in Locked \cup {None} /\ loop \in Uploads \cup {None}
    /\ agent \in 0..born /\ born \in Nat /\ open \subseteq 1..born /\ half \subseteq open /\ shut \in BOOLEAN
    /\ pending \in BOOLEAN /\ performed \in BOOLEAN /\ flag \in BOOLEAN
    /\ disk \in [PartNames -> {"absent", "new", "old"}] /\ granted \in BOOLEAN
    /\ unmarked \in BOOLEAN /\ todo \in 1..4 /\ spoilt \in BOOLEAN /\ failures \in 0..MaxFailures /\ crashes \in 0..MaxCrashes

\* However many requests find no agent at once, one is constructed, beside what constructors
\* that raised have left open, and nothing has its files open while those of a reset are deleted.
OneOpenAgent ==
    /\ open \ half = IF agent = 0 THEN {} ELSE {agent}
    /\ (\E a \in Actors : pc[a] = "deleting") => open = {}

\* What a granted reset should have removed is on the disk only as long as the flag is,
\* whatever fails or stops in between: no later process takes it for data of its own.
OldOnlyUnderFlag == (\E p \in PartNames : disk[p] = "old") => flag

\* A request with the lock works on the agent in service, with all its resources, but for
\* the vector store between the halves of a reset, or after one that could not be marked.
LockedUsesLive ==
    \A r \in Locked : pc[r] = "use" =>
        /\ lock = r /\ got[r] = agent /\ agent \in open
        /\ shut => granted \/ unmarked

\* Every request that is accepted is answered or refused, though uploads wait on the
\* event loop and the pool may be full of waiting requests, unless the process leaves.
Answers ==
    \A r \in Requests : pc[r] \in {"queued", "wait"} ~> pc[r] \in {"done", "leaving"} \/ up = "down"
=============================================================================
