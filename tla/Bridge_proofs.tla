---------------------------- MODULE Bridge_proofs ----------------------------
(***************************************************************************)
(* Proofs about the bridge and the reset, for any requests, any size of    *)
(* the server's pool, any number of failures and of crashes.  The          *)
(* invariant is the conjunction of four parts: where the actors can be     *)
(* (Placed), the agent (Single), what the bridge's lock protects (Locking) *)
(* and what lies on the disk (Kept).                                       *)
(***************************************************************************)
EXTENDS Bridge, TLAPS

UnderLock == {"get", "look", "build", "take", "use", "mark"}

\* While the process does not serve, no request is anywhere and there is no agent; only the
\* start of the process deletes files, and it is over when the process serves.
Placed ==
    /\ pc \in [Actors -> Places] /\ got \in [Requests -> Nat]
    /\ pc[Boot] \in {"idle", "consume", "deleting", "look"}
    /\ up \in {"down", "starting", "serving"}
    /\ up # "starting" => pc[Boot] = "idle"
    /\ up = "serving" \/ pc[Boot] \in {"deleting", "look"} => performed
    /\ up # "serving" => /\ \A r \in Requests : pc[r] = "idle"
                         /\ agent = 0 /\ half = {} /\ lock = None /\ ~granted /\ ~shut
    /\ \A r \in Requests : pc[r] \notin {"consume", "deleting"}
    /\ \A r \in Requests : /\ pc[r] = "wait" => r \in Locked
                           /\ pc[r] = "ensure" => r \notin Locked
    /\ \A r \in Requests : pc[r] \in {"mark", "pend", "bye", "leaving"} => r \in Resets

\* What is open is the agent's, or was left by a constructor that raised.
Single ==
    /\ agent \in Nat /\ born \in Nat /\ agent <= born
    /\ half \subseteq 1..born /\ agent \notin half
    /\ open = half \cup (IF agent = 0 THEN {} ELSE {agent})

\* Who is past Acquire has the lock, and the agent a request has looked at stays until the
\* lock is free.
Locking ==
    /\ lock \in Locked \cup {None}
    /\ \A r \in Locked : pc[r] \in UnderLock => lock = r
    /\ \A r \in Locked : pc[r] = "take" => agent # 0
    /\ \A r \in Locked : pc[r] = "use" => got[r] = agent /\ agent # 0
    /\ shut => granted \/ unmarked \/ \E z \in Resets : pc[z] = "mark"

\* A reset that was granted has its flag; a deletion that spares nothing has removed what
\* is before the next part.
Kept ==
    /\ disk \in [PartNames -> {"absent", "new", "old"}]
    /\ granted => flag
    /\ OldOnlyUnderFlag
    /\ todo \in Nat \ {0}
    /\ up = "down" \/ pc[Boot] = "consume" => todo = 1 /\ ~spoilt
    /\ pc[Boot] = "deleting" /\ ~spoilt =>
          /\ todo > 1 => disk["vec"] = "absent"
          /\ todo > 2 => disk["db"] = "absent"
          /\ todo > 3 => disk["fp"] = "absent"

Inv == Placed /\ Single /\ Locking /\ Kept

USE DEF Requests, Actors, Locked

LEMMA InitInv == Init => Inv
<1> USE BridgeAssumption DEF Init
<1>1. Init => Placed
  BY DEF Placed, Places
<1>2. Init => Single
  BY DEF Single
<1>3. Init => Locking
  BY DEF Locking, UnderLock
<1>4. Init => Kept
  BY DEF Kept, OldOnlyUnderFlag
<1> QED BY <1>1, <1>2, <1>3, <1>4 DEF Inv

LEMMA DownKeeps ==
    ASSUME Inv, Down
    PROVE  Inv'
<1> USE BridgeAssumption DEF Inv, Down
<1>1. Placed' /\ Single'
  BY DEF Placed, Single, Places
<1>2. Locking'
  BY DEF Locking, UnderLock
<1>3. Kept'
  BY DEF Kept, OldOnlyUnderFlag
<1> QED BY <1>1, <1>2, <1>3

-----------------------------------------------------------------------------
(* The start of the process.                                                *)

LEMMA StartupKeeps ==
    ASSUME Inv, Startup
    PROVE  Inv'
<1> USE BridgeAssumption DEF Inv, Go, bridge, reset
<1>1. Placed'
  <2>1. CASE Start
    BY <2>1 DEF Start, Placed, Places
  <2>2. CASE Lifespan
    BY <2>2 DEF Lifespan, Consume, Placed, Places
  <2>3. CASE Serve
    BY <2>3 DEF Serve, Placed, Places
  <2> QED BY <2>1, <2>2, <2>3 DEF Startup
<1>2. Single'
  BY DEF Startup, Start, Lifespan, Serve, Single
<1>3. Locking'
  BY DEF Startup, Start, Lifespan, Serve, Consume, Locking, Placed, UnderLock
<1>4. Kept'
  <2>1. CASE Start
    BY <2>1 DEF Start, Kept, Placed, OldOnlyUnderFlag
  <2>2. CASE Lifespan
    <3>1. todo = 1
      BY <2>2 DEF Lifespan, Kept
    <3>2. up' # "down" /\ pc'[Boot] \in {"look", "deleting"}
      BY <2>2 DEF Lifespan, Consume, Placed
    <3> QED BY <2>2, <3>1, <3>2 DEF Lifespan, Consume, Kept, OldOnlyUnderFlag
  <2>3. CASE Serve
    BY <2>3 DEF Serve, Kept, Placed, OldOnlyUnderFlag
  <2> QED BY <2>1, <2>2, <2>3 DEF Startup
<1> QED BY <1>1, <1>2, <1>3, <1>4

\* Only the start of the process deletes, when nothing is granted any more.
LEMMA DeleteKeeps ==
    ASSUME Inv, NEW a \in Actors, Delete(a)
    PROVE  Inv'
<1> USE BridgeAssumption DEF Inv
<1>1. a = Boot /\ up = "starting" /\ pc[Boot] = "deleting" /\ ~granted
  BY DEF Delete, DeletePart, ClearFlag, Placed
<1>2. CASE DeletePart(a)
  <2> USE <1>1, <1>2 DEF DeletePart, bridge
  <2>1. Placed' /\ Single'
    BY DEF Placed, Single
  <2>2. Locking'
    BY DEF Locking, Fine, Fail
  <2>3. Parts[todo] \in PartNames /\ (todo = 1 => Parts[todo] = "vec")
        /\ (todo = 2 => Parts[todo] = "db") /\ (todo = 3 => Parts[todo] = "fp") /\ todo \in {1, 2, 3}
    BY DEF Parts, PartNames, Kept
  <2>4. Kept'
    BY <2>3 DEF Kept, OldOnlyUnderFlag, PartNames, Fine, Fail
  <2> QED BY <2>1, <2>2, <2>4
<1>3. CASE ClearFlag(a)
  <2> USE <1>1, <1>3 DEF ClearFlag, Go, bridge
  <2>1. Placed' /\ Single'
    BY DEF Placed, Single, Places
  <2>2. Locking'
    BY DEF Locking, Placed, UnderLock, Fine, Fail
  <2>3. todo > 3
    BY DEF Parts
  <2>4. Kept'
    BY <2>3 DEF Kept, OldOnlyUnderFlag, PartNames, Placed
  <2> QED BY <2>1, <2>2, <2>4
<1> QED BY <1>2, <1>3 DEF Delete

-----------------------------------------------------------------------------
(* The requests.                                                            *)

\* A request is accepted only by a process that serves, and moves only there.
LEMMA RequestsWhenServing ==
    ASSUME Inv, NEW r \in Requests, Arrive(r) \/ pc[r] # "idle"
    PROVE  up = "serving" /\ r # Boot
  BY BridgeAssumption DEF Inv, Arrive, Placed

\* Where the requests are.
LEMMA PlacedKept ==
    ASSUME Inv, NEW r \in Requests, Arrive(r) \/ (Step(r) /\ ~Exit(r))
    PROVE  Placed'
<1> USE BridgeAssumption, RequestsWhenServing DEF Inv, Placed
<1>1. CASE Arrive(r)
  BY <1>1 DEF Arrive, Go, Same, bridge, reset, Places
<1>2. CASE Thread(r)
  BY <1>2 DEF Thread, Go, Same, bridge, reset, Places
<1>3. CASE Acquire(r)
  BY <1>3 DEF Acquire, Go, Answered, Same, bridge, reset, Places
<1>4. CASE Ensure(r)
  BY <1>4 DEF Ensure, Go, Answered, Same, bridge, reset, Places
<1>5. CASE GetAgent(r)
  BY <1>5 DEF GetAgent, Go, Answered, Leave, Consume, bridge, reset, Fine, Places
<1>6. CASE Look(r)
  BY <1>6 DEF Look, Go, Same, bridge, reset, Places
<1>7. CASE Build(r)
  BY <1>7 DEF Build, Go, Files, Fine, bridge, Places
<1>8. CASE BuildFails(r)
  BY <1>8 DEF BuildFails, Go, Answered, Leave, Fail, Files, Places
<1>9. CASE TakeAgent(r)
  BY <1>9 DEF TakeAgent, Go, Same, bridge, reset, Places, Single
<1>10. CASE Poll(r)
  BY <1>10 DEF Poll, Go, Answered, Same, bridge, reset, Places
<1>11. CASE Work(r)
  BY <1>11 DEF Work, Go, Answered, Leave, Files, Fine, bridge, Places
<1>12. CASE FactoryReset(r)
  BY <1>12 DEF FactoryReset, Go, Same, reset, Places
<1>13. CASE Mark(r)
  BY <1>13 DEF Mark, Go, Answered, Leave, Fail, Fine, bridge, Places
<1>14. CASE EnterPending(r)
  BY <1>14 DEF EnterPending, Go, Same, reset, Places
<1>15. CASE Reply(r)
  BY <1>15 DEF Reply, Go, Same, bridge, reset, Places
<1> QED BY <1>1, <1>2, <1>3, <1>4, <1>5, <1>6, <1>7, <1>8, <1>9, <1>10, <1>11, <1>12, <1>13, <1>14, <1>15 DEF Step

\* The agent: none or one.
LEMMA SingleKept ==
    ASSUME Inv, NEW r \in Requests, Arrive(r) \/ (Step(r) /\ ~Exit(r))
    PROVE  Single'
<1> USE BridgeAssumption, RequestsWhenServing DEF Inv, Single
<1>1. CASE Arrive(r)
  BY <1>1 DEF Arrive, Go, Same, bridge, reset
<1>2. CASE Thread(r)
  BY <1>2 DEF Thread, Go, Same, bridge, reset
<1>3. CASE Acquire(r)
  BY <1>3 DEF Acquire, Go, Answered, Same, bridge, reset
<1>4. CASE Ensure(r)
  BY <1>4 DEF Ensure, Go, Answered, Same, bridge, reset
<1>5. CASE GetAgent(r)
  BY <1>5 DEF GetAgent, Go, Answered, Leave, Consume, bridge, reset, Fine
<1>6. CASE Look(r)
  BY <1>6 DEF Look, Go, Same, bridge, reset
<1>7. CASE Build(r)
  <2>1. CASE agent # 0
    <3>1. UNCHANGED <<agent, born, open, half>>
      BY <1>7, <2>1 DEF Build, bridge
    <3> QED BY <3>1
  <2>2. CASE agent = 0
    <3>1. /\ agent' = born + 1 /\ born' = born + 1 /\ open' = open \cup {born + 1} /\ half' = half
      BY <1>7, <2>2 DEF Build
    <3>2. born + 1 \notin 1..born /\ 1..born \subseteq 1..(born + 1) /\ born + 1 # 0
      OBVIOUS
    <3> QED BY <2>2, <3>1, <3>2
  <2> QED BY <2>1, <2>2
<1>8. CASE BuildFails(r)
  BY <1>8 DEF BuildFails, Go, Answered, Leave, Fail
<1>9. CASE TakeAgent(r)
  BY <1>9 DEF TakeAgent, Go, Same, bridge, reset
<1>10. CASE Poll(r)
  BY <1>10 DEF Poll, Go, Answered, Same, bridge, reset
<1>11. CASE Work(r)
  BY <1>11 DEF Work, Go, Answered, Leave, Files, Fine, bridge
<1>12. CASE FactoryReset(r)
  BY <1>12 DEF FactoryReset, Go, Same, reset
<1>13. CASE Mark(r)
  BY <1>13 DEF Mark, Go, Answered, Leave, Fail, Fine, bridge
<1>14. CASE EnterPending(r)
  BY <1>14 DEF EnterPending, Go, Same, reset
<1>15. CASE Reply(r)
  BY <1>15 DEF Reply, Go, Same, bridge, reset
<1> QED BY <1>1, <1>2, <1>3, <1>4, <1>5, <1>6, <1>7, <1>8, <1>9, <1>10, <1>11, <1>12, <1>13, <1>14, <1>15 DEF Step

\* The lock: what a request has with it, no other request changes.
LEMMA LockingKept ==
    ASSUME Inv, NEW r \in Requests, Arrive(r) \/ (Step(r) /\ ~Exit(r))
    PROVE  Locking'
<1> USE BridgeAssumption, RequestsWhenServing DEF Inv, Locking
<1>1. CASE Arrive(r)
  BY <1>1 DEF Arrive, Go, Same, bridge, reset, Placed, Single, UnderLock
<1>2. CASE Thread(r)
  BY <1>2 DEF Thread, Go, Same, bridge, reset, Placed, Single, UnderLock
<1>3. CASE Acquire(r)
  BY <1>3 DEF Acquire, Go, Answered, Same, bridge, reset, Placed, Single, UnderLock
<1>4. CASE Ensure(r)
  BY <1>4 DEF Ensure, Go, Answered, Same, bridge, reset, Placed, Single, UnderLock
<1>5. CASE GetAgent(r)
  BY <1>5 DEF GetAgent, Go, Answered, Leave, Consume, bridge, reset, Fine, Placed, Single, UnderLock
<1>6. CASE Look(r)
  BY <1>6 DEF Look, Go, Same, bridge, reset, Placed, Single, UnderLock
<1>7. CASE Build(r)
  BY <1>7 DEF Build, Go, Files, Fine, bridge, Placed, Single, UnderLock
<1>8. CASE BuildFails(r)
  BY <1>8 DEF BuildFails, Go, Answered, Leave, Fail, Files, Placed, Single, UnderLock
<1>9. CASE TakeAgent(r)
  BY <1>9 DEF TakeAgent, Go, Same, bridge, reset, Placed, Single, UnderLock
<1>10. CASE Poll(r)
  BY <1>10 DEF Poll, Go, Answered, Same, bridge, reset, Placed, Single, UnderLock
<1>11. CASE Work(r)
  BY <1>11 DEF Work, Go, Answered, Leave, Files, Fine, bridge, Placed, Single, UnderLock
<1>12. CASE FactoryReset(r)
  BY <1>12 DEF FactoryReset, Go, Same, reset, Placed, Single, UnderLock
<1>13. CASE Mark(r)
  BY <1>13 DEF Mark, Go, Answered, Leave, Fail, Fine, bridge, Placed, Single, UnderLock
<1>14. CASE EnterPending(r)
  BY <1>14 DEF EnterPending, Go, Same, reset, Placed, Single, UnderLock
<1>15. CASE Reply(r)
  BY <1>15 DEF Reply, Go, Same, bridge, reset, Placed, Single, UnderLock
<1> QED BY <1>1, <1>2, <1>3, <1>4, <1>5, <1>6, <1>7, <1>8, <1>9, <1>10, <1>11, <1>12, <1>13, <1>14, <1>15 DEF Step

\* The disk: what is written after a reset was granted is old, and the flag is there.
LEMMA KeptKept ==
    ASSUME Inv, NEW r \in Requests, Arrive(r) \/ (Step(r) /\ ~Exit(r))
    PROVE  Kept'
<1> USE BridgeAssumption, RequestsWhenServing DEF Inv, Kept
<1>1. CASE Arrive(r)
  BY <1>1 DEF Arrive, Go, Same, bridge, reset, Placed, OldOnlyUnderFlag
<1>2. CASE Thread(r)
  BY <1>2 DEF Thread, Go, Same, bridge, reset, Placed, OldOnlyUnderFlag
<1>3. CASE Acquire(r)
  BY <1>3 DEF Acquire, Go, Answered, Same, bridge, reset, Placed, OldOnlyUnderFlag
<1>4. CASE Ensure(r)
  BY <1>4 DEF Ensure, Go, Answered, Same, bridge, reset, Placed, OldOnlyUnderFlag
<1>5. CASE GetAgent(r)
  BY <1>5 DEF GetAgent, Go, Answered, Leave, Consume, bridge, reset, Fine, Placed, OldOnlyUnderFlag
<1>6. CASE Look(r)
  BY <1>6 DEF Look, Go, Same, bridge, reset, Placed, OldOnlyUnderFlag
<1>7. CASE Build(r)
  BY <1>7 DEF Build, Go, Files, Fine, bridge, Written, PartNames, Placed, OldOnlyUnderFlag
<1>8. CASE BuildFails(r)
  BY <1>8 DEF BuildFails, Go, Answered, Leave, Fail, Files, Written, PartNames, Placed, OldOnlyUnderFlag
<1>9. CASE TakeAgent(r)
  BY <1>9 DEF TakeAgent, Go, Same, bridge, reset, Placed, OldOnlyUnderFlag
<1>10. CASE Poll(r)
  BY <1>10 DEF Poll, Go, Answered, Same, bridge, reset, Placed, OldOnlyUnderFlag
<1>11. CASE Work(r)
  BY <1>11 DEF Work, Go, Answered, Leave, Files, Fine, bridge, Written, PartNames, Placed, OldOnlyUnderFlag
<1>12. CASE FactoryReset(r)
  BY <1>12 DEF FactoryReset, Go, Same, reset, Placed, OldOnlyUnderFlag
<1>13. CASE Mark(r)
  <2>1. up = "serving" /\ UNCHANGED <<up, performed, todo, spoilt>> /\ pc'[Boot] = pc[Boot]
    BY <1>13 DEF Mark, Go, Answered, bridge, Placed
  <2>2. pc[Boot] = "idle"
    BY <2>1 DEF Placed
  <2>3. CASE flag' = TRUE /\ disk' = [p \in PartNames |-> IF disk[p] = "absent" THEN "absent" ELSE "old"]
    BY <2>1, <2>2, <2>3 DEF OldOnlyUnderFlag
  <2>4. CASE flag' \in {flag, TRUE} /\ UNCHANGED <<granted, disk>>
    <3>1. (granted => flag') /\ (flag => flag')
      BY <2>4
    <3> QED BY <2>1, <2>2, <2>4, <3>1 DEF OldOnlyUnderFlag
  <2> QED BY <1>13, <2>3, <2>4 DEF Mark
<1>14. CASE EnterPending(r)
  BY <1>14 DEF EnterPending, Go, Same, reset, Placed, OldOnlyUnderFlag
<1>15. CASE Reply(r)
  BY <1>15 DEF Reply, Go, Same, bridge, reset, Placed, OldOnlyUnderFlag
<1> QED BY <1>1, <1>2, <1>3, <1>4, <1>5, <1>6, <1>7, <1>8, <1>9, <1>10, <1>11, <1>12, <1>13, <1>14, <1>15 DEF Step

-----------------------------------------------------------------------------
(* The invariant and what follows from it.                                  *)

LEMMA BridgeInvariant == Spec => []Inv
<1>1. ASSUME Inv, [Next]_vars
      PROVE  Inv'
  <2>1. CASE Startup
    BY <1>1, <2>1, StartupKeeps
  <2>2. CASE Crash
    BY <1>1, <2>2, DownKeeps DEF Crash
  <2>3. CASE \E a \in Actors : Delete(a)
    BY <1>1, <2>3, DeleteKeeps
  <2>4. ASSUME NEW r \in Requests, Arrive(r) \/ (Step(r) /\ ~Exit(r))
        PROVE  Inv'
    BY <1>1, <2>4, PlacedKept, SingleKept, LockingKept, KeptKept DEF Inv
  <2>5. ASSUME NEW r \in Requests, Exit(r)
        PROVE  Inv'
    BY <1>1, <2>5, DownKeeps DEF Exit
  <2>6. CASE UNCHANGED vars
    <3> USE <1>1, <2>6 DEF Inv, vars, bridge, reset
    <3>1. Placed' /\ Single'
      BY DEF Placed, Single
    <3>2. Locking' /\ Kept'
      BY DEF Locking, Kept, OldOnlyUnderFlag
    <3> QED BY <3>1, <3>2
  <2> QED BY <1>1, <2>1, <2>2, <2>3, <2>4, <2>5, <2>6 DEF Next
<1> QED BY <1>1, InitInv, PTL DEF Spec

\* RAGBridge constructs one agent however many requests race for it, and the deletion of a
\* reset never meets open files.
THEOREM AgentIsSingle == Spec => []OneOpenAgent
<1>1. Inv => OneOpenAgent
  BY BridgeAssumption DEF Inv, Placed, Single, OneOpenAgent
<1> QED BY <1>1, BridgeInvariant, PTL

\* What with_agent runs has the agent in service for as long as it runs.
THEOREM LockedRequestsHaveTheAgent == Spec => []LockedUsesLive
<1>1. ASSUME Inv, NEW r \in Locked, pc[r] = "use"
      PROVE  /\ lock = r /\ got[r] = agent /\ agent \in open
             /\ shut => granted \/ unmarked
  <2>1. lock = r /\ got[r] = agent /\ agent \in open
    BY <1>1 DEF Inv, Locking, Single, UnderLock
  <2>2. \A z \in Resets : pc[z] # "mark"
    BY <1>1, <2>1 DEF Inv, Locking, UnderLock
  <2> QED BY <1>1, <2>1, <2>2 DEF Inv, Locking
<1>2. Inv => LockedUsesLive
  BY <1>1 DEF LockedUsesLive
<1> QED BY <1>2, BridgeInvariant, PTL

\* Data that a granted reset should have removed is under the flag until a start has removed
\* it, through every failure and stop in between.
THEOREM ResetIsNotForgotten == Spec => []OldOnlyUnderFlag
<1>1. Inv => OldOnlyUnderFlag
  BY DEF Inv, Kept
<1> QED BY <1>1, BridgeInvariant, PTL
=============================================================================
