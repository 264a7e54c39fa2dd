------------------------------ MODULE JobBoard ------------------------------
(***************************************************************************)
(* What a client is promised of the background runner, without its locks,  *)
(* rows and threads' program counters: a job is nowhere, in the hand of    *)
(* the request that brings it (the desk), in one first-come queue, or in   *)
(* one worker's hand, and it moves on in that order.  A job whose result   *)
(* is there is never brought again, and a result stands as long as nobody  *)
(* has the job in hand.                                                    *)
(***************************************************************************)
EXTENDS Naturals, Sequences

CONSTANTS Jobs, Workers, Desk, None

VARIABLES
    waiting,   \* the queue
    hand,      \* the job each thread has in hand
    ended      \* the jobs whose result is there

board == <<waiting, hand, ended>>

Threads == Workers \cup {Desk}

Nowhere(k) == /\ \A i \in 1..Len(waiting) : waiting[i] # k
              /\ \A t \in Threads : hand[t] # k

Init ==
    /\ waiting = <<>> /\ ended = {}
    /\ hand = [t \in Threads |-> None]

\* A request brings a new job: no id is used twice.
Receive(k) ==
    /\ hand[Desk] = None /\ Nowhere(k) /\ k \notin ended
    /\ hand' = [hand EXCEPT ![Desk] = k]
    /\ UNCHANGED <<waiting, ended>>

Accept ==
    /\ hand[Desk] # None
    /\ waiting' = Append(waiting, hand[Desk])
    /\ hand' = [hand EXCEPT ![Desk] = None]
    /\ UNCHANGED ended

Start(w) ==
    /\ hand[w] = None /\ waiting # <<>>
    /\ hand' = [hand EXCEPT ![w] = Head(waiting)]
    /\ waiting' = Tail(waiting)
    /\ UNCHANGED ended

Leave(t) ==
    /\ hand[t] # None
    /\ hand' = [hand EXCEPT ![t] = None]
    /\ UNCHANGED <<waiting, ended>>

\* Results come, and may be withdrawn by a new plan, only while somebody has the
\* job.
Work ==
    /\ UNCHANGED <<waiting, hand>>
    /\ \A k \in Jobs : Nowhere(k) => (k \in ended' <=> k \in ended)

\* The process ends: every job is dropped, every result stays, and what was
\* interrupted may be given one.
Stop ==
    /\ waiting' = <<>>
    /\ hand' = [t \in Threads |-> None]
    /\ ended \subseteq ended'

Next ==
    \/ \E k \in Jobs : Receive(k)
    \/ Accept
    \/ \E w \in Workers : Start(w)
    \/ \E t \in Threads : Leave(t)
    \/ Work
    \/ Stop

Spec == Init /\ [][Next]_board
=============================================================================
