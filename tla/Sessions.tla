------------------------------ MODULE Sessions ------------------------------
(***************************************************************************)
(* Conversations: the tables of sessions and answers (storage/sqlite/      *)
(* database_manager.py), the session the agent is in (AgentSessionFacade), *)
(* its short memory and their summary (capabilities/memory/service.py).    *)
(* Requests that change sessions hold the bridge's lock; background        *)
(* questions are answered beside them by a worker under the execution      *)
(* lock, a synchronous chat holds both.  An answer's effects on the memory *)
(* are steps between awaits; small talk and questions about the memory     *)
(* only store their row.                                                   *)
(* A round, question and answer, is two messages of the code's memory and  *)
(* one entry here; a row is "late" when it is more than 180 s younger than *)
(* the row before it.                                                      *)
(***************************************************************************)
EXTENDS Naturals, Sequences, FiniteSets, SequencesExt, FiniteSetsExt

CONSTANTS Questions,   \* each is asked once
          Chats,       \* those that come by POST /api/chat
          Text,        \* the words of a question
          MaxRounds,   \* MAX_HISTORY_ROUNDS counts messages: half of it, in rounds
          Loaded,      \* rounds a switch loads, 4 in the code
          Limit,       \* rows the history of a session shows, 60 in the code
          MaxSessions, \* bound: sessions ever created
          MaxFailures, \* bound: writes and models that fail
          None

ASSUME SessionsAssumption ==
    /\ Chats \subseteq Questions /\ DOMAIN Text = Questions /\ None \notin Questions
    /\ {MaxRounds, Loaded, Limit, MaxSessions} \subseteq Nat \ {0} /\ MaxFailures \in Nat

VARIABLES sessions,  \* table sessions: the ids there are, each with the number of its creation
          seq,       \* sqlite_sequence: the largest id ever given
          created,   \* history: sessions created so far
          rows,      \* table conversations: the answers with each session's id, oldest first
          current,   \* agent.session_id
          phase,     \* of each question: new, asked, running or done
          own,       \* the session id of its request context
          asked,     \* history: the creation of the session it was asked in; 0 if that was gone
          runner,    \* the question that holds the execution lock
          step,      \* where its run is
          short,     \* agent.short_memory
          summary,   \* agent.summary_memory: the questions it covers
          dialog,    \* dialog_text
          new,       \* new_summary
          failures, unsummed \* failures, and those that kept the memory from being compressed

tables == <<sessions, seq, created, rows>>
request == <<phase, own, asked>>
memory == <<short, summary>>
local == <<dialog, new>>
vars == <<tables, current, request, runner, step, memory, local, failures, unsummed>>

Live == DOMAIN sessions
Ids == 1..MaxSessions
NotGiven == MaxSessions + 1 \* as asked: of an id that no session has had
Newest(t, n) == IF Len(t) <= n THEN t ELSE SubSeq(t, Len(t) - n + 1, Len(t))

\* The ids are AUTOINCREMENT: SQLite gives none a second time.
NewId_Wrong(t) == Max(DOMAIN t \cup {0}) + 1
NewId(t) == seq + 1

\* get_recent_conversations, as switch_session appends it to the memory.
Recent(s) == LET r == Newest(rows[s], Loaded) IN [i \in DOMAIN r |-> r[i].q]

\* A question that is asked again in time replaces its draft.
IsDraft(old, r) == Text[old.q] = Text[r.q] /\ ~r.late
Join(acc, r) == IF acc # <<>> /\ IsDraft(Last(acc), r) THEN Append(Front(acc), r) ELSE Append(acc, r)

\* conversation_records_to_messages, after each of the rows.
Compact(t) ==
    LET joined[n \in 0..Len(t)] == IF n = 0 THEN <<>> ELSE Join(joined[n - 1], t[n])
    IN  joined[Len(t)]

\* What the page shows of a session: load_history_messages.
Shown(s) == Compact(Newest(rows[s], Limit))

Init ==
    /\ sessions = [i \in {1} |-> 1] /\ seq = 1 /\ created = 1 /\ current = 1
    /\ rows = [s \in Ids |-> <<>>]
    /\ phase = [q \in Questions |-> "new"]
    /\ own = [q \in Questions |-> 0] /\ asked = [q \in Questions |-> 0]
    /\ runner = None /\ step = "idle"
    /\ short = <<>> /\ summary = {}
    /\ dialog = <<>> /\ new = {}
    /\ failures = 0 /\ unsummed = 0

-----------------------------------------------------------------------------
(* Requests.                                                                *)

\* with_agent: a synchronous chat has the bridge's lock until it is answered.
BridgeFree == \A c \in Chats : phase[c] \in {"new", "done"}

CreationOf(s) == IF s \in Live THEN sessions[s] ELSE IF s <= seq THEN 0 ELSE NotGiven

\* The page may name a session that another page has deleted, or, if it is older than a reset,
\* an id that the new database has not given yet: every route takes any id.
Ask(q, s) ==
    /\ BridgeFree /\ phase[q] = "new"
    /\ phase' = [phase EXCEPT ![q] = "asked"] /\ own' = [own EXCEPT ![q] = s]
    /\ asked' = [asked EXCEPT ![q] = CreationOf(s)]
    /\ UNCHANGED <<tables, current, runner, step, memory, local, failures, unsummed>>

\* create_session and the start of its memory.
Insert(t) ==
    /\ created < MaxSessions /\ created' = created + 1
    /\ sessions' = [i \in DOMAIN t \cup {NewId(t)} |-> IF i \in DOMAIN t THEN t[i] ELSE created + 1]
    /\ seq' = Max({seq, NewId(t)})
    /\ current' = NewId(t) /\ short' = <<>>

Create ==
    /\ BridgeFree /\ Insert(sessions)
    /\ summary' = {}
    /\ UNCHANGED <<rows, request, runner, step, dialog, new, failures, unsummed>>

Load(s) == current' = s /\ short' = Recent(s)

Switch(s) ==
    /\ BridgeFree /\ Load(s) /\ summary' = {}
    /\ UNCHANGED <<tables, request, runner, step, dialog, new, failures, unsummed>>

\* The answers go with the session, or with an id that has none; an agent in it goes on in a
\* session that is left, or in a new one.
Delete(s) ==
    /\ BridgeFree
    /\ rows' = [rows EXCEPT ![s] = <<>>]
    /\ LET left == [i \in Live \ {s} |-> sessions[i]]
       IN  IF current # s
           THEN sessions' = left /\ UNCHANGED <<seq, created, current, short, summary>>
           ELSE /\ summary' = {}
                /\ \/ /\ sessions' = left /\ UNCHANGED <<seq, created>>
                      /\ \E i \in DOMAIN left : Load(i)
                   \/ left = <<>> /\ Insert(left)
    /\ UNCHANGED <<request, runner, step, dialog, new, failures, unsummed>>

-----------------------------------------------------------------------------
(* A run and what its answer does to the memory.                            *)

Fail == failures < MaxFailures /\ failures' = failures + 1
Requested == UNCHANGED <<sessions, seq, created, current, own, asked>>
Finish == /\ runner' = None /\ step' = "idle" /\ phase' = [phase EXCEPT ![runner] = "done"]
          /\ dialog' = <<>> /\ new' = {}
GoOn(where) == step' = where /\ UNCHANGED <<runner, phase>>

\* The execution lock: one run at a time.
Enter(q) ==
    /\ runner = None /\ phase[q] = "asked"
    /\ runner' = q /\ step' = "answer" /\ phase' = [phase EXCEPT ![q] = "running"]
    /\ Requested /\ UNCHANGED <<rows, memory, local, failures, unsummed>>

\* The answer of the graph.
Answering == step \in {"answer", "graph"}

\* An empty or a canceled answer leaves no trace in the memory.
NoAnswer ==
    /\ Answering /\ Finish
    /\ Requested /\ UNCHANGED <<rows, memory, failures, unsummed>>

Remember ==
    /\ Answering /\ GoOn("store") /\ short' = Append(short, runner)
    /\ Requested /\ UNCHANGED <<rows, summary, local, failures, unsummed>>

\* get_active_session_id: the context variable of the request comes before all others.
ActiveSession == own[runner]

\* add_conversation; a failure is logged.  It asks for no session of that id.
AddRow ==
    \/ /\ \E late \in BOOLEAN :
            rows' = [rows EXCEPT ![ActiveSession] = Append(@, [q |-> runner, late |-> late])]
       /\ UNCHANGED failures
    \/ Fail /\ UNCHANGED rows

\* Small talk, or a question about the memory: the row is stored with the answer, and a review
\* that rejects it has the graph answer the same question again.
AnswerAtOnce ==
    /\ step = "answer" /\ AddRow
    /\ Finish \/ (GoOn("graph") /\ UNCHANGED local)
    /\ Requested /\ UNCHANGED <<memory, unsummed>>

\* The row is awaited.
Store ==
    /\ step = "store" /\ GoOn("check") /\ AddRow
    /\ Requested /\ UNCHANGED <<memory, local, unsummed>>

Check_Wrong ==
    /\ step = "check"
    /\ IF Len(short) = MaxRounds
       THEN GoOn("summarise") /\ dialog' = short /\ UNCHANGED new
       ELSE Finish
    /\ Requested /\ UNCHANGED <<rows, memory, failures, unsummed>>

\* The memory is full: its text is taken before the summary is awaited.
Check ==
    /\ step = "check"
    /\ IF Len(short) >= MaxRounds
       THEN GoOn("summarise") /\ dialog' = short /\ UNCHANGED new
       ELSE Finish
    /\ Requested /\ UNCHANGED <<rows, memory, failures, unsummed>>

\* A step that raises ends the effects, and the memory stays as it is.
Raises == Fail /\ unsummed' = unsummed + 1 /\ Finish

\* do_summary_update reads the summary there is when it starts.
Summarise ==
    /\ step = "summarise"
    /\ \/ GoOn("archive") /\ new' = summary \cup Range(dialog) /\ UNCHANGED <<dialog, failures, unsummed>>
       \/ Raises
    /\ Requested /\ UNCHANGED <<rows, memory>>

\* The summary that is there now is inserted in the vector store, awaited again.
Archive ==
    /\ step = "archive"
    /\ \/ GoOn("replace") /\ UNCHANGED <<local, failures, unsummed>>
       \/ summary # {} /\ Raises
    /\ Requested /\ UNCHANGED <<rows, short, summary>>

\* The memory is cleared, whatever is in it by now.
Replace ==
    /\ step = "replace" /\ Finish
    /\ summary' = new /\ short' = <<>>
    /\ Requested /\ UNCHANGED <<rows, failures, unsummed>>

-----------------------------------------------------------------------------
Run == NoAnswer \/ AnswerAtOnce \/ Remember \/ Store \/ Check \/ Summarise \/ Archive \/ Replace

Next ==
    \/ \E s \in Ids : Switch(s) \/ Delete(s) \/ \E q \in Questions : Ask(q, s)
    \/ Create \/ Run
    \/ \E q \in Questions : Enter(q)

Spec == Init /\ [][Next]_vars

-----------------------------------------------------------------------------
(* Properties.                                                              *)

\* Every variable has its type, and the execution lock is held while a run is somewhere.
TypeOK ==
    /\ Live \subseteq 1..seq /\ seq \in Ids /\ created \in Ids /\ current \in Ids
    /\ sessions \in [Live -> 1..created]
    /\ rows \in [Ids -> Seq([q : Questions, late : BOOLEAN])]
    /\ phase \in [Questions -> {"new", "asked", "running", "done"}]
    /\ own \in [Questions -> 0..MaxSessions] /\ asked \in [Questions -> 0..NotGiven]
    /\ runner \in Questions \cup {None} /\ (runner = None <=> step = "idle")
    /\ step \in {"idle", "answer", "graph", "store", "check", "summarise", "archive", "replace"}
    /\ short \in Seq(Questions) /\ summary \subseteq Questions
    /\ dialog \in Seq(Questions) /\ new \subseteq Questions
    /\ failures \in 0..MaxFailures /\ unsummed \in 0..failures

\* The history of a session holds what was asked in it, though answers come when the agent is
\* in another session or theirs is deleted; only what a page from before a reset asked under an
\* id not given yet, AskedBefore, stands there too.  The newest answer is shown last, however
\* long the history is and whichever drafts it replaces.
AskedBefore(q) == asked[q] = NotGiven
HistoryIsOwn ==
    \A s \in Live :
        LET shown == Shown(s)
        IN  /\ \A i \in DOMAIN shown :
                  asked[shown[i].q] = sessions[s] \/ AskedBefore(shown[i].q)
            /\ rows[s] # <<>> => shown # <<>> /\ Last(shown) = Last(rows[s])

MemoryLimit == IF Loaded >= MaxRounds THEN Loaded ELSE MaxRounds - 1

\* The memory that goes into every prompt stays bounded, though a switch fills it to its
\* limit at any moment of a compression; only a compression that fails lets it grow.
MemoryIsBounded == Len(short) <= MemoryLimit + 1 + unsummed
=============================================================================
