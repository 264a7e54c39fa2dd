\* Two questions, one by a synchronous chat, the other a repetition; three sessions; one failure.
SPECIFICATION Spec
CONSTANTS
    q1 = q1
    q2 = q2
    None = none
    Questions = {q1, q2}
    Chats = {q1}
    Text <- MCText
    MaxRounds = 1
    Loaded = 1
    Limit = 2
    MaxSessions = 3
    MaxFailures = 1
INVARIANTS HistoryIsOwn MemoryIsBounded
CHECK_DEADLOCK FALSE
