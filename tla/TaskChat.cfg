\* A synchronous chat beside the background tasks, fairly scheduled.
SPECIFICATION FairSpec
CONSTANTS
    Tasks = {k1, k2}
    Workers = {w1}
    Api = api
    None = none
    RecursionLimit = 3
    MaxLost = 0
    MaxRestarts = 0
    MaxChats = 1
INVARIANTS OneGraphRun ContextIsOwn
PROPERTIES CanceledWasRequested AcceptedTasksLeave
CHECK_DEADLOCK FALSE
