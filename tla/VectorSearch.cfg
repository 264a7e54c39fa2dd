\* A synchronisation and a memory beside a search, with a failure and a restart.
SPECIFICATION Spec
CONSTANTS
    Job = job
    Workers = {w1}
    Searchers = {s1}
    MaxChunks = 3
    Matching = {1, 3}
    MaxUpdates = 2
    MaxFailures = 1
    MaxRestarts = 1
INVARIANTS TypeOK IndexIsCurrent CacheIsCoherent SearchIsExact
CHECK_DEADLOCK FALSE
