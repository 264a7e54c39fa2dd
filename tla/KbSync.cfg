\* Synchronisation with edits, memories, unreadable files, failures and a crash.
SPECIFICATION Spec
CONSTANTS
    Docs = {d1, d2}
    MaxVersion = 2
    Parts = 2
    BatchSize = 1
    MaxMemories = 1
    MaxCrashes = 1
    MaxFailures = 1
    MayMisread = TRUE
    MayReset = TRUE
SYMMETRY Symmetry
INVARIANTS TypeOK SyncedIsExact RecordNotAhead RebuildHeals
CHECK_DEADLOCK FALSE
