\* A chat, a poll, an upload and a reset beside a pool of two threads.
SPECIFICATION Spec
CONSTANTS
    Chats = {c1}
    Polls = {p1}
    Resets = {z1}
    Uploads = {u1}
    PoolSize = 2
    MaxFailures = 1
    MaxCrashes = 1
    Boot = boot
    None = none
INVARIANTS OneOpenAgent OldOnlyUnderFlag LockedUsesLive
PROPERTIES Answers
CHECK_DEADLOCK FALSE
