\* The submission race: a row that runs forever.
SPECIFICATION Spec
CONSTANTS
    Tasks = {k1, k2}
    Workers = {w1}
    Api = api
    None = none
    RecursionLimit = 6
    MaxLost = 0
    MaxRestarts = 0
    MaxChats = 0
INVARIANTS RefusalIsTruthful
CHECK_DEADLOCK FALSE
