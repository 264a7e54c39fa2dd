\* Background tasks only, with cancellation, retry, lost writes and one restart.
SPECIFICATION Spec
CONSTANTS
    Tasks = {k1, k2}
    Workers = {w1}
    Api = api
    None = none
    RecursionLimit = 6
    MaxLost = 1
    MaxRestarts = 1
    MaxChats = 0
SYMMETRY TaskSymmetry
INVARIANTS OneOwner NoRetryOfLiveTask
PROPERTIES EndedIsStable KeepsBoard FollowsGraph
CHECK_DEADLOCK FALSE
