\* Retrieval, answer and data tools: retries, replans, a review round, cancellation.
SPECIFICATION Spec
CONSTANTS
    Tools = {"RAG", "LLM", "DATA_PROFILE"}
    MaxSteps = 2
    MaxReplans = 2
    MaxReviews = 1
    MaxRemediations = 2
    RecursionLimit = 11
INVARIANTS RemediationBounded NoRetryOfRetry StepRowsMirror AllStepsSettled EndStatusDerived
PROPERTIES FollowsGraph
CHECK_DEADLOCK FALSE
