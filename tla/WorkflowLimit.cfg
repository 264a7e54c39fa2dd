\* Reviews and retries against the recursion limit of LangGraph.
SPECIFICATION Spec
CONSTANTS
    Tools = {"RAG", "LLM"}
    MaxSteps = 2
    MaxReplans = 2
    MaxReviews = 2
    MaxRemediations = 2
    RecursionLimit = 25
CONSTRAINT Straight
INVARIANTS LimitNeedsReplan
CHECK_DEADLOCK FALSE
