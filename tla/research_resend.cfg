\* A request id that is sent again while a durable checkpointer keeps its thread.
SPECIFICATION MCFairSpec
CONSTANTS
    Runs = {r1}
    Docs = {1, 2}
    Keys = {k1}
    BatchSizes = {1}
    MaxChildren = 2
    MaxDepth = 1
    MaxModelCalls = 4
    MaxConcurrency = 2
    PlanWindow = 2
    RunDeadline = 4
    PlanLatency = 1
    Checkpointed = TRUE
    MaxSends = 2
INVARIANTS
    CompleteMeansCovered
