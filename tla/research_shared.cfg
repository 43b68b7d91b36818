\* Two runs whose workers share one slot of the semaphore; a planner may be slow
\* enough that a run is cancelled while its worker holds the slot.
SPECIFICATION MCFairSpec
CONSTANTS
    Runs = {r1, r2}
    Docs = {1, 2}
    Keys = {k1}
    BatchSizes = {1}
    MaxChildren = 2
    MaxDepth = 0
    MaxModelCalls = 3
    MaxConcurrency = 1
    PlanWindow = 1
    RunDeadline = 3
    PlanLatency = 2
    Checkpointed = FALSE
    MaxSends = 1
INVARIANTS
    SlotsConserved
PROPERTIES
    HungWorkersAreAnswered
