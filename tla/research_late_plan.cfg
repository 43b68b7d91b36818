\* A planner slow enough that the workers' deadline falls after the run's.
SPECIFICATION MCFairSpec
CONSTANTS
    Runs = {r1}
    Docs = {1, 2, 3}
    Keys = {k1, k2}
    BatchSizes = {1, 2}
    MaxChildren = 2
    MaxDepth = 1
    MaxModelCalls = 4
    MaxConcurrency = 2
    PlanWindow = 2
    RunDeadline = 4
    PlanLatency = 3
    Checkpointed = FALSE
    MaxSends = 1
PROPERTIES
    NoSuccessDiscarded
