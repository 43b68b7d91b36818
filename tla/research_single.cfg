\* One run with every partition, failure, retry and timeout of it.
SPECIFICATION MCFairSpec
CONSTANTS
    Runs = {r1}
    Docs = {1, 2, 3}
    Keys = {k1, k2}
    BatchSizes = {1, 2}
    MaxChildren = 2
    MaxDepth = 1
    MaxModelCalls = 4
    MaxConcurrency = 2
    PlanWindow = 2
    RunDeadline = 4
    PlanLatency = 1
    Checkpointed = FALSE
    MaxSends = 1
INVARIANTS
    TypeOK
    BudgetRespected
    CompleteMeansCovered
    SiblingsSurvive
    CitationsWereRead
    StreamWellFormed
PROPERTIES
    NoSuccessDiscarded
    EveryRunEnds
