\* One send of a request that names directory records.
SPECIFICATION Spec
CONSTANTS
    Docs = {1}
    Records = {11, 12}
    Unknown = {99}
    MaxLookups = 2
    MaxChunks = 1
    Checkpointed = FALSE
    MaxSends = 1
INVARIANTS
    EveryStreamNumbered
CHECK_DEADLOCK FALSE
