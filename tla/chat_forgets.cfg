\* Three messages, one after the other.
SPECIFICATION ChatSpec
CONSTANTS
    Posts = {o1, o2, o3}
    MaxInFlight = 1
    Chunks = 1
    SummaryAfter = 3
    Kept = 2
INVARIANTS
    NothingForgotten
CHECK_DEADLOCK FALSE
