\* One memory; a deletion that fails between the change and its event, and
\* another one.
SPECIFICATION MemorySpec
CONSTANTS
    Calls = {c1, c2, c3}
    Subjects = {s1}
    Horizon = 0
    Items = {m1}
    Year = 1
INVARIANTS
    DeletionIsAudited
CHECK_DEADLOCK FALSE
