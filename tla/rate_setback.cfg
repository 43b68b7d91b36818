\* Five calls of one subject, clocks that differ by one, no time that passes.
SPECIFICATION BucketSpec
CONSTANTS
    Calls = {c1, c2, c3, c4, c5}
    Subjects = {s1}
    Horizon = 0
    Capacity = 1
    Refill = 1
    MaxSkew = 1
    MaxDelay = 0
INVARIANT RateIsByTime
CHECK_DEADLOCK FALSE
