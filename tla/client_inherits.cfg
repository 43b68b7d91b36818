\* Two identities, one after the other in one session.
SPECIFICATION ClientSpec
CONSTANTS
    Users = {u1, u2}
    Threads = {t1, t2}
    Nowhere = nowhere
    MaxTokens = 2
    MaxShown = 2
    MaxRuns = 1
INVARIANT NothingInherited
\* The bounds end a session.
CHECK_DEADLOCK FALSE
