\* Two calls around the instant of expiry.
SPECIFICATION ApprovalsSpec
CONSTANTS
    Proposals = {p1}
    Requests = {q1, q2}
    Subjects = {alice}
    Admins = {alice}
    Lifetime = 1
    MaxTime = 2
INVARIANTS
    ExpiredNeverExecuted
CHECK_DEADLOCK FALSE
