\* Three posts to a conversation, two of them under way at a time; three calls of
\* decide on one proposal, by its requester, another administrator and a viewer,
\* with right and wrong tokens, approving and denying; one request of the direct
\* route, sent twice over a durable checkpointer, stopped anywhere.
SPECIFICATION ApiSpec
CONSTANTS
    Posts = {q1, q2, q3}
    MaxInFlight = 2
    Chunks = 2
    SummaryAfter = 3
    Kept = 2
    Proposals = {p1}
    Requests = {q1, q2, q3}
    Subjects = {alice, bob, carol}
    Admins = {alice, bob}
    Lifetime = 1
    MaxTime = 2
    Docs = {1}
    Records = {11, 12}
    Unknown = {99}
    MaxLookups = 1
    MaxChunks = 1
    Checkpointed = TRUE
    MaxSends = 2
SYMMETRY Alike
INVARIANTS
    ChatTypeOK
    OutcomeIsHonest
    SummaryIsOfThePast
    ApprovalsTypeOK
    ExecutionAuthorised
    AnswerIsTheDecision
    TrailTellsTheStory
    TypeOK
    AnswerIsSupported
    DeniedReadsNothing
    SafeOnlyAfterRepair
    StreamNumbered
PROPERTIES
    LoneAppendHeals
    ExpiredIsFinal
    DecidesOnce
\* Posts, calls and sends end.
CHECK_DEADLOCK FALSE
