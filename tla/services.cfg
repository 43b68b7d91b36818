\* Three calls of two subjects, two keys, a bucket of one token, two memories;
\* two documents, two batches of two texts with one slot, two identities.
SPECIFICATION MCSpec
CONSTANTS
    Calls = {c1, c2, c3}
    Subjects = {s1, s2}
    Horizon = 3
    Kids = {k1, k2}
    Nobody = nobody
    Ttl = 2
    FetchTime = 1
    KeySets <- MCKeySets
    Capacity = 1
    Refill = 1
    MaxSkew = 1
    MaxDelay = 0
    Asked = {"analytics.incidents"}
    RoleSets <- MCRoleSets
    IdemKeys = {i1}
    Items = {m1, m2}
    Year = 1
    Runs = {r1}
    Ratings <- MCRatings
    Docs = {"d1", "d2"}
    Manifests <- MCManifests
    Target = 6
    Overlap = 4
    Elements <- MCElements
    Embeds = {e1, e2}
    Batches = 2
    BatchSize = 2
    MaxAttempts = 2
    Slots = 1
    Users = {u1, u2}
    Threads = {t1, t2}
    Nowhere = nowhere
    MaxTokens = 2
    MaxShown = 3
    MaxRuns = 1
    Usernames <- MCUsernames
SYMMETRY Alike
INVARIANTS
    ServicesTypeOK
    PublishedKeyAccepted
    RateLimitHolds
    OwnResultsOnly
    AuditIsFaithful
    OnlyReviewedIsExported
    WholeDocuments
    ChunksCoverTheText
    VectorsMatchTexts
    ProviderSlotsConserved
    SessionFollowsIdentity
    ProvisionedUsersWork
PROPERTIES
    RevokedKeyDies
    AnsweredNeverRunsAgain
    KeepsLifecycle
\* Calls end, and so does what the bounds let happen.
CHECK_DEADLOCK FALSE
