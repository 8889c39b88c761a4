\* Two reviewers, one of them the author, with two requests at once over two
\* reviews, a report or a push, two handler errors or lost enqueues; two
\* reporters with three requests over two check runs, one of them cut short.
SPECIFICATION ChecksSpec
CONSTANTS
    User = {u1, u2}
    Author = u1
    Client = {c1, c2}
    MaxReviews = 2
    Slot = {s1, s2}
    Issue = 0
    NoKey = 99
    MaxAttempts = 2
    MaxRequests = 3
    MaxReports = 1
    MaxFaults = 2
    Run = {r1, r2}
    Reporter = {p1, p2}
    MaxReported = 3
    MaxLost = 1
SYMMETRY Symmetry
CHECK_DEADLOCK FALSE
INVARIANTS
    ChecksTypeOK
    CacheSettles
    SuiteSettles
PROPERTIES
    FinalUnlessRaced
    CacheOnlyAdvances
    StaysCompleted
