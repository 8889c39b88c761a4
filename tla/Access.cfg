\* Three requests for one device code and one authorization code; a bucket of
\* two units over three windows; two tokens touched over two
\* ticks; two requests over three names and two repositories, one redirect lost.
SPECIFICATION AccessSpec
CONSTANTS
    User = {u1, u2}
    App = {a1, a2}
    Uri = {uri}
    DeviceCode = {d1}
    AuthCode = {c1}
    Request = {q1, q2, q3}
    MaxFails = 1
    MaxTokens = 2
    NoUser = NoUser
    Bucket = {b1}
    Call = {k1, k2, k3}
    Limit = 2
    MaxWindows = 3
    Token = {t1, t2}
    Toucher = {o1, o2}
    QueueSize = 2
    MaxTime = 2
    Name = {q1, q2, q3}
    Session = {u1, u2}
    NoName = NoName
    MaxRepos = 2
    MaxRedirectFaults = 1
SYMMETRY Symmetry
CHECK_DEADLOCK FALSE
INVARIANTS
    AccessTypeOK
    SingleUse
    OnlyApproved
    RightClient
    BudgetKept
    LastSentArrives
    OldNamesLead
