\* One pull request, two pushes at once, one of them cut short or failing in part, a base change, and a handler whose failure parks its job.  The run stops when its pushes are over.
SPECIFICATION Spec
CONSTANTS
    p1 = p1
    p2 = p2
    main = main
    topic = topic
    stack = stack
    Pull = {p1}
    Branch = {main, topic}
    HeadOf <- Heads
    BaseOf <- Bases
    Mergeable = {}
    Pusher = {u1, u2}
    Slot = {s1}
    NoKey = NoKey
    MaxAttempts = 1
    MaxMoves = 2
    MaxCuts = 1
    MaxFails = 1
    MaxRefs = 1
    MaxRetargets = 1
SYMMETRY Symmetry
INVARIANTS
    TypeOK
    NothingElseGoesStale
CHECK_DEADLOCK FALSE
