\* Two stacked pull requests, one of them merged, a push and a handler that fails and runs again, under fairness.  The run stops when its pushes are over.
SPECIFICATION FairSpec
CONSTANTS
    p1 = p1
    p2 = p2
    main = main
    topic = topic
    stack = stack
    Pull = {p1, p2}
    Branch = {main, topic, stack}
    HeadOf <- Heads
    BaseOf <- Bases
    Mergeable = {p1}
    Pusher = {u1}
    Slot = {s1, s2}
    NoKey = NoKey
    MaxAttempts = 2
    MaxMoves = 1
    MaxCuts = 0
    MaxFails = 1
    MaxRefs = 1
    MaxRetargets = 0
PROPERTIES
    SettlesCurrent
CHECK_DEADLOCK FALSE
