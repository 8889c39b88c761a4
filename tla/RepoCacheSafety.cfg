\* Three repositories compete for two entries while one of them is pushed to.
SPECIFICATION Spec
CONSTANTS
    Dir = {d1, d2, d3}
    Reader = {r1, r2}
    Pusher = {q1}
    Handle = {h1, h2, h3}
    MaxRepos = 2
    PerRepo = 1
    MaxPushes = 1
    Lazy = Lazy
SYMMETRY Symmetry
INVARIANTS
    TypeOK
    Exclusive
    Bounded
    FreshRead
