\* Two repositories compete for one process, and two ids for one cache entry; two
\* contents requests and two movers of a branch make three commits.
SPECIFICATION StoreSpec
CONSTANTS
    Repo = {r1, r2}
    Sha = {s1, s2}
    Big = {s2}
    Client = {c1, c2}
    Proc = {h1, h2, h3}
    MaxProcs = 1
    MaxEntries = 1
    MaxReceived = 1
    MaxCrashes = 2
    NoProc = NoProc
    Path = {f}
    Writer = {c1, c2}
    Mover = {r1, r2}
    MaxCommits = 3
    MaxMoves = 2
SYMMETRY Symmetry
CHECK_DEADLOCK FALSE
INVARIANTS
    StoreTypeOK
    PoolSound
    FreshAnswer
    LandedStays
