\* Two enqueuers and two claim loops race over two rows and one key, with two
\* attempts per job and one crash or lost settle, under fairness.
SPECIFICATION FairSpec
CONSTANTS
    Pk = {j1, j2}
    Key = {k1}
    NoKey = NoKey
    Worker = {w1, w2}
    Client = {c1, c2}
    MaxAttempts = 2
    MaxFaults = 1
INVARIANTS
    TypeOK
    KeyExclusive
    LeaseExclusive
PROPERTIES
    ParkedForGood
    ImplementsLedger
    NoStarvation
    EveryJobSettles
