\* A lookup of an object that is pushed later.
SPECIFICATION LookupSpec
CONSTANTS
    Repo = {r1}
    Sha = {s1, s2}
    Big = {s2}
    Client = {c1}
    Proc = {p1, p2}
    MaxProcs = 1
    MaxEntries = 1
    MaxReceived = 1
    MaxCrashes = 2
    NoProc = NoProc
INVARIANT CacheStaysTrue
