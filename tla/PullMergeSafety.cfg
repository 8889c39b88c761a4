\* Two merges of one pull request by any method race with edits of it, a push
\* that may conflict and a restart.  The run stops when every request it explores
\* is over.
SPECIFICATION Spec
CONSTANTS
    p1 = p1
    p2 = p2
    c1 = c1
    c2 = c2
    c3 = c3
    Keep = Keep
    None = None
    HeadOf <- OwnCommit
    Issue = {p1}
    Pull = {p1}
    Change = {c1, c2, c3}
    PushedToBase = {c3}
    Title = {t1, t2}
    Merger = {m1, m2}
    Editor = {e1, e2}
    MaxEdits = 2
    MaxFaults = 1
    Conflict <- Clash
SYMMETRY Symmetry
INVARIANTS
    TypeOK
    OpenCountExact
PROPERTIES
    MergeRecordedOnce
    NoLostEdit
CHECK_DEADLOCK FALSE
