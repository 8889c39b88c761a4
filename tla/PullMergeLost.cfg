\* Two pull requests merged at once.
SPECIFICATION Spec
CONSTANTS
    p1 = p1
    p2 = p2
    c1 = c1
    c2 = c2
    c3 = c3
    Keep = Keep
    None = None
    HeadOf <- OwnCommit
    Issue = {p1, p2}
    Pull = {p1, p2}
    Change = {c1, c2, c3}
    PushedToBase = {}
    Title = {t1, t2}
    Merger = {m1, m2}
    Editor = {}
    MaxEdits = 0
    MaxFaults = 0
    Conflict <- NoConflict
SYMMETRY Symmetry
PROPERTIES
    BaseOnlyGrows
CHECK_DEADLOCK FALSE
