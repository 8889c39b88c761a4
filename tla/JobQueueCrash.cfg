\* One crash: a job that was running stays running (finding).
SPECIFICATION FairSpec
CONSTANTS
    Pk = {j1}
    Key = {k1}
    NoKey = NoKey
    Worker = {w1}
    Client = {c1}
    MaxAttempts = 2
    MaxFaults = 1
PROPERTIES
    SurvivesRestart
