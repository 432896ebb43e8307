SPECIFICATION Spec
CONSTANTS
    a = a
    NoVersion = NoVersion
    Versions = {a, b}
    Unloadable = {b}
    Rejected = {a}
    MaxRevisions = 2
    MaxLag = 2
    MaxClock = 1
    MaxEdits = 1
    MaxDeletes = 0
    MaxRestarts = 0
    MaxFailures = 0
INVARIANTS TypeOK SettledPublication
PROPERTY PublishUntainted
CHECK_DEADLOCK FALSE
