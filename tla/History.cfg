SPECIFICATION SettledSpec
CONSTANTS
    a = a
    b = b
    NoVersion = NoVersion
    Versions = {a, b, c}
    Unloadable = {c}
    Rejected = {}
    MaxRevisions = 3
    MaxLag = 1
    MaxClock = 2
    MaxEdits = 3
    MaxDeletes = 0
    MaxRestarts = 0
    MaxFailures = 0
INVARIANT RollbackToLatest
CHECK_DEADLOCK FALSE
