SPECIFICATION FairSettledSpec
CONSTANTS
    a = a
    NoVersion = NoVersion
    Versions = {a, b}
    Unloadable = {}
    Rejected = {b}
    MaxRevisions = 2
    MaxLag = 1
    MaxClock = 1
    MaxEdits = 1
    MaxDeletes = 0
    MaxRestarts = 1
    MaxFailures = 0
PROPERTIES Converges FailingIsRolledBack
CHECK_DEADLOCK FALSE
