SPECIFICATION FairSpec
CONSTANTS
    a = a
    NoVersion = NoVersion
    Versions = {a, b}
    Unloadable = {b}
    Rejected = {}
    MaxRevisions = 2
    MaxLag = 1
    MaxClock = 1
    MaxEdits = 0
    MaxDeletes = 1
    MaxRestarts = 0
    MaxFailures = 1
PROPERTIES DeletionCompletes Converges FailingIsRolledBack
CHECK_DEADLOCK FALSE
