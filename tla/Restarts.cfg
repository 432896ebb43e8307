SPECIFICATION SettledSpec
CONSTANTS
    a = a
    NoVersion = NoVersion
    Versions = {a, b}
    Unloadable = {b}
    Rejected = {a}
    MaxRevisions = 1
    MaxLag = 1
    MaxClock = 1
    MaxEdits = 1
    MaxDeletes = 0
    MaxRestarts = 1
    MaxFailures = 0
INVARIANTS ReconcilePending Coherence SettledPublication RetentionHolds
PROPERTY TaintIsPermanent
CHECK_DEADLOCK FALSE
