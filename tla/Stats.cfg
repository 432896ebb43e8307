\* Two pods with a name.
SPECIFICATION BadSpec
CONSTANTS
    n1 = n1
    n2 = n2
    p1 = p1
    p2 = p2
    good = good
    bad = bad
    Nodes = {n1}
    Pods = {p1, p2}
    NodeOf <- OneNode
    Named = {p1, p2}
    Unknown = Unknown
    Versions = {good, bad}
    None = None
    Rejects <- RejectBad
    Within <- Distinct
    Base = 2
    Threshold = 2
    Mortal = {p2}
    MaxNonce <- Few
    MaxWrites = 2
    MaxSnapshots = 2
    MaxCleanups = 1
INVARIANTS
    CountedWereSent
    FailingIsUnanimous
PROPERTY RejectionNoticed
\* Nothing happens any more when every pod has been deleted.
CHECK_DEADLOCK FALSE
