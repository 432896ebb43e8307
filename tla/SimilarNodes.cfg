\* The nodeID n1 is a part of the nodeID n2.
SPECIFICATION FairSpec
CONSTANTS
    n1 = n1
    n2 = n2
    p1 = p1
    p2 = p2
    good = good
    bad = bad
    Nodes = {n1, n2}
    Pods = {p1, p2}
    NodeOf <- TwoNodes
    Named = {p1, p2}
    Unknown = Unknown
    Versions = {bad}
    None = None
    Rejects <- RejectBadInN1
    Within <- Contained
    Base = 2
    Threshold = 2
    Mortal = {}
    MaxNonce <- Few
    MaxWrites = 2
    MaxSnapshots = 2
    MaxCleanups = 0
PROPERTY RejectionNoticed
