------------------------- MODULE MCRevisionHistory -------------------------
(***************************************************************************)
(* RevisionHistory from a settled state: version a has been served, then   *)
(* version b.                                                              *)
(***************************************************************************)
EXTENDS RevisionHistory

CONSTANTS a, b  \* versions

Retired(t) == [Absent EXCEPT !.exists = TRUE, !.lastPublishedAt = t, !.created = t, !.finalizer = TRUE]

Served(t) == [Retired(t) EXCEPT !.published = TRUE, !.inSync = "true", !.statusPublished = TRUE]

\* The state that Init leads to with a as desired version, after an edit to b.
SettledInit ==
    /\ now = 2
    /\ config = [exists |-> TRUE, desired |-> b,
                 status |-> [published |-> b, desired |-> b, cacheState |-> "InSync",
                             revisions |-> <<a, b>>]]
    /\ configView = config
    /\ configSynced = TRUE
    /\ api = [v \in Versions |-> CASE v = a -> Retired(1) [] v = b -> Served(2) [] OTHER -> Absent]
    /\ view = api
    /\ watch = <<>>
    /\ dirty = FALSE
    /\ ec = IdleEc
    /\ queue = <<>>
    /\ delayed = {b}
    /\ ecr = IdleEcr
    /\ snapshot = b
    /\ failing = {}
    /\ spent = [edits |-> 1, deletes |-> 0, restarts |-> 0, failures |-> 0]
    /\ publications = [v \in {a, b} |-> IF v = a THEN {b} ELSE {}]

SettledSpec == SettledInit /\ [][Next /\ Record]_<<vars, publications>>
=============================================================================
