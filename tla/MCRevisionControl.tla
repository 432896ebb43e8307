------------------------- MODULE MCRevisionControl -------------------------
(***************************************************************************)
(* RevisionControl for model checking: its instances start from scratch    *)
(* or from a settled state, in which version a is served.                  *)
(***************************************************************************)
EXTENDS RevisionControl

CONSTANT a  \* a version

Served == [Absent EXCEPT !.exists = TRUE, !.published = TRUE, !.inSync = "true",
                         !.statusPublished = TRUE, !.lastPublishedAt = 1,
                         !.created = 1, !.finalizer = TRUE]

SettledStatus == [published |-> a, desired |-> a, cacheState |-> "InSync", revisions |-> <<a>>]

\* The state that Init leads to with a as desired version.
SettledInit ==
    /\ now = 1
    /\ config = [exists |-> TRUE, desired |-> a, status |-> SettledStatus]
    /\ configView = config
    /\ configSynced = TRUE
    /\ api = [v \in Versions |-> IF v = a THEN Served ELSE Absent]
    /\ view = api
    /\ watch = <<>>
    /\ dirty = FALSE
    /\ ec = IdleEc
    /\ queue = <<>>
    /\ delayed = {a}
    /\ ecr = IdleEcr
    /\ snapshot = a
    /\ failing = {}
    /\ spent = [edits |-> 0, deletes |-> 0, restarts |-> 0, failures |-> 0]

SettledSpec == SettledInit /\ [][Next]_vars

FairSettledSpec == SettledSpec /\ Fairness
=============================================================================
