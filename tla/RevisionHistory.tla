-------------------------- MODULE RevisionHistory --------------------------
(***************************************************************************)
(* RevisionControl with a history variable that records in which order the *)
(* revisions were really published, to compare rollbacks with it.          *)
(***************************************************************************)
EXTENDS RevisionControl

\* For every existing revision that was ever published: the existing revisions
\* that were published since it last was.
VARIABLE publications

NewlyPublished == {v \in Versions : api'[v].published /\ ~api[v].published}

Record ==
    publications' =
        [v \in {u \in DOMAIN publications : api'[u].exists} \cup NewlyPublished |->
            IF v \in NewlyPublished
            THEN {}
            ELSE {w \in publications[v] \cup NewlyPublished : api'[w].exists}]

HistoryInit == Init /\ publications = [v \in {} |-> {}]

HistorySpec == HistoryInit /\ [][Next /\ Record]_<<vars, publications>>

\* All revisions that were published after v are tainted, and v is not.
IsLatestWorking(v) ==
    /\ v \in DOMAIN publications
    /\ ~api[v].tainted
    /\ \A w \in publications[v] : api[w].tainted

\* The EnvoyConfig controller is about to publish another version than the
\* desired one, and what it has read is what the API server holds.
RollingBack ==
    /\ ec.publish \notin {NoVersion, config.desired}
    /\ ec.status.desired = config.desired /\ view = api

\* Every revision has a date of publication, and no two have the same.  The
\* desired version goes last whatever its date.
DistinctDates ==
    \A v \in Listed(api) \ {config.desired} :
        /\ api[v].lastPublishedAt # 0
        /\ \A w \in Listed(api) \ {config.desired, v} :
              api[v].lastPublishedAt # api[w].lastPublishedAt

(***************************************************************************)
(* The revisions are "ordered by time of publication"                      *)
(* (docs/design/discovery-service.md:24), and a rollback is to the last    *)
(* one that is not tainted: where no two dates are equal, that is the one  *)
(* that was really published last among those that work.                   *)
(***************************************************************************)
RollbackToLatest ==
    RollingBack /\ DistinctDates => IsLatestWorking(ec.publish)
=============================================================================
