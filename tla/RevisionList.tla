---------------------------- MODULE RevisionList ----------------------------
(***************************************************************************)
(* The pure part of pkg/reconcilers/marin3r/envoyconfig: what a reconcile  *)
(* of an EnvoyConfig decides from the list of EnvoyConfigRevisions it has  *)
(* read.  There is at most one revision per version of the resources (the  *)
(* name of a revision is derived from the version), so a list of revisions *)
(* is a function from versions to revisions, most of which may be Absent,  *)
(* and an ordered list is a sequence of versions.                          *)
(***************************************************************************)
EXTENDS Integers, Sequences, FiniteSetsExt, Functions

CONSTANTS
    Versions,      \* hashes of spec.resources
    NoVersion      \* the empty string where a version is expected

ASSUME VersionsAssumption == IsFiniteSet(Versions) /\ NoVersion \notin Versions

(***************************************************************************)
(* An EnvoyConfigRevision, as far as the controllers act on it:            *)
(*   published, tainted  the conditions RevisionPublished, RevisionTainted *)
(*   inSync              the condition ResourcesInSync                     *)
(*   statusPublished     status.published                                  *)
(*   lastPublishedAt     status.lastPublishedAt, 0 when it is not set      *)
(*   created             metadata.creationTimestamp                        *)
(*   finalizer, deleting metadata.finalizers, metadata.deletionTimestamp   *)
(* status.tainted always goes with the condition, status.providesVersions  *)
(* with the first publication.  Timestamps are whole seconds.              *)
(***************************************************************************)
Revision ==
    [exists: BOOLEAN, published: BOOLEAN, tainted: BOOLEAN,
     inSync: {"none", "true", "false"}, statusPublished: BOOLEAN,
     lastPublishedAt: Nat, created: Nat, finalizer: BOOLEAN, deleting: BOOLEAN]

Absent ==
    [exists |-> FALSE, published |-> FALSE, tainted |-> FALSE,
     inSync |-> "none", statusPublished |-> FALSE,
     lastPublishedAt |-> 0, created |-> 0, finalizer |-> FALSE, deleting |-> FALSE]

\* newRevisionForCurrentResources, created in the API at time t.
NewRevision(t) == [Absent EXCEPT !.exists = TRUE, !.created = t]

Listed(revs) == {v \in Versions : revs[v].exists}

(***************************************************************************)
(* SortByPublication(desired, list): the desired version goes last, the    *)
(* others by publication date, or by creation date when they have none.    *)
(* The sort is stable and the list comes from a cache in no particular     *)
(* order, so any order of revisions with equal dates is possible: the      *)
(* operator is the set of the possible results.                            *)
(***************************************************************************)
PublicationDate(rev) ==
    IF rev.lastPublishedAt = 0 THEN rev.created ELSE rev.lastPublishedAt

SortByPublication(desired, revs) ==
    {s \in Bijection(1..Cardinality(Listed(revs)), Listed(revs)) :
        \A i, j \in DOMAIN s : i < j =>
            /\ s[i] # desired
            /\ \/ s[j] = desired
               \/ PublicationDate(revs[s[i]]) <= PublicationDate(revs[s[j]])}

\* getVersionToPublish: the untainted revision with the highest index.
VersionToPublish(list, revs) ==
    LET untainted == {i \in DOMAIN list : ~revs[list[i]].tainted}
    IN  IF untainted = {} THEN NoVersion ELSE list[Max(untainted)]

\* Mutant: the case of a version that is not the latest is not assigned.
CacheStateUnassigned(list, version) ==
    CASE version = NoVersion       -> "RollbackFailed"
      [] version = list[Len(list)] -> "InSync"
      [] OTHER                     -> ""

CacheStateOf(list, version) ==
    CASE version = NoVersion        -> "RollbackFailed"
      [] version # NoVersion /\ version # list[Len(list)] -> "Rollback"
      [] OTHER                      -> "InSync"

(***************************************************************************)
(* isRevisionPublishedConditionReconciled: the revisions to unpublish, and *)
(* the one to publish unless it is already.                                *)
(***************************************************************************)
\* Mutant: nothing is unpublished when there is nothing to publish instead.
ShouldBeFalseIfReplaced(version, revs) ==
    {v \in Listed(revs) : version # NoVersion /\ v # version /\ revs[v].published}

ShouldBeFalse(version, revs) ==
    {v \in Listed(revs) : v # version /\ revs[v].published}

ShouldBeTrue(version, revs) ==
    IF version # NoVersion /\ ~revs[version].published THEN version ELSE NoVersion

\* isRevisionRetentionReconciled: popRevision takes the lowest index until
\* at most `retention` items are left.
ShouldBeDeletedButOne(list, retention) ==  \* mutant: off by one
    {list[i] : i \in {j \in DOMAIN list : j < Len(list) - retention}}

ShouldBeDeleted(list, retention) ==
    {list[i] : i \in {j \in DOMAIN list : j <= Len(list) - retention}}

Retained(list, retention) ==
    IF Len(list) > retention
    THEN SubSeq(list, Len(list) - retention + 1, Len(list))
    ELSE list
=============================================================================
