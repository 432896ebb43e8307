--------------------------- MODULE RevisionControl ---------------------------
(***************************************************************************)
(* The two controllers of the discovery service, for one EnvoyConfig:      *)
(*                                                                         *)
(*   EnvoyConfig controller          decides which revision is published   *)
(*   EnvoyConfigRevision controller  loads the published revision into the *)
(*                                   xDS server cache, taints revisions    *)
(*                                                                         *)
(* They run in one process, with one worker each.  They never talk to each *)
(* other: they read EnvoyConfigRevisions from the informer cache `view`,   *)
(* which follows the Kubernetes API server through the event stream        *)
(* `watch`, and write to the API server, which refuses an update made from *)
(* an object that is not the current one.                                  *)
(*                                                                         *)
(* One worker step is one call to the API server or to the xDS cache.      *)
(***************************************************************************)
EXTENDS RevisionList

CONSTANTS
    Unloadable,    \* versions GenerateSnapshot cannot load (StatusError)
    Rejected,      \* versions that every Envoy client ends up rejecting
    MaxRevisions,  \* maxRevisions in reconcile_revisions.go
    MaxLag,        \* bound: events the watch stream may hold
    MaxClock,      \* bound: the clock, in seconds
    MaxEdits,      \* bound: edits of EnvoyConfig.spec.resources
    MaxDeletes,    \* bound: deletions of revisions or of the EnvoyConfig by users
    MaxRestarts,   \* bound: restarts of the discovery service
    MaxFailures    \* bound: API or Secret reads and writes that fail

ASSUME ControlAssumption ==
    /\ Unloadable \subseteq Versions
    /\ Rejected \subseteq Versions
    /\ MaxRevisions \in Nat \ {0}
    /\ MaxLag \in Nat \ {0}
    /\ MaxClock \in Nat \ {0}
    /\ {MaxEdits, MaxDeletes, MaxRestarts, MaxFailures} \subseteq Nat

VARIABLES
    now,       \* the latest date that has been read from the clock
    config,    \* the EnvoyConfig in the API server
    configView,   \* the EnvoyConfig in the informer cache
    configSynced, \* no event of the EnvoyConfig is on its way to the cache
    api,       \* the EnvoyConfigRevisions in the API server
    view,      \* the EnvoyConfigRevisions in the informer cache
    watch,     \* the events of EnvoyConfigRevisions on their way to the cache
    dirty,     \* the EnvoyConfig is in its controller's work queue
    ec,        \* the worker of the EnvoyConfig controller
    queue,     \* the work queue of the EnvoyConfigRevision controller
    delayed,   \* the revisions to be queued after a delay or a backoff
    ecr,       \* the worker of the EnvoyConfigRevision controller
    snapshot,  \* the version in the xDS cache for this nodeID
    failing,   \* versions whose percentage of failing pods is 100% in the stats
    spent      \* how much of each bound the environment has used

apiVars   == <<config, configView, configSynced, api, view, watch>>
xdsVars   == <<snapshot, failing>>
vars == <<now, config, configView, configSynced, api, view, watch, dirty, ec,
          queue, delayed, ecr, snapshot, failing, spent>>

Dates == 1..MaxClock

CacheStates == {"InSync", "Rollback", "RollbackFailed"}

\* status of the EnvoyConfig.  Its two conditions are functions of it.
Status == [published: Versions \cup {NoVersion}, desired: Versions \cup {NoVersion},
           cacheState: CacheStates \cup {"none"}, revisions: Seq(Versions)]

NoStatus == [published |-> NoVersion, desired |-> NoVersion,
             cacheState |-> "none", revisions |-> <<>>]

Config == [exists: BOOLEAN, desired: Versions, status: Status]

Event == [version: Versions, rev: Revision]

(***************************************************************************)
(* The worker of the EnvoyConfig controller, from the reads of a reconcile *)
(* to its last write:                                                      *)
(*   list              the revisions it has read, in order                 *)
(*   create, unpublish, publish, delete   the writes still to be made      *)
(*   copy              its copies of the revisions to publish or unpublish *)
(*   fresh             the copies that are still the object in the API     *)
(*   current           so is its copy of the EnvoyConfig                   *)
(*   status            the status the EnvoyConfig is to have               *)
(*   update            which is not the one it has read                    *)
(***************************************************************************)
EcWorker ==
    [busy: BOOLEAN, list: Seq(Versions), create: Versions \cup {NoVersion},
     unpublish: SUBSET Versions, publish: Versions \cup {NoVersion},
     delete: SUBSET Versions, copy: [Versions -> Revision], fresh: SUBSET Versions,
     current: BOOLEAN, status: Status, update: BOOLEAN]

IdleEc ==
    [busy |-> FALSE, list |-> <<>>, create |-> NoVersion, unpublish |-> {},
     publish |-> NoVersion, delete |-> {}, copy |-> [v \in Versions |-> Absent],
     fresh |-> {}, current |-> FALSE, status |-> NoStatus, update |-> FALSE]

\* The worker of the EnvoyConfigRevision controller: the revision it has read,
\* whether it is current, and whether a VersionTracker has been obtained.
EcrWorker ==
    [pc: {"idle", "initialize", "finalize", "unfinalize", "load", "taint", "status"},
     version: Versions \cup {NoVersion}, rev: Revision, fresh: BOOLEAN, vt: BOOLEAN]

IdleEcr == [pc |-> "idle", version |-> NoVersion, rev |-> Absent,
            fresh |-> FALSE, vt |-> FALSE]

Init ==
    /\ now = 1
    /\ \E v \in Versions : config = [exists |-> TRUE, desired |-> v, status |-> NoStatus]
    /\ configView = config
    /\ configSynced = TRUE
    /\ api = [v \in Versions |-> Absent]
    /\ view = api
    /\ watch = <<>>
    /\ dirty = TRUE
    /\ ec = IdleEc
    /\ queue = <<>>
    /\ delayed = {}
    /\ ecr = IdleEcr
    /\ snapshot = NoVersion
    /\ failing = {}
    /\ spent = [edits |-> 0, deletes |-> 0, restarts |-> 0, failures |-> 0]

-----------------------------------------------------------------------------
(***************************************************************************)
(* The API server and the informers.                                       *)
(***************************************************************************)

\* The write of a revision: an event follows it, and the copies that workers
\* hold of the old object are out of date.
Write(v, rev) ==
    /\ Len(watch) < MaxLag
    /\ api' = [api EXCEPT ![v] = rev]
    /\ watch' = Append(watch, [version |-> v, rev |-> rev])

StaleEc(v) == [ec EXCEPT !.fresh = @ \ {v}]

StaleEcr(v) == [ecr EXCEPT !.fresh = @ /\ ecr.version # v]

\* Deletion: an object with a finalizer stays until the finalizer is removed.
Deleted(rev) == IF rev.finalizer THEN [rev EXCEPT !.deleting = TRUE] ELSE Absent

\* The cached copy of v is the object in the API server.
IsCurrent(v) == \A i \in DOMAIN watch : watch[i].version # v

\* A date read from the clock: the second of the latest one, or a later second.
ReadClock(t) == t \in {now, now + 1} /\ t <= MaxClock /\ now' = t

Enqueue(q, v) == IF v \in Range(q) THEN q ELSE Append(q, v)

\* An event of a revision reaches the cache: the revision is queued, and so is
\* the EnvoyConfig that owns it.
DeliverRevision ==
    /\ watch # <<>>
    /\ LET event == Head(watch)
       IN  /\ view' = [view EXCEPT ![event.version] = event.rev]
           /\ queue' = Enqueue(queue, event.version)
    /\ watch' = Tail(watch)
    /\ dirty' = TRUE
    /\ UNCHANGED <<now, config, configView, configSynced, api, ec, delayed, ecr,
                   xdsVars, spent>>

DeliverConfig ==
    /\ ~configSynced
    /\ configView' = config
    /\ configSynced' = TRUE
    /\ dirty' = TRUE
    /\ UNCHANGED <<now, config, api, view, watch, ec, queue, delayed, ecr, xdsVars, spent>>

\* The deletion of the EnvoyConfig is followed by that of what it owns.
CollectRevision(v) ==
    /\ ~config.exists
    /\ api[v].exists
    /\ ~api[v].deleting
    /\ Write(v, Deleted(api[v]))
    /\ ec' = StaleEc(v)
    /\ ecr' = StaleEcr(v)
    /\ UNCHANGED <<now, config, configView, configSynced, view, dirty, queue, delayed,
                   xdsVars, spent>>

-----------------------------------------------------------------------------
(***************************************************************************)
(* The EnvoyConfig controller.                                             *)
(***************************************************************************)

\* IsStatusReconciled: the status that the EnvoyConfig is to have.
StatusOf(desired, list, target) ==
    [published  |-> target,
     desired    |-> desired,
     cacheState |-> CacheStateOf(list, target),
     revisions  |-> Retained(list, MaxRevisions)]

EcGiveUp == ec' = IdleEc /\ dirty' = dirty  \* mutant: an error is not retried

\* The reconcile returns an error, or asks to be run again.
EcRequeue == ec' = IdleEc /\ dirty' = TRUE

EcDone == ec' = IdleEc /\ dirty' = dirty

\* What a reconcile of the EnvoyConfig is to do with an ordered list.
EcPlan(desired, list) ==
    LET target    == VersionToPublish(list, view)
        unpublish == ShouldBeFalse(target, view)
        publish   == ShouldBeTrue(target, view)
        copied    == unpublish \cup ({publish} \ {NoVersion})
        status    == StatusOf(desired, list, target)
    IN  [busy      |-> TRUE,
         list      |-> list,
         create    |-> NoVersion,
         unpublish |-> unpublish,
         publish   |-> publish,
         delete    |-> ShouldBeDeleted(list, MaxRevisions),
         copy      |-> [v \in Versions |-> IF v \in copied THEN view[v] ELSE Absent],
         fresh     |-> {v \in copied : IsCurrent(v)},
         current   |-> configSynced,
         status    |-> status,
         update    |-> status # configView.status]

\* The reads of a reconcile and what it decides to do.  An error in the reads
\* or in the conversion of spec.envoyResources puts the request back in the
\* queue, so that nothing changes.
EcRead ==
    /\ ~ec.busy
    /\ dirty
    /\ dirty' = FALSE
    /\ LET desired == configView.desired
       IN  \/ /\ ~configView.exists
              /\ ec' = IdleEc
           \/ /\ configView.exists
              /\ ~view[desired].exists
              /\ ec' = [IdleEc EXCEPT !.busy = TRUE, !.create = desired]
           \/ /\ configView.exists
              /\ view[desired].exists
              /\ \E list \in SortByPublication(desired, view) : ec' = EcPlan(desired, list)
    /\ UNCHANGED <<now, apiVars, queue, delayed, ecr, xdsVars, spent>>

\* Create fails when the revision exists but has not reached the cache.
EcCreate ==
    /\ ec.create # NoVersion
    /\ EcRequeue
    /\ \/ /\ api[ec.create].exists
          /\ UNCHANGED <<now, api, watch, ecr>>
       \/ /\ ~api[ec.create].exists
          /\ \E t \in Dates : ReadClock(t) /\ Write(ec.create, NewRevision(t))
          /\ ecr' = StaleEcr(ec.create)
    /\ UNCHANGED <<config, configView, configSynced, view, queue, delayed,
                   xdsVars, spent>>

\* v comes first in the list among the revisions of S.
IsFirst(v, S, list) ==
    \E i \in DOMAIN list : list[i] = v /\ v \in S /\ \A j \in 1..(i - 1) : list[j] \notin S

\* Mutant: a patch without resourceVersion instead of the update.
EcPatch(v, published, worker) ==
    /\ api[v].exists
    /\ Write(v, [api[v] EXCEPT !.published = published])
    /\ ec' = [worker EXCEPT !.copy[v] = Absent, !.fresh = @ \ {v}]
    /\ ecr' = StaleEcr(v)
    /\ UNCHANGED <<dirty, now, config, configView, configSynced, view, queue, delayed,
                   xdsVars, spent>>

\* Status().Update of a revision from the worker's copy of it.
EcUpdate(v, published, worker) ==
    /\ \/ /\ v \in ec.fresh
          /\ Write(v, [ec.copy[v] EXCEPT !.published = published])
          /\ ec' = [worker EXCEPT !.copy[v] = Absent, !.fresh = @ \ {v}]
          /\ ecr' = StaleEcr(v)
          /\ UNCHANGED dirty
       \/ /\ v \notin ec.fresh
          /\ EcRequeue
          /\ UNCHANGED <<api, watch, ecr>>
    /\ UNCHANGED <<now, config, configView, configSynced, view, queue, delayed,
                   xdsVars, spent>>

EcUnpublish ==
    \E v \in ec.unpublish :
        /\ IsFirst(v, ec.unpublish, ec.list)
        /\ EcUpdate(v, FALSE, [ec EXCEPT !.unpublish = @ \ {v}])

EcPublish ==
    /\ ec.unpublish = {}
    /\ ec.publish # NoVersion
    /\ EcUpdate(ec.publish, TRUE, [ec EXCEPT !.publish = NoVersion])

\* Delete carries no precondition on the object's version.  It changes nothing
\* in a revision that is already being deleted, and fails if there is none.
EcDelete ==
    /\ ec.unpublish = {}
    /\ ec.publish = NoVersion
    /\ \E v \in ec.delete :
        /\ IsFirst(v, ec.delete, ec.list)
        /\ \/ /\ api[v].exists
              /\ ~api[v].deleting
              /\ Write(v, Deleted(api[v]))
              /\ ec' = [ec EXCEPT !.delete = @ \ {v}, !.fresh = @ \ {v}]
              /\ ecr' = StaleEcr(v)
              /\ UNCHANGED dirty
           \/ /\ api[v].deleting
              /\ ec' = [ec EXCEPT !.delete = @ \ {v}]
              /\ UNCHANGED <<api, watch, dirty, ecr>>
           \/ /\ ~api[v].exists
              /\ EcRequeue
              /\ UNCHANGED <<api, watch, ecr>>
    /\ UNCHANGED <<now, config, configView, configSynced, view, queue, delayed,
                   xdsVars, spent>>

\* Status().Update of the EnvoyConfig, when its status is to change.
EcStatus ==
    /\ ec.busy
    /\ ec.create = NoVersion
    /\ ec.unpublish = {}
    /\ ec.publish = NoVersion
    /\ ec.delete = {}
    /\ \/ /\ ~ec.update
          /\ EcDone
          /\ UNCHANGED <<config, configSynced>>
       \/ /\ ec.update
          /\ ec.current
          /\ config' = [config EXCEPT !.status = ec.status]
          /\ configSynced' = FALSE
          /\ EcDone
       \/ /\ ec.update
          /\ ~ec.current
          /\ EcRequeue
          /\ UNCHANGED <<config, configSynced>>
    /\ UNCHANGED <<now, configView, api, view, watch, queue, delayed, ecr, xdsVars, spent>>

\* A write of the reconcile fails in the API server.
EcFail ==
    /\ ec.busy
    /\ spent.failures < MaxFailures
    /\ spent' = [spent EXCEPT !.failures = @ + 1]
    /\ EcRequeue
    /\ UNCHANGED <<now, apiVars, queue, delayed, ecr, xdsVars>>

EcStep == EcRead \/ EcCreate \/ EcUnpublish \/ EcPublish \/ EcDelete \/ EcStatus

-----------------------------------------------------------------------------
(***************************************************************************)
(* The EnvoyConfigRevision controller.                                     *)
(***************************************************************************)

EcrVars == <<config, configView, configSynced, view, dirty, spent>>

\* Mutant: no reconcile asks for another one.
EcrDoneForGood(again) == ecr' = IdleEcr /\ delayed' = delayed

\* The reconcile ends: the revision is queued again after a delay, or not.
EcrDone(again) ==
    /\ ecr' = IdleEcr
    /\ delayed' = IF again THEN delayed \cup {ecr.version} ELSE delayed

\* Mutant: a revision that is being deleted is left alone.
PhaseUnlessDeleting(rev) ==
    CASE ~rev.exists \/ rev.deleting -> "idle"
      [] OTHER -> IF ~rev.finalizer THEN "initialize"
                  ELSE IF rev.published THEN "load" ELSE "status"

\* ManageResourceLifecycle: which part of the reconcile applies to a revision.
Phase(rev) ==
    CASE rev.exists /\ rev.deleting /\ rev.finalizer                -> "finalize"
      [] rev.exists /\ ~rev.deleting /\ ~rev.finalizer              -> "initialize"
      [] rev.exists /\ ~rev.deleting /\ rev.finalizer /\ rev.published -> "load"
      [] rev.exists /\ ~rev.deleting /\ rev.finalizer /\ ~rev.published -> "status"
      [] OTHER                                                      -> "idle"

EcrRead ==
    /\ ecr.pc = "idle"
    /\ queue # <<>>
    /\ LET v == Head(queue)
       IN  ecr' = IF Phase(view[v]) = "idle"
                  THEN IdleEcr
                  ELSE [pc |-> Phase(view[v]), version |-> v, rev |-> view[v],
                        fresh |-> IsCurrent(v), vt |-> FALSE]
    /\ queue' = Tail(queue)
    /\ UNCHANGED <<now, EcrVars, api, watch, ec, delayed, xdsVars>>

\* The timer of a delayed request expires.
EcrTimer(v) ==
    /\ v \in delayed
    /\ delayed' = delayed \ {v}
    /\ queue' = Enqueue(queue, v)
    /\ UNCHANGED <<now, EcrVars, api, watch, ec, ecr, xdsVars>>

\* A Secret or an EndpointSlice that a published revision uses has changed
\* (SecretsEventHandler, EndpointSlicesEventHandler).
ResourceEvent(v) ==
    /\ view[v].published
    /\ queue' = Enqueue(queue, v)
    /\ UNCHANGED <<now, EcrVars, api, watch, ec, delayed, ecr, xdsVars>>

\* The finalizer is added; the request is queued again, as it is on a conflict.
EcrInitialize ==
    /\ ecr.pc = "initialize"
    /\ EcrDone(TRUE)
    /\ IF ecr.fresh
       THEN /\ Write(ecr.version, [ecr.rev EXCEPT !.finalizer = TRUE])
            /\ ec' = StaleEc(ecr.version)
       ELSE UNCHANGED <<api, watch, ec>>
    /\ UNCHANGED <<now, EcrVars, queue, xdsVars>>

\* CleanupLogic: the statistics of the nodeID and its snapshot are deleted.
EcrCleanup ==
    /\ ecr.pc = "finalize"
    /\ IF ecr.rev.published
       THEN snapshot' = NoVersion /\ failing' = {}
       ELSE UNCHANGED xdsVars
    /\ ecr' = [ecr EXCEPT !.pc = "unfinalize"]
    /\ UNCHANGED <<now, EcrVars, api, watch, ec, queue, delayed>>

\* The update that removes the finalizer, and so the object.
EcrFinalize ==
    /\ ecr.pc = "unfinalize"
    /\ EcrDone(~ecr.fresh)
    /\ IF ecr.fresh
       THEN /\ Write(ecr.version, Absent)
            /\ ec' = StaleEc(ecr.version)
       ELSE UNCHANGED <<api, watch, ec>>
    /\ UNCHANGED <<now, EcrVars, queue, xdsVars>>

\* Mutant: the snapshot is only written when there is none.
EcrLoadOnce ==
    /\ ecr.pc = "load"
    /\ IF ecr.version \in Unloadable
       THEN /\ ecr' = [ecr EXCEPT !.pc = IF ecr.rev.tainted THEN "status" ELSE "taint"]
            /\ UNCHANGED snapshot
       ELSE /\ ecr' = [ecr EXCEPT !.pc = "status", !.vt = TRUE]
            /\ snapshot' = IF snapshot = NoVersion THEN ecr.version ELSE snapshot
    /\ UNCHANGED <<now, EcrVars, api, watch, ec, queue, delayed, failing>>

\* CacheReconciler.Reconcile: the snapshot is written, or its resources cannot
\* be loaded and the revision is to be tainted unless it is already.
EcrLoad ==
    /\ ecr.pc = "load"
    /\ \/ /\ ecr.version \notin Unloadable
          /\ snapshot' = ecr.version
          /\ ecr' = [ecr EXCEPT !.pc = "status", !.vt = TRUE]
       \/ /\ ecr.version \in Unloadable
          /\ ecr' = [ecr EXCEPT !.pc = IF ecr.rev.tainted THEN "status" ELSE "taint"]
          /\ UNCHANGED snapshot
    /\ UNCHANGED <<now, EcrVars, api, watch, ec, queue, delayed, failing>>

\* taintSelf: a merge patch, which carries no resource version and the whole
\* list of conditions of the worker's copy.  The worker goes on with the
\* object that the API server returns.
EcrTaint ==
    /\ ecr.pc = "taint"
    /\ LET patched == [api[ecr.version] EXCEPT !.published = ecr.rev.published,
                                               !.inSync = ecr.rev.inSync,
                                               !.tainted = TRUE]
       IN  \/ /\ api[ecr.version].exists
              /\ Write(ecr.version, patched)
              /\ ecr' = [ecr EXCEPT !.pc = "status", !.rev = patched, !.fresh = TRUE]
              /\ ec' = StaleEc(ecr.version)
              /\ UNCHANGED delayed
           \/ /\ ~api[ecr.version].exists
              /\ EcrDone(TRUE)
              /\ UNCHANGED <<api, watch, ec>>
    /\ UNCHANGED <<now, EcrVars, queue, xdsVars>>

\* calculateResourcesInSyncCondition
ResourcesInSync(rev) ==
    CASE ~rev.published                          -> "none"
      [] rev.published /\ snapshot = NoVersion   -> "false"
      [] rev.published /\ snapshot # NoVersion   -> "true"

\* calculateRevisionTaintedCondition: the statistics are only asked about the
\* resources that have just been loaded.
IsFailing(v, vt) == vt /\ v \in failing

\* Mutant: the taint follows the statistics.
StatusFromStatistics(v, rev, vt) ==
    [rev EXCEPT !.tainted = IsFailing(v, vt),
                !.inSync = ResourcesInSync(rev),
                !.statusPublished = rev.published]

\* IsStatusReconciled: what it makes of the revision's status.  The date of
\* publication is set when the revision was not published in its last status.
ReconciledStatus(v, rev, vt) ==
    [rev EXCEPT !.tainted = @ \/ IsFailing(v, vt),
                !.inSync = ResourcesInSync(rev),
                !.statusPublished = rev.published]

IsNewlyPublished(rev) == rev.published /\ ~rev.statusPublished

\* The update of the status.  An error of the update is only logged, and a
\* published revision is reconciled again in 30 seconds in any case.
EcrStatus ==
    /\ ecr.pc = "status"
    /\ LET rev == ReconciledStatus(ecr.version, ecr.rev, ecr.vt)
       IN  \/ /\ rev # ecr.rev
              /\ ecr.fresh
              /\ ec' = StaleEc(ecr.version)
              /\ \/ /\ IsNewlyPublished(ecr.rev)
                    /\ \E t \in Dates :
                          /\ ReadClock(t)
                          /\ Write(ecr.version, [rev EXCEPT !.lastPublishedAt = t])
                 \/ /\ ~IsNewlyPublished(ecr.rev)
                    /\ Write(ecr.version, rev)
                    /\ UNCHANGED now
           \/ /\ rev = ecr.rev \/ ~ecr.fresh
              /\ UNCHANGED <<now, api, watch, ec>>
    /\ EcrDone(ecr.rev.published)
    /\ UNCHANGED <<EcrVars, queue, xdsVars>>

\* A call to the API server fails, or a Secret cannot be read: the reconcile
\* returns the error, except that the update of the status only logs it.
EcrFail ==
    /\ ecr.pc \notin {"idle", "finalize"}
    /\ spent.failures < MaxFailures
    /\ spent' = [spent EXCEPT !.failures = @ + 1]
    /\ EcrDone(ecr.pc # "status" \/ ecr.rev.published)
    /\ UNCHANGED <<now, apiVars, dirty, ec, queue, xdsVars>>

EcrStep ==
    \/ EcrRead
    \/ EcrInitialize
    \/ EcrCleanup
    \/ EcrFinalize
    \/ EcrLoad
    \/ EcrTaint
    \/ EcrStatus

-----------------------------------------------------------------------------
(***************************************************************************)
(* The environment: users, Envoy clients, time, restarts.                  *)
(***************************************************************************)

\* The pods subscribed to the served version all have rejected it often enough.
EnvoyReject ==
    /\ snapshot \in Rejected \ failing
    /\ failing' = failing \cup {snapshot}
    /\ UNCHANGED <<now, apiVars, dirty, ec, queue, delayed, ecr, snapshot, spent>>

UserEdit(v) ==
    /\ config.exists
    /\ config.desired # v
    /\ spent.edits < MaxEdits
    /\ spent' = [spent EXCEPT !.edits = @ + 1]
    /\ config' = [config EXCEPT !.desired = v]
    /\ configSynced' = FALSE
    /\ ec' = [ec EXCEPT !.current = FALSE]
    /\ UNCHANGED <<now, configView, api, view, watch, dirty, queue, delayed, ecr, xdsVars>>

UserDeleteConfig ==
    /\ config.exists
    /\ spent.deletes < MaxDeletes
    /\ spent' = [spent EXCEPT !.deletes = @ + 1]
    /\ config' = [config EXCEPT !.exists = FALSE]
    /\ configSynced' = FALSE
    /\ ec' = [ec EXCEPT !.current = FALSE]
    /\ UNCHANGED <<now, configView, api, view, watch, dirty, queue, delayed, ecr, xdsVars>>

UserDeleteRevision(v) ==
    /\ api[v].exists
    /\ ~api[v].deleting
    /\ spent.deletes < MaxDeletes
    /\ spent' = [spent EXCEPT !.deletes = @ + 1]
    /\ Write(v, Deleted(api[v]))
    /\ ec' = StaleEc(v)
    /\ ecr' = StaleEcr(v)
    /\ UNCHANGED <<now, config, configView, configSynced, view, dirty, queue, delayed, xdsVars>>

\* The process restarts: the xDS cache and the statistics are lost, and the
\* informers list what is in the API server, in any order.
Restart ==
    /\ spent.restarts < MaxRestarts
    /\ spent' = [spent EXCEPT !.restarts = @ + 1]
    /\ configView' = config
    /\ configSynced' = TRUE
    /\ view' = api
    /\ watch' = <<>>
    /\ dirty' = TRUE
    /\ ec' = IdleEc
    /\ \E q \in Bijection(1..Cardinality(Listed(api)), Listed(api)) : queue' = q
    /\ delayed' = {}
    /\ ecr' = IdleEcr
    /\ snapshot' = NoVersion
    /\ failing' = {}
    /\ UNCHANGED <<now, config, api>>

Next ==
    \/ DeliverRevision
    \/ DeliverConfig
    \/ \E v \in Versions : CollectRevision(v)
    \/ EcRead
    \/ EcCreate
    \/ EcUnpublish
    \/ EcPublish
    \/ EcDelete
    \/ EcStatus
    \/ EcFail
    \/ EcrRead
    \/ \E v \in Versions : EcrTimer(v)
    \/ \E v \in Versions : ResourceEvent(v)
    \/ EcrInitialize
    \/ EcrCleanup
    \/ EcrFinalize
    \/ EcrLoad
    \/ EcrTaint
    \/ EcrStatus
    \/ EcrFail
    \/ EnvoyReject
    \/ \E v \in Versions : UserEdit(v)
    \/ UserDeleteConfig
    \/ \E v \in Versions : UserDeleteRevision(v)
    \/ Restart

Spec == Init /\ [][Next]_vars

\* Informers keep delivering, workers keep working through their queues,
\* timers expire, and the garbage collector runs.
Fairness ==
    /\ WF_vars(DeliverRevision)
    /\ WF_vars(DeliverConfig)
    /\ WF_vars(EcStep)
    /\ WF_vars(EcrStep)
    /\ \A v \in Versions : WF_vars(EcrTimer(v))
    /\ WF_vars(\E v \in Versions : CollectRevision(v))

FairSpec == Spec /\ Fairness

-----------------------------------------------------------------------------
\* The type invariant: the values that the variables may take, for every action.
TypeOK ==
    /\ now \in Dates
    /\ config \in Config
    /\ configView \in Config
    /\ configSynced \in BOOLEAN
    /\ api \in [Versions -> Revision]
    /\ view \in [Versions -> Revision]
    /\ watch \in Seq(Event)
    /\ dirty \in BOOLEAN
    /\ ec \in EcWorker
    /\ queue \in Seq(Versions)
    /\ delayed \subseteq Versions
    /\ ecr \in EcrWorker
    /\ ecr.pc # "idle" => ecr.version \in Versions
    /\ snapshot \in Versions \cup {NoVersion}
    /\ failing \subseteq Versions
    /\ spent \in [edits: Nat, deletes: Nat, restarts: Nat, failures: Nat]

Published == {v \in Versions : api[v].published}

\* The EnvoyConfig controller has nothing left to do.
EcSettled ==
    /\ ~dirty
    /\ ~ec.busy
    /\ watch = <<>>
    /\ configSynced

EcrQuiet == ecr.pc = "idle" /\ queue = <<>>

(***************************************************************************)
(* "Tainted condition is never automatically removed" (IsStatusReconciled  *)
(* of the revision): whatever copies the workers write back, a tainted     *)
(* revision stays tainted until the object is gone.                        *)
(***************************************************************************)
TaintIsPermanent ==
    [][\A v \in Versions : api[v].tainted => (api'[v].tainted \/ ~api'[v].exists)]_vars

(***************************************************************************)
(* RevisionReconciler.Reconcile chooses a version from the cache and       *)
(* publishes it some writes later; by then taintSelf may have tainted the  *)
(* revision, and published it again by the conditions of its copy.  Still  *)
(* what a publication that succeeds leaves in the API server is untainted. *)
(***************************************************************************)
PublishUntainted == [][EcPublish /\ ec'.busy => ~api'[ec.publish].tainted]_vars

(***************************************************************************)
(* Whatever writes of its reconciles conflict, once the EnvoyConfig        *)
(* controller is done exactly the revision that getVersionToPublish names  *)
(* for the current revisions has the RevisionPublished condition, and      *)
(* IsStatusReconciled has left the status that says so.                    *)
(***************************************************************************)
SettledPublication ==
    EcSettled /\ config.exists =>
        \E list \in SortByPublication(config.desired, api) :
            LET target == VersionToPublish(list, api)
            IN  /\ Published = {target} \ {NoVersion}
                /\ config.status = StatusOf(config.desired, list, target)

(***************************************************************************)
(* isRevisionRetentionReconciled works on a list that may be out of date;  *)
(* still no more than maxRevisions are kept once the controller is done.   *)
(***************************************************************************)
RetentionHolds ==
    EcSettled /\ config.exists =>
        Cardinality({v \in Versions : api[v].exists /\ ~api[v].deleting}) <= MaxRevisions

(***************************************************************************)
(* The EnvoyConfigRevision controller never loses sight of a published     *)
(* revision: its next reconcile is running, queued, due after a delay, or  *)
(* announced by an event (RequeueAfter and error returns of Reconcile).    *)
(***************************************************************************)
ReconcilePending ==
    \A v \in Versions :
        api[v].published /\ ~api[v].deleting =>
            \/ v \in delayed
            \/ v \in Range(queue)
            \/ ecr.version = v /\ ecr.rev.published
            \/ ~IsCurrent(v)

(***************************************************************************)
(* When users, Envoy clients and failures leave the system alone, the      *)
(* published revision is the one in the xDS cache and the one the status   *)
(* of the EnvoyConfig reports, unless every revision is tainted.           *)
(***************************************************************************)
Converges ==
    <>[](config.exists =>
            \/ config.status.cacheState = "RollbackFailed"
            \/ \E v \in Versions : /\ Published = {v}
                                   /\ snapshot = v
                                   /\ config.status.published = v)

(***************************************************************************)
(* A published version that cannot be loaded, or that the statistics say   *)
(* every client rejects, is eventually unpublished (taintSelf,             *)
(* calculateRevisionTaintedCondition), unless a restart loses the          *)
(* statistics.                                                             *)
(***************************************************************************)
FailingIsRolledBack ==
    \A v \in Versions :
        api[v].published /\ v \in failing \cup Unloadable
            ~> (~api[v].published \/ v \notin failing \cup Unloadable)

(***************************************************************************)
(* Once the EnvoyConfig is deleted, every revision gets through its        *)
(* finalizer and disappears.                                               *)
(***************************************************************************)
DeletionCompletes == <>[](~config.exists => Listed(api) = {})

-----------------------------------------------------------------------------
(***************************************************************************)
(* The invariant from which the safety properties are proved.              *)
(***************************************************************************)

\* A revision that is not in the API server has no state.
AbsentIsBlank(revs) == \A v \in Versions : revs[v].exists \/ revs[v] = Absent

\* The last event of a revision carries the object in the API server.
IsLastEvent(i) == \A j \in DOMAIN watch : j > i => watch[j].version # watch[i].version

WatchIsCoherent ==
    /\ \A i \in DOMAIN watch : IsLastEvent(i) => watch[i].rev = api[watch[i].version]
    /\ \A i \in DOMAIN watch : watch[i].rev.exists \/ watch[i].rev = Absent
    /\ \A v \in Versions : IsCurrent(v) => view[v] = api[v]

\* A fresh copy is the object in the API server; what is to be published was not
\* tainted when it was read.
EcIsCoherent ==
    /\ \A v \in ec.fresh : ec.copy[v] = api[v] /\ api[v].exists
    /\ ec.publish # NoVersion => ~ec.copy[ec.publish].tainted

EcrIsCoherent ==
    /\ ecr.pc # "idle" => ecr.rev.exists
    /\ ecr.pc = "idle" => ecr = IdleEcr
    /\ ecr.fresh => ecr.rev = api[ecr.version]
    /\ ecr.pc \in {"finalize", "unfinalize"} =>
          ecr.rev.deleting /\ (ecr.fresh => IsCurrent(ecr.version))

\* What ReconcilePending says, of the cache.
ViewIsPending ==
    \A v \in Versions :
        view[v].published /\ ~view[v].deleting =>
            \/ v \in delayed
            \/ v \in Range(queue)
            \/ ecr.version = v /\ ecr.rev.published

(***************************************************************************)
(* Copies of revisions, in the cache, in events and in workers, agree with *)
(* the API server whenever the code may rely on them, and no published     *)
(* revision in the cache goes without a reconcile to come.                 *)
(***************************************************************************)
Coherence ==
    /\ AbsentIsBlank(api)
    /\ AbsentIsBlank(view)
    /\ WatchIsCoherent
    /\ EcIsCoherent
    /\ EcrIsCoherent
    /\ ViewIsPending
=============================================================================
