---------------------------- MODULE SafetyProofs ----------------------------
(***************************************************************************)
(* What follows from Coherence, for every number of versions, every        *)
(* retention and every bound: TaintIsPermanent, PublishUntainted and, with *)
(* PlanInv, an invariant about the plans of the EnvoyConfig controller,    *)
(* SettledPublication and RetentionHolds.  Last, what a rollback is to.    *)
(***************************************************************************)
EXTENDS RevisionControlProofs

-----------------------------------------------------------------------------
(***************************************************************************)
(* No write removes a taint, and nothing tainted is published.             *)
(***************************************************************************)

\* A write that keeps the taint of the object it replaces, or removes the object.
LEMMA TaintWrite ==
    ASSUME TypeOK, NEW u \in Versions, NEW rev, Write(u, rev),
           api[u].tainted => rev.tainted \/ ~rev.exists
    PROVE  \A v \in Versions : api[v].tainted => api'[v].tainted \/ ~api'[v].exists
<1>1. api' = [api EXCEPT ![u] = rev] /\ api \in [Versions -> Revision]
  BY DEF Write, TypeOK
<1> QED
  BY <1>1

LEMMA DeletedKeepsTaint ==
    ASSUME NEW rev \in Revision, rev.tainted
    PROVE  Deleted(rev).tainted \/ ~Deleted(rev).exists
BY DEF Deleted, Revision, Absent

LEMMA EcKeepsTaint ==
    ASSUME TypeOK, Coherence, EcCreate \/ EcUnpublish \/ EcPublish \/ EcDelete
    PROVE  \A v \in Versions : api[v].tainted => api'[v].tainted \/ ~api'[v].exists
<1> DEFINE Kept == \A v \in Versions : api[v].tainted => api'[v].tainted \/ ~api'[v].exists
<1> SUFFICES Kept
  OBVIOUS
<1>0. /\ ec \in EcWorker
      /\ \A v \in Versions : api[v] \in Revision
      /\ AbsentIsBlank(api)
      /\ \A v \in ec.fresh : ec.copy[v] = api[v] /\ api[v].exists
  BY DEF TypeOK, Coherence, EcIsCoherent
<1>1. ASSUME api' = api PROVE Kept
  BY <1>1
<1>2. CASE EcCreate
  <2>1. PICK u \in Versions : u = ec.create
    BY <1>0, <1>2 DEF EcCreate, EcWorker
  <2>2. ASSUME ~api[u].exists, NEW t, Write(u, NewRevision(t)) PROVE Kept
    <3>1. ~api[u].tainted
      BY <1>0, <2>2 DEF AbsentIsBlank, Absent
    <3> QED  BY <2>2, <3>1, TaintWrite
  <2> HIDE DEF Kept
  <2> QED  BY <1>1, <1>2, <2>1, <2>2 DEF EcCreate
<1>3. ASSUME NEW u \in Versions, NEW p, NEW w, EcUpdate(u, p, w) PROVE Kept
  <2>1. CASE u \in ec.fresh /\ Write(u, [ec.copy[u] EXCEPT !.published = p])
    <3>1. ec.copy[u] = api[u]
      BY <1>0, <2>1
    <3>2. [api[u] EXCEPT !.published = p].tainted = api[u].tainted
      BY <1>0 DEF Revision
    <3> QED  BY <2>1, <3>1, <3>2, TaintWrite
  <2> HIDE DEF Kept
  <2> QED  BY <1>1, <1>3, <2>1 DEF EcUpdate
<1>4. CASE EcUnpublish \/ EcPublish
  <2>1. ec.unpublish \subseteq Versions /\ ec.publish \in Versions \cup {NoVersion}
    BY <1>0 DEF EcWorker
  <2> HIDE DEF Kept
  <2> QED  BY <1>3, <1>4, <2>1 DEF EcUnpublish, EcPublish
<1>5. CASE EcDelete
  <2>1. ec.delete \subseteq Versions
    BY <1>0 DEF EcWorker
  <2>2. ASSUME NEW u \in Versions, Write(u, Deleted(api[u])) PROVE Kept
    BY <1>0, <2>2, DeletedKeepsTaint, TaintWrite
  <2> HIDE DEF Kept
  <2> QED  BY <1>1, <1>5, <2>1, <2>2 DEF EcDelete
<1> QED
  BY <1>2, <1>4, <1>5

LEMMA EcrKeepsTaint ==
    ASSUME TypeOK, Coherence, EcrInitialize \/ EcrFinalize \/ EcrTaint \/ EcrStatus
    PROVE  \A v \in Versions : api[v].tainted => api'[v].tainted \/ ~api'[v].exists
<1> DEFINE Kept == \A v \in Versions : api[v].tainted => api'[v].tainted \/ ~api'[v].exists
<1> SUFFICES Kept
  OBVIOUS
<1>0. PICK u \in Versions : u = ecr.version
  BY DEF EcrInitialize, EcrFinalize, EcrTaint, EcrStatus, TypeOK
<1>1. /\ ecr.fresh => ecr.rev = api[u]
      /\ ecr.rev.exists
      /\ ecr.rev \in Revision /\ api[u] \in Revision
  BY <1>0 DEF EcrInitialize, EcrFinalize, EcrTaint, EcrStatus, TypeOK, EcrWorker,
              Coherence, EcrIsCoherent
<1>2. ASSUME api' = api PROVE Kept
  BY <1>2
<1>3. ASSUME NEW rev, Write(u, rev), api[u].tainted => rev.tainted \/ ~rev.exists
      PROVE  Kept
  BY <1>3, TaintWrite
<1>4. CASE EcrInitialize
  <2>1. ecr.rev.tainted => [ecr.rev EXCEPT !.finalizer = TRUE].tainted
    BY <1>1 DEF Revision
  <2> HIDE DEF Kept
  <2> QED  BY <1>0, <1>1, <1>2, <1>3, <1>4, <2>1 DEF EcrInitialize
<1>5. CASE EcrFinalize
  <2>1. ~Absent.exists
    BY DEF Absent
  <2> HIDE DEF Kept
  <2> QED  BY <1>0, <1>2, <1>3, <1>5, <2>1 DEF EcrFinalize
<1>6. CASE EcrTaint
  <2>1. [api[u] EXCEPT !.published = ecr.rev.published, !.inSync = ecr.rev.inSync,
                       !.tainted = TRUE].tainted
    BY <1>1 DEF Revision
  <2> HIDE DEF Kept
  <2> QED  BY <1>0, <1>2, <1>3, <1>6, <2>1 DEF EcrTaint
<1>7. CASE EcrStatus
  <2> DEFINE rev == ReconciledStatus(ecr.version, ecr.rev, ecr.vt)
  <2>1. /\ ecr.rev.tainted => rev.tainted
        /\ \A t \in Nat : ecr.rev.tainted => [rev EXCEPT !.lastPublishedAt = t].tainted
    BY <1>1, ReconciledStatusType
  <2>2. \A t \in Dates : t \in Nat
    BY ControlAssumption DEF Dates
  <2>3. \/ ecr.fresh /\ \E t \in Dates : Write(u, [rev EXCEPT !.lastPublishedAt = t])
        \/ ecr.fresh /\ Write(u, rev)
        \/ api' = api
    BY <1>0, <1>7 DEF EcrStatus
  <2> HIDE DEF rev, Kept
  <2> QED  BY <1>1, <1>2, <1>3, <2>1, <2>2, <2>3
<1> QED
  BY <1>4, <1>5, <1>6, <1>7

LEMMA NextKeepsTaint ==
    ASSUME TypeOK, Coherence, [Next]_vars
    PROVE  \A v \in Versions : api[v].tainted => api'[v].tainted \/ ~api'[v].exists
<1> DEFINE Kept == \A v \in Versions : api[v].tainted => api'[v].tainted \/ ~api'[v].exists
<1>1. CASE EcCreate \/ EcUnpublish \/ EcPublish \/ EcDelete
  BY <1>1, EcKeepsTaint
<1>2. CASE EcrInitialize \/ EcrFinalize \/ EcrTaint \/ EcrStatus
  BY <1>2, EcrKeepsTaint
<1>3. ASSUME NEW u \in Versions, CollectRevision(u) \/ UserDeleteRevision(u) PROVE Kept
  <2>1. api[u] \in Revision /\ Write(u, Deleted(api[u]))
    BY <1>3 DEF CollectRevision, UserDeleteRevision, TypeOK
  <2> QED  BY <2>1, DeletedKeepsTaint, TaintWrite
<1>4. ASSUME api' = api PROVE Kept
  BY <1>4
<1>5. CASE \/ DeliverRevision \/ DeliverConfig \/ EcRead \/ EcStatus \/ EcFail
           \/ EcrRead \/ EcrCleanup \/ EcrLoad \/ EcrFail \/ EnvoyReject
           \/ UserDeleteConfig \/ Restart \/ UNCHANGED vars
           \/ \E v \in Versions : EcrTimer(v) \/ ResourceEvent(v) \/ UserEdit(v)
  <2>1. api' = api
    BY <1>5 DEF DeliverRevision, DeliverConfig, EcRead, EcStatus, EcFail, EcrRead,
                EcrCleanup, EcrLoad, EcrFail, EnvoyReject, UserDeleteConfig, Restart,
                vars, EcrTimer, ResourceEvent, UserEdit, apiVars
  <2> QED  BY <1>4, <2>1
<1> HIDE DEF Kept
<1>6. Kept
  BY <1>1, <1>2, <1>3, <1>5 DEF Next, Kept
<1> QED
  BY <1>6 DEF Kept

(***************************************************************************)
(* A tainted revision stays tainted until it is gone, whichever copies the *)
(* two workers write back to the API server.                               *)
(***************************************************************************)
THEOREM TaintStays == Spec => TaintIsPermanent
<1>1. TypeOK /\ Coherence /\ [Next]_vars =>
        [\A v \in Versions : api[v].tainted => (api'[v].tainted \/ ~api'[v].exists)]_vars
  BY NextKeepsTaint
<1> QED
  BY <1>1, TypeCorrect, CoherenceHolds, PTL DEF Spec, TaintIsPermanent

LEMMA PublishIsUntainted ==
    ASSUME TypeOK, Coherence, EcPublish, ec'.busy
    PROVE  ~api'[ec.publish].tainted
<1>1. PICK u \in Versions : u = ec.publish
  BY DEF EcPublish, TypeOK, EcWorker
<1>2. u \in ec.fresh /\ Write(u, [ec.copy[u] EXCEPT !.published = TRUE])
  <2>1. CASE EcRequeue
    BY <2>1 DEF EcRequeue, IdleEc
  <2> QED BY <2>1, <1>1 DEF EcPublish, EcUpdate
<1>3. ~ec.copy[u].tainted /\ ec.copy[u] \in Revision
  BY <1>1, <1>2, VersionsAssumption DEF Coherence, EcIsCoherent, TypeOK, EcWorker
<1>4. api'[u] = [ec.copy[u] EXCEPT !.published = TRUE]
  BY <1>2 DEF Write, TypeOK
<1> QED
  BY <1>1, <1>3, <1>4 DEF Revision

(***************************************************************************)
(* The EnvoyConfig controller publishes no revision that is tainted in the *)
(* API server, although it chooses from the cache and writes later.        *)
(***************************************************************************)
THEOREM NothingTaintedIsPublished == Spec => PublishUntainted
<1>1. TypeOK /\ Coherence /\ [Next]_vars => [EcPublish /\ ec'.busy => ~api'[ec.publish].tainted]_vars
  BY PublishIsUntainted
<1> QED
  BY <1>1, TypeCorrect, CoherenceHolds, PTL DEF Spec, PublishUntainted

-----------------------------------------------------------------------------
(***************************************************************************)
(* What the EnvoyConfig controller has done when it is done.               *)
(***************************************************************************)

\* An event that will put the EnvoyConfig in the queue is on its way.
Awaited == watch # <<>> \/ ~configSynced

\* What the reconcile has decided is what its reads, which are still what the
\* cache holds, call for, less the deletions that were asked for before.
AsDecided ==
    LET target == VersionToPublish(ec.list, view)
    IN  /\ ec.list \in SortByPublication(configView.desired, view)
        /\ ec.unpublish = ShouldBeFalse(target, view)
        /\ ec.publish = ShouldBeTrue(target, view)
        /\ \A v \in ShouldBeDeleted(ec.list, MaxRevisions) \ ec.delete : view[v].deleting
        /\ ec.status = StatusOf(configView.desired, ec.list, target)
        /\ ~ec.update => ec.status = configView.status

\* A reconcile would find nothing to do.
NothingToDo ==
    \E list \in SortByPublication(configView.desired, view) :
        LET target == VersionToPublish(list, view)
        IN  /\ ShouldBeFalse(target, view) = {}
            /\ ShouldBeTrue(target, view) = NoVersion
            /\ \A v \in ShouldBeDeleted(list, MaxRevisions) : view[v].deleting
            /\ configView.status = StatusOf(configView.desired, list, target)

\* As long as nothing asks for another reconcile, the one in progress works on
\* what the cache holds, and the last one has left nothing to do.
PlanInv ==
    /\ configSynced => configView = config
    /\ ~ec.busy => ec = IdleEc
    /\ ~dirty /\ ~Awaited /\ configView.exists =>
          /\ ec.busy => ec.create # NoVersion \/ AsDecided
          /\ ~ec.busy => NothingToDo

\* A worker without a reconcile has no writes to make.
LEMMA IdleEcPlansNothing ==
    IdleEc.unpublish = {} /\ IdleEc.publish = NoVersion /\ IdleEc.delete = {}
BY DEF IdleEc

\* Another reconcile is to come.
LEMMA PlanAwaited ==
    ASSUME configSynced' => configView' = config', ~ec'.busy => ec' = IdleEc, dirty' \/ Awaited'
    PROVE  PlanInv'
BY DEF PlanInv

\* The plan of the worker and what it was made from are left alone.
LEMMA PlanKept ==
    ASSUME PlanInv, UNCHANGED <<view, configView, dirty>>, Awaited => Awaited',
           configSynced' => configView' = config', ~ec'.busy => ec' = IdleEc,
           UNCHANGED <<ec.busy, ec.list, ec.create, ec.unpublish, ec.publish, ec.delete,
                       ec.status, ec.update>>
    PROVE  PlanInv'
<1>1. AsDecided => AsDecided'
  BY DEF AsDecided
<1>2. NothingToDo => NothingToDo'
  BY DEF NothingToDo
<1> QED
  BY <1>1, <1>2 DEF PlanInv

\* A write of a revision by somebody else.
LEMMA PlanOtherWrite ==
    ASSUME TypeOK, PlanInv, NEW v \in Versions, NEW rev, Write(v, rev), ec' = StaleEc(v),
           UNCHANGED <<config, configView, configSynced>>
    PROVE  PlanInv'
<1>1. watch' # <<>>
  BY DEF Write, TypeOK
<1>2. ec'.busy = ec.busy /\ (ec = IdleEc => ec' = IdleEc)
  <2>1. ec'.busy = ec.busy
    BY DEF StaleEc, TypeOK, EcWorker
  <2>2. ASSUME ec = IdleEc PROVE ec' = IdleEc
    BY <2>2 DEF StaleEc, IdleEc
  <2> QED  BY <2>1, <2>2
<1> QED
  BY <1>1, <1>2, PlanAwaited DEF PlanInv, Awaited

\* Nothing that the plan depends on.
LEMMA PlanElsewhere ==
    ASSUME PlanInv, UNCHANGED <<config, configView, configSynced, view, watch, dirty, ec>>
    PROVE  PlanInv'
BY PlanKept DEF PlanInv, Awaited

\* A reconcile that starts plans for what the cache holds.
LEMMA PlanRead ==
    ASSUME TypeOK, PlanInv, EcRead
    PROVE  PlanInv'
<1>1. UNCHANGED <<config, configView, configSynced, view, watch>>
  BY DEF EcRead, apiVars
<1>2. CASE ~configView.exists
  BY <1>1, <1>2 DEF EcRead, PlanInv
<1>3. CASE configView.exists /\ ~view[configView.desired].exists
  <2>1. ec'.busy /\ ec'.create # NoVersion
    BY <1>3, VersionsAssumption DEF EcRead, IdleEc, TypeOK, Config
  <2> QED  BY <1>1, <2>1 DEF PlanInv
<1>4. CASE configView.exists /\ view[configView.desired].exists
  <2>1. PICK list \in SortByPublication(configView.desired, view) :
               ec' = EcPlan(configView.desired, list)
    BY <1>4 DEF EcRead
  <2> DEFINE target == VersionToPublish(list, view)
             status == StatusOf(configView.desired, list, target)
  <2>2. /\ ec'.busy /\ ec'.list = list
        /\ ec'.unpublish = ShouldBeFalse(target, view)
        /\ ec'.publish = ShouldBeTrue(target, view)
        /\ ec'.delete = ShouldBeDeleted(list, MaxRevisions)
        /\ ec'.status = status
    BY <2>1 DEF EcPlan
  <2>3. ec'.update = (status # configView.status)
    BY <2>1 DEF EcPlan
  <2>4. AsDecided'
    BY <1>1, <2>2, <2>3 DEF AsDecided
  <2> QED  BY <1>1, <2>2, <2>4 DEF PlanInv
<1> QED
  BY <1>2, <1>3, <1>4

\* The write of a publication is an event to come; one that fails is made again.
LEMMA PlanPublication ==
    ASSUME TypeOK, PlanInv, EcUnpublish \/ EcPublish
    PROVE  PlanInv'
<1>1. ec.busy
  <2>1. ec.unpublish # {} \/ ec.publish # NoVersion
    BY DEF EcUnpublish, EcPublish
  <2> QED  BY <2>1, IdleEcPlansNothing DEF PlanInv
<1>2. PICK v \in Versions, published \in BOOLEAN, worker \in EcWorker :
             EcUpdate(v, published, worker) /\ worker.busy = ec.busy
  <2>1. CASE EcUnpublish
    <3>1. PICK v \in ec.unpublish : EcUpdate(v, FALSE, [ec EXCEPT !.unpublish = @ \ {v}])
      BY <2>1 DEF EcUnpublish
    <3>2. [ec EXCEPT !.unpublish = @ \ {v}] \in EcWorker /\ v \in Versions
      BY DEF TypeOK, EcWorker
    <3>3. [ec EXCEPT !.unpublish = @ \ {v}].busy = ec.busy
      BY DEF TypeOK, EcWorker
    <3> QED  BY <3>1, <3>2, <3>3
  <2>2. CASE EcPublish
    <3>1. EcUpdate(ec.publish, TRUE, [ec EXCEPT !.publish = NoVersion]) /\ ec.publish \in Versions
      BY <2>2 DEF EcPublish, TypeOK, EcWorker
    <3>2. [ec EXCEPT !.publish = NoVersion] \in EcWorker
      BY DEF TypeOK, EcWorker
    <3>3. [ec EXCEPT !.publish = NoVersion].busy = ec.busy
      BY DEF TypeOK, EcWorker
    <3> QED  BY <3>1, <3>2, <3>3
  <2> QED  BY <2>1, <2>2
<1>3. UNCHANGED <<config, configView, configSynced>>
  BY <1>2 DEF EcUpdate
<1>4. CASE v \in ec.fresh
  <2>1. /\ watch' # <<>>
        /\ ec' = [worker EXCEPT !.copy[v] = Absent, !.fresh = @ \ {v}]
    BY <1>2, <1>4 DEF EcUpdate, Write, TypeOK
  <2>2. ec'.busy
    BY <1>1, <1>2, <2>1 DEF EcWorker
  <2> QED  BY <1>3, <2>1, <2>2, PlanAwaited DEF PlanInv, Awaited
<1>5. CASE v \notin ec.fresh
  <2>1. ec' = IdleEc /\ dirty' = TRUE
    BY <1>2, <1>5 DEF EcUpdate, EcRequeue
  <2> QED  BY <1>3, <2>1, PlanAwaited DEF PlanInv
<1> QED
  BY <1>4, <1>5

\* A revision that needs no deletion is being deleted already.
LEMMA PlanDelete ==
    ASSUME TypeOK, Coherence, PlanInv, EcDelete
    PROVE  PlanInv'
<1>1. ec.busy
  <2>1. ec.delete # {}
    BY DEF EcDelete
  <2> QED  BY <2>1, IdleEcPlansNothing DEF PlanInv
<1>2. UNCHANGED <<config, configView, configSynced, view>>
  BY DEF EcDelete
<1>3. PICK v \in ec.delete :
             \/ \E rev : Write(v, rev) /\ ec' = [ec EXCEPT !.delete = @ \ {v}, !.fresh = @ \ {v}]
             \/ /\ api[v].deleting /\ ec' = [ec EXCEPT !.delete = @ \ {v}]
                /\ UNCHANGED <<watch, dirty>>
             \/ EcRequeue
  BY DEF EcDelete
<1>4. v \in Versions
  BY DEF TypeOK, EcWorker
<1>5. ASSUME NEW rev, Write(v, rev), ec' = [ec EXCEPT !.delete = @ \ {v}, !.fresh = @ \ {v}]
      PROVE  PlanInv'
  <2>1. watch' # <<>>
    BY <1>5 DEF Write, TypeOK
  <2>2. ec'.busy
    BY <1>1, <1>5 DEF TypeOK, EcWorker
  <2> QED  BY <1>2, <2>1, <2>2, PlanAwaited DEF PlanInv, Awaited
<1>6. CASE api[v].deleting /\ ec' = [ec EXCEPT !.delete = @ \ {v}] /\ UNCHANGED <<watch, dirty>>
  <2>1. /\ ec'.delete = ec.delete \ {v}
        /\ UNCHANGED <<ec.busy, ec.list, ec.create, ec.unpublish, ec.publish, ec.status, ec.update>>
    BY <1>6 DEF TypeOK, EcWorker
  <2>2. ASSUME ~Awaited, AsDecided PROVE AsDecided'
    <3>1. view[v].deleting
      BY <1>4, <1>6, <2>2 DEF Awaited, Coherence, WatchIsCoherent, IsCurrent
    <3> QED  BY <1>2, <2>1, <2>2, <3>1 DEF AsDecided
  <2> QED  BY <1>1, <1>2, <1>6, <2>1, <2>2 DEF PlanInv, Awaited
<1>7. CASE EcRequeue
  BY <1>2, <1>7, PlanAwaited DEF EcRequeue, PlanInv
<1> QED
  BY <1>3, <1>5, <1>6, <1>7

\* A reconcile that ends well has nothing left to do.
LEMMA PlanStatus ==
    ASSUME TypeOK, PlanInv, EcStatus
    PROVE  PlanInv'
<1>1. UNCHANGED <<configView, view, watch>> /\ ec' = IdleEc /\ ~ec'.busy
  BY DEF EcStatus, EcDone, EcRequeue, IdleEc
<1>2. CASE ~ec.update
  <2>1. UNCHANGED <<config, configSynced, dirty>>
    BY <1>2 DEF EcStatus, EcDone
  <2>2. ASSUME ~dirty, ~Awaited, configView.exists PROVE NothingToDo
    <3>1. AsDecided
      BY <2>2 DEF EcStatus, PlanInv
    <3>2. ec.unpublish = {} /\ ec.publish = NoVersion /\ ec.delete = {}
      BY DEF EcStatus
    <3> QED  BY <1>2, <3>1, <3>2 DEF AsDecided, NothingToDo
  <2>3. NothingToDo' = NothingToDo
    BY <1>1 DEF NothingToDo
  <2> QED  BY <1>1, <2>1, <2>2, <2>3 DEF PlanInv, Awaited
<1>3. CASE ec.update
  <2>1. \/ configSynced' = FALSE
        \/ dirty' = TRUE /\ UNCHANGED <<config, configSynced>>
    BY <1>3 DEF EcStatus, EcRequeue
  <2> QED  BY <1>1, <2>1, PlanAwaited DEF PlanInv, Awaited
<1> QED
  BY <1>2, <1>3

\* What a reconcile of a revision does to the rest.
LEMMA PlanEcr ==
    ASSUME TypeOK, PlanInv, EcrInitialize \/ EcrFinalize \/ EcrTaint \/ EcrStatus
    PROVE  PlanInv'
<1>1. UNCHANGED <<config, configView, configSynced, view, dirty>> /\ ecr.version \in Versions
  BY DEF EcrInitialize, EcrFinalize, EcrTaint, EcrStatus, EcrVars, TypeOK
<1>2. \/ UNCHANGED <<watch, ec>>
      \/ \E rev : Write(ecr.version, rev) /\ ec' = StaleEc(ecr.version)
  <2>1. CASE EcrInitialize \/ EcrFinalize
    BY <2>1 DEF EcrInitialize, EcrFinalize
  <2>2. CASE EcrTaint
    BY <2>2 DEF EcrTaint
  <2>3. CASE EcrStatus
    BY <2>3 DEF EcrStatus
  <2> QED  BY <2>1, <2>2, <2>3
<1> QED
  BY <1>1, <1>2, PlanElsewhere, PlanOtherWrite

\* A reconcile of the new EnvoyConfig is asked for.
LEMMA PlanInit == Init => PlanInv
BY DEF Init, PlanInv, IdleEc

\* Every step keeps PlanInv.
LEMMA PlanStep ==
    ASSUME TypeOK, Coherence, PlanInv, [Next]_vars
    PROVE  PlanInv'
<1>1. CASE DeliverRevision \/ DeliverConfig
  <2>1. dirty' = TRUE /\ ec' = ec /\ config' = config
        /\ (configView' = config \/ UNCHANGED <<configView, configSynced>>)
    BY <1>1 DEF DeliverRevision, DeliverConfig
  <2> QED  BY <2>1, PlanAwaited DEF PlanInv
<1>2. ASSUME NEW v \in Versions, CollectRevision(v) \/ UserDeleteRevision(v)
      PROVE  PlanInv'
  BY <1>2, PlanOtherWrite DEF CollectRevision, UserDeleteRevision
<1>3. CASE EcCreate \/ EcFail
  <2>1. dirty' = TRUE /\ ec' = IdleEc /\ UNCHANGED <<config, configView, configSynced>>
    BY <1>3 DEF EcCreate, EcFail, EcRequeue, apiVars
  <2> QED  BY <2>1, PlanAwaited DEF PlanInv
<1>4. CASE UserDeleteConfig \/ \E v \in Versions : UserEdit(v)
  <2>1. configSynced' = FALSE /\ ec' = [ec EXCEPT !.current = FALSE]
    BY <1>4 DEF UserDeleteConfig, UserEdit
  <2>2. ec'.busy = ec.busy
    BY <2>1 DEF TypeOK, EcWorker
  <2>3. ASSUME ec = IdleEc PROVE ec' = IdleEc
    BY <2>1, <2>3 DEF IdleEc
  <2> QED  BY <2>1, <2>2, <2>3, PlanAwaited DEF PlanInv, Awaited
<1>5. CASE Restart
  <2>1. dirty' = TRUE /\ ec' = IdleEc /\ configView' = config /\ config' = config
    BY <1>5 DEF Restart
  <2> QED  BY <2>1, PlanAwaited
<1>6. CASE \/ EcrRead \/ EcrCleanup \/ EcrLoad \/ EcrFail \/ EnvoyReject
           \/ \E v \in Versions : EcrTimer(v) \/ ResourceEvent(v)
           \/ UNCHANGED vars
  <2>1. UNCHANGED <<config, configView, configSynced, view, watch, dirty, ec>>
    BY <1>6 DEF EcrRead, EcrCleanup, EcrLoad, EcrFail, EnvoyReject, EcrTimer, ResourceEvent, EcrVars,
                apiVars, vars
  <2> QED  BY <2>1, PlanElsewhere
<1> QED
  BY <1>1, <1>2, <1>3, <1>4, <1>5, <1>6, PlanRead, PlanPublication, PlanDelete, PlanStatus, PlanEcr
  DEF Next

\* A settled controller finds nothing to do in the API server itself.
LEMMA SettledIsDone ==
    ASSUME TypeOK, Coherence, PlanInv, EcSettled, config.exists
    PROVE  \E list \in SortByPublication(config.desired, api) :
               LET target == VersionToPublish(list, api)
               IN  /\ ShouldBeFalse(target, api) = {}
                   /\ ShouldBeTrue(target, api) = NoVersion
                   /\ \A v \in ShouldBeDeleted(list, MaxRevisions) : api[v].deleting
                   /\ config.status = StatusOf(config.desired, list, target)
<1>1. configView = config /\ watch = <<>> /\ ~dirty /\ ~ec.busy /\ ~Awaited
  BY DEF EcSettled, PlanInv, Awaited
<1>2. view = api
  <2>1. \A v \in Versions : view[v] = api[v]
    BY <1>1 DEF Coherence, WatchIsCoherent, IsCurrent
  <2> QED  BY <2>1 DEF TypeOK
<1>3. NothingToDo
  BY <1>1 DEF PlanInv
<1> QED
  BY <1>1, <1>2, <1>3 DEF NothingToDo

(***************************************************************************)
(* Whatever conflicts, failures and restarts there were: once the          *)
(* EnvoyConfig controller is done, exactly the revision that               *)
(* getVersionToPublish names is published, and the status says so.         *)
(***************************************************************************)
THEOREM PublicationSettles == Spec => []SettledPublication
<1>1. ASSUME TypeOK, Coherence, PlanInv PROVE SettledPublication
  <2> SUFFICES ASSUME EcSettled, config.exists
               PROVE  \E list \in SortByPublication(config.desired, api) :
                          LET target == VersionToPublish(list, api)
                          IN  /\ Published = {target} \ {NoVersion}
                              /\ config.status = StatusOf(config.desired, list, target)
    BY DEF SettledPublication
  <2>1. PICK list \in SortByPublication(config.desired, api) :
              LET target == VersionToPublish(list, api)
              IN  /\ ShouldBeFalse(target, api) = {}
                  /\ ShouldBeTrue(target, api) = NoVersion
                  /\ config.status = StatusOf(config.desired, list, target)
    BY <1>1, SettledIsDone
  <2> DEFINE target == VersionToPublish(list, api)
  <2>2. target \in Versions \cup {NoVersion}
    <3>1. list \in Seq(Versions)
      BY SortedListType
    <3>2. target = NoVersion \/ \E i \in DOMAIN list : list[i] = target
      BY <3>1, VersionToPublishIsBest
    <3> QED  BY <3>1, <3>2
  <2>3. \A v \in Versions : api[v].published => api[v].exists
    BY <1>1, PublishedExists
  <2>4. Published \subseteq {target}
    BY <2>1, <2>3 DEF Published, ShouldBeFalse, Listed
  <2>5. target = NoVersion \/ api[target].published
    BY <2>1 DEF ShouldBeTrue
  <2>6. Published = {target} \ {NoVersion}
    <3> HIDE DEF target
    <3> QED  BY <2>2, <2>4, <2>5, VersionsAssumption DEF Published
  <2> QED  BY <2>1, <2>6
<1> QED
  BY <1>1, TypeCorrect, CoherenceHolds, PlanInit, PlanStep, PTL DEF Spec

\* The last n elements of a list are at most n.
LEMMA LastAreFew ==
    ASSUME NEW S, NEW list \in Seq(S), NEW n \in Nat
    PROVE  LET last == {list[i] : i \in {j \in DOMAIN list : j > Len(list) - n}}
           IN  IsFiniteSet(last) /\ Cardinality(last) <= n
<1> DEFINE l == Len(list)
           indices == (l - n + 1)..l
           I == {j \in DOMAIN list : j > l - n}
           last == {list[i] : i \in I}
<1>1. l \in Nat /\ DOMAIN list = 1..l
  OBVIOUS
<1>2. IsFiniteSet(indices) /\ Cardinality(indices) = n
  <2>1. l - n + 1 \in Int /\ l \in Int
    BY <1>1
  <2>2. IsFiniteSet(indices) /\ Cardinality(indices) = IF l - n + 1 > l THEN 0 ELSE l - (l - n + 1) + 1
    BY <2>1, FS_Interval
  <2> QED  BY <1>1, <2>2
<1>3. I \subseteq indices
  BY <1>1
<1>4. IsFiniteSet(I) /\ Cardinality(I) <= n
  <2> HIDE DEF I, indices
  <2> QED  BY <1>2, <1>3, FS_Subset
<1>5. IsFiniteSet(last) /\ Cardinality(last) <= Cardinality(I)
  <2> DEFINE f == [i \in I |-> list[i]]
  <2>1. f \in Surjection(I, last)
    <3> HIDE DEF I
    <3> QED  BY DEF Surjection
  <2> HIDE DEF f, I, last
  <2> QED  BY <1>4, <2>1, FS_Surjection
<1>6. Cardinality(last) \in Nat /\ Cardinality(I) \in Nat
  <2> HIDE DEF I, last
  <2> QED  BY <1>4, <1>5, FS_CardinalityType
<1>7. Cardinality(last) <= n
  <2> HIDE DEF I, last
  <2> QED  BY <1>4, <1>5, <1>6
<1> QED
  BY <1>5, <1>7

(***************************************************************************)
(* Once the EnvoyConfig controller is done no more than maxRevisions are   *)
(* kept, although the lists it worked on may have been out of date.        *)
(***************************************************************************)
THEOREM RetentionIsKept == Spec => []RetentionHolds
<1>1. ASSUME TypeOK, Coherence, PlanInv PROVE RetentionHolds
  <2> DEFINE kept == {v \in Versions : api[v].exists /\ ~api[v].deleting}
  <2> SUFFICES ASSUME EcSettled, config.exists PROVE Cardinality(kept) <= MaxRevisions
    BY DEF RetentionHolds
  <2>1. PICK list \in SortByPublication(config.desired, api) :
              \A v \in ShouldBeDeleted(list, MaxRevisions) : api[v].deleting
    BY <1>1, SettledIsDone
  <2>2. /\ list \in Seq(Versions) /\ Len(list) \in Nat /\ DOMAIN list = 1..Len(list)
        /\ \A v \in Listed(api) : \E i \in DOMAIN list : list[i] = v
    BY SortedListType
  <2>3. MaxRevisions \in Nat
    BY ControlAssumption
  <2> DEFINE last == {list[i] : i \in {j \in DOMAIN list : j > Len(list) - MaxRevisions}}
  <2>4. kept \subseteq last
    <3> SUFFICES ASSUME NEW v \in Versions, api[v].exists, ~api[v].deleting PROVE v \in last
      OBVIOUS
    <3>1. PICK i \in DOMAIN list : list[i] = v
      BY <2>2 DEF Listed
    <3>2. ~(i <= Len(list) - MaxRevisions)
      BY <2>1, <3>1 DEF ShouldBeDeleted
    <3>3. i > Len(list) - MaxRevisions
      BY <2>2, <2>3, <3>2
    <3> QED  BY <3>1, <3>3
  <2>5. IsFiniteSet(last) /\ Cardinality(last) <= MaxRevisions
    BY <2>2, <2>3, LastAreFew
  <2>6. Cardinality(kept) <= Cardinality(last) /\ Cardinality(kept) \in Nat /\ Cardinality(last) \in Nat
    <3> HIDE DEF kept, last
    <3> QED  BY <2>4, <2>5, FS_Subset, FS_CardinalityType
  <2> HIDE DEF kept, last
  <2> QED  BY <2>3, <2>5, <2>6
<1> QED
  BY <1>1, TypeCorrect, CoherenceHolds, PlanInit, PlanStep, PTL DEF Spec

-----------------------------------------------------------------------------
LEMMA DateType ==
    ASSUME NEW rev \in Revision
    PROVE  PublicationDate(rev) \in Nat
BY DEF Revision, PublicationDate

(***************************************************************************)
(* What getVersionToPublish makes of a list in the order of                *)
(* SortByPublication: another version than the desired one is only         *)
(* published if that is tainted, and then it is one of those with the      *)
(* latest publication date among the others that are not.                  *)
(***************************************************************************)
THEOREM RollbackFollowsDates ==
    ASSUME NEW revs \in [Versions -> Revision], NEW desired \in Listed(revs),
           NEW list \in SortByPublication(desired, revs)
    PROVE  LET target == VersionToPublish(list, revs)
           IN  /\ target # NoVersion => target \in Listed(revs) /\ ~revs[target].tainted
               /\ target # desired => revs[desired].tainted
               /\ target \notin {NoVersion, desired} =>
                     \A v \in Listed(revs) \ {desired} :
                         ~revs[v].tainted =>
                             PublicationDate(revs[v]) <= PublicationDate(revs[target])
<1> DEFINE target == VersionToPublish(list, revs)
           n == Len(list)
<1>1. /\ list \in Seq(Listed(revs))
      /\ \A v \in Listed(revs) : \E i \in DOMAIN list : list[i] = v
  BY SortedListType
<1>2. DOMAIN list = 1..n /\ n \in Nat
  BY <1>1
<1>3. n \in DOMAIN list /\ list[n] = desired
  BY DesiredGoesLast
<1>4. \/ \E i \in DOMAIN list : /\ list[i] = target
                                /\ ~revs[target].tainted
                                /\ \A j \in DOMAIN list : j > i => revs[list[j]].tainted
      \/ target = NoVersion /\ \A i \in DOMAIN list : revs[list[i]].tainted
  BY <1>1, VersionToPublishIsBest
<1> HIDE DEF target, n
<1>5. CASE target = NoVersion /\ \A i \in DOMAIN list : revs[list[i]].tainted
  BY <1>3, <1>5 DEF target
<1>6. ASSUME NEW i \in DOMAIN list, list[i] = target, ~revs[target].tainted,
             \A j \in DOMAIN list : j > i => revs[list[j]].tainted
      PROVE  /\ target \in Listed(revs) /\ ~revs[target].tainted
             /\ target # desired => revs[desired].tainted
             /\ target # desired =>
                   \A v \in Listed(revs) \ {desired} :
                       ~revs[v].tainted =>
                           PublicationDate(revs[v]) <= PublicationDate(revs[target])
  <2>1. target \in Listed(revs)
    BY <1>1, <1>6
  <2>2. target # desired => revs[desired].tainted
    <3>1. i = n \/ n > i
      BY <1>2
    <3> QED  BY <1>3, <1>6, <3>1
  <2>3. ASSUME target # desired, NEW v \in Listed(revs) \ {desired}, ~revs[v].tainted
        PROVE  PublicationDate(revs[v]) <= PublicationDate(revs[target])
    <3>1. PICK j \in DOMAIN list : list[j] = v
      BY <1>1
    <3>2. i \in Nat /\ j \in Nat /\ ~(j > i)
      BY <1>2, <1>6, <2>3, <3>1
    <3>3. CASE j = i
      <4>1. PublicationDate(revs[target]) \in Nat
        BY <2>1, DateType DEF Listed
      <4> QED  BY <1>6, <3>1, <3>3, <4>1
    <3>4. CASE j < i
      BY <1>6, <2>3, <3>1, <3>4 DEF SortByPublication
    <3> QED  BY <3>2, <3>3, <3>4
  <2> QED  BY <1>6, <2>1, <2>2, <2>3
<1> QED
  BY <1>4, <1>5, <1>6 DEF target
=============================================================================
