----------------------- MODULE RevisionControlProofs -----------------------
(***************************************************************************)
(* Proofs about RevisionList and RevisionControl, for any number of        *)
(* versions, any retention and any bounds: what the functions return, type *)
(* correctness, the invariant Coherence, and ReconcilePending.             *)
(***************************************************************************)
EXTENDS RevisionControl, ListProofs

-----------------------------------------------------------------------------
(***************************************************************************)
(* What the functions of RevisionList return, for any list of revisions.   *)
(***************************************************************************)

LEMMA ListedIsFinite ==
    ASSUME NEW revs
    PROVE  IsFiniteSet(Listed(revs)) /\ Cardinality(Listed(revs)) \in Nat
BY VersionsAssumption, FS_Subset, FS_CardinalityType DEF Listed

\* SortByPublication returns every revision it is given, once.
LEMMA SortedListType ==
    ASSUME NEW desired, NEW revs, NEW list \in SortByPublication(desired, revs)
    PROVE  /\ list \in Seq(Versions)
           /\ list \in Seq(Listed(revs))
           /\ Len(list) = Cardinality(Listed(revs))
           /\ \A v \in Listed(revs) : \E i \in DOMAIN list : list[i] = v
           /\ \A i, j \in DOMAIN list : list[i] = list[j] => i = j
<1>1. list \in Bijection(1..Cardinality(Listed(revs)), Listed(revs))
  BY DEF SortByPublication
<1>2. Listed(revs) \subseteq Versions
  BY DEF Listed
<1>3. list \in Seq(Listed(revs))
  BY <1>1, ListedIsFinite, OrdersOfSet
<1>4. list \in Seq(Versions)
  BY <1>2, <1>3
<1> QED
  BY <1>1, <1>3, <1>4, ListedIsFinite, OrdersOfSet

(***************************************************************************)
(* SortByPublication puts the desired version at the highest index, the    *)
(* others below in order of publication: whatever the dates, the desired   *)
(* version is the first that getVersionToPublish looks at.                 *)
(***************************************************************************)
THEOREM DesiredGoesLast ==
    ASSUME NEW desired, NEW revs, desired \in Listed(revs),
           NEW list \in SortByPublication(desired, revs)
    PROVE  Len(list) \in DOMAIN list /\ list[Len(list)] = desired
<1>1. PICK i \in DOMAIN list : list[i] = desired
  BY SortedListType
<1>2. list \in Seq(Versions)
  BY SortedListType
<1>3. DOMAIN list = 1..Len(list) /\ Len(list) \in Nat
  BY <1>2
<1>4. Len(list) \in DOMAIN list /\ i <= Len(list)
  BY <1>1, <1>3
<1>5. CASE i < Len(list)
  BY <1>1, <1>4, <1>5 DEF SortByPublication
<1>6. CASE i = Len(list)
  BY <1>1, <1>4, <1>6
<1> QED
  BY <1>1, <1>3, <1>4, <1>5, <1>6

(***************************************************************************)
(* getVersionToPublish returns an untainted revision above which all are   *)
(* tainted, or nothing when all are.                                       *)
(***************************************************************************)
THEOREM VersionToPublishIsBest ==
    ASSUME NEW S, NEW list \in Seq(S), NEW revs
    PROVE  LET target == VersionToPublish(list, revs)
               best(i) == /\ list[i] = target
                          /\ ~revs[target].tainted
                          /\ \A j \in DOMAIN list : j > i => revs[list[j]].tainted
           IN  \/ \E i \in DOMAIN list : best(i)
               \/ target = NoVersion /\ \A i \in DOMAIN list : revs[list[i]].tainted
<1> DEFINE untainted == {i \in DOMAIN list : ~revs[list[i]].tainted}
           target == VersionToPublish(list, revs)
<1>1. CASE untainted = {}
  BY <1>1 DEF VersionToPublish
<1>2. CASE untainted # {}
  <2>1. DOMAIN list = 1..Len(list) /\ Len(list) \in Nat
    OBVIOUS
  <2>2. untainted \in SUBSET (1..Len(list))
    BY <2>1
  <2>3. PICK m \in untainted : m = Max(untainted) /\ \A i \in untainted : i <= m
    <3> HIDE DEF untainted
    <3> QED  BY <1>2, <2>1, <2>2, MaxOfIndices
  <2>4. target = list[m]
    BY <1>2, <2>3 DEF VersionToPublish
  <2>5. ASSUME NEW j \in DOMAIN list, j > m
        PROVE  revs[list[j]].tainted
    <3>1. j \notin untainted
      <4>1. \A i \in untainted : i <= m
        BY <2>3
      <4>2. m \in Nat /\ j \in Nat
        BY <2>1, <2>2
      <4> HIDE DEF untainted
      <4> QED  BY <2>5, <4>1, <4>2
    <3> QED  BY <3>1
  <2> QED
    BY <2>3, <2>4, <2>5
<1> QED
  BY <1>1, <1>2

\* The list of retained revisions is a list of at most `retention` versions.
LEMMA RetainedType ==
    ASSUME NEW S, NEW list \in Seq(S), NEW retention \in Nat
    PROVE  Retained(list, retention) \in Seq(S) /\ Len(Retained(list, retention)) <= retention
<1>1. CASE Len(list) > retention
  <2>1. /\ Len(list) \in Nat
        /\ Len(list) - retention + 1 \in 1..(Len(list) + 1)
    BY <1>1
  <2> QED  BY <1>1, <2>1 DEF Retained
<1>2. CASE ~(Len(list) > retention)
  BY <1>2 DEF Retained
<1> QED
  BY <1>1, <1>2

-----------------------------------------------------------------------------
(***************************************************************************)
(* Type correctness.                                                       *)
(***************************************************************************)

LEMMA AbsentType == Absent \in Revision
BY DEF Absent, Revision

LEMMA IdleTypes == IdleEc \in EcWorker /\ IdleEcr \in EcrWorker /\ NoStatus \in Status
BY AbsentType DEF IdleEc, EcWorker, IdleEcr, EcrWorker, NoStatus, Status

LEMMA EnqueueType ==
    ASSUME NEW q \in Seq(Versions), NEW v \in Versions
    PROVE  Enqueue(q, v) \in Seq(Versions)
BY DEF Enqueue

LEMMA DeletedType ==
    ASSUME NEW rev \in Revision
    PROVE  Deleted(rev) \in Revision
BY AbsentType DEF Deleted, Revision

LEMMA StatusOfType ==
    ASSUME NEW desired \in Versions, NEW list \in Seq(Versions),
           NEW target \in Versions \cup {NoVersion}
    PROVE  StatusOf(desired, list, target) \in Status
<1>1. Retained(list, MaxRevisions) \in Seq(Versions)
  BY ControlAssumption, RetainedType
<1>2. CacheStateOf(list, target) \in CacheStates
  BY DEF CacheStateOf, CacheStates
<1> QED
  BY <1>1, <1>2 DEF StatusOf, Status

LEMMA EcPlanType ==
    ASSUME TypeOK, NEW desired \in Versions, NEW list \in SortByPublication(desired, view)
    PROVE  EcPlan(desired, list) \in EcWorker
<1> DEFINE target    == VersionToPublish(list, view)
           unpublish == ShouldBeFalse(target, view)
           publish   == ShouldBeTrue(target, view)
           copied    == unpublish \cup ({publish} \ {NoVersion})
           copy      == [v \in Versions |-> IF v \in copied THEN view[v] ELSE Absent]
           status    == StatusOf(desired, list, target)
<1>1. list \in Seq(Versions)
  BY SortedListType
<1>2. target \in Versions \cup {NoVersion}
  BY <1>1, VersionToPublishIsBest
<1>3. unpublish \subseteq Versions
  BY DEF ShouldBeFalse, Listed
<1>4. publish \in Versions \cup {NoVersion}
  BY <1>2 DEF ShouldBeTrue
<1>5. ShouldBeDeleted(list, MaxRevisions) \subseteq Versions
  BY <1>1 DEF ShouldBeDeleted
<1>6. copy \in [Versions -> Revision]
  BY AbsentType DEF TypeOK
<1>7. {v \in copied : IsCurrent(v)} \subseteq Versions
  BY <1>3, <1>4
<1>8. status \in Status
  BY <1>1, <1>2, StatusOfType
<1>9. configSynced \in BOOLEAN
  BY DEF TypeOK
<1>10. EcPlan(desired, list) =
          [busy |-> TRUE, list |-> list, create |-> NoVersion, unpublish |-> unpublish,
           publish |-> publish, delete |-> ShouldBeDeleted(list, MaxRevisions),
           copy |-> copy, fresh |-> {v \in copied : IsCurrent(v)},
           current |-> configSynced, status |-> status,
           update |-> status # configView.status]
  BY DEF EcPlan
<1> HIDE DEF unpublish, publish, copied, copy, status, target
<1> QED
  BY <1>1, <1>3, <1>4, <1>5, <1>6, <1>7, <1>8, <1>9, <1>10 DEF EcWorker

LEMMA InitType == Init => TypeOK
BY AbsentType, IdleTypes, ControlAssumption
   DEF Init, TypeOK, Dates, Config, Event, IdleEcr

LEMMA WriteType ==
    ASSUME TypeOK, NEW v \in Versions, NEW rev \in Revision, Write(v, rev)
    PROVE  api' \in [Versions -> Revision] /\ watch' \in Seq(Event)
<1>1. [version |-> v, rev |-> rev] \in Event
  BY DEF Event
<1> QED
  BY <1>1 DEF TypeOK, Write

LEMMA StaleTypes ==
    ASSUME TypeOK, NEW v
    PROVE  /\ StaleEc(v) \in EcWorker
           /\ StaleEcr(v) \in EcrWorker
           /\ StaleEcr(v).pc = ecr.pc
           /\ StaleEcr(v).version = ecr.version
BY DEF TypeOK, StaleEc, StaleEcr, EcWorker, EcrWorker

LEMMA EcUpdateType ==
    ASSUME TypeOK, NEW v \in Versions, NEW published \in BOOLEAN, NEW worker \in EcWorker,
           EcUpdate(v, published, worker)
    PROVE  TypeOK'
<1>1. CASE v \in ec.fresh
  <2>1. [ec.copy[v] EXCEPT !.published = published] \in Revision
    <3>1. ec.copy[v] \in Revision
      BY DEF TypeOK, EcWorker
    <3> QED  BY <3>1 DEF Revision
  <2>2. Write(v, [ec.copy[v] EXCEPT !.published = published])
    BY <1>1 DEF EcUpdate
  <2>3. api' \in [Versions -> Revision] /\ watch' \in Seq(Event)
    BY <2>1, <2>2, WriteType
  <2>4. ec' \in EcWorker
    <3>1. ec' = [worker EXCEPT !.copy[v] = Absent, !.fresh = @ \ {v}]
      BY <1>1 DEF EcUpdate
    <3>2. [worker.copy EXCEPT ![v] = Absent] \in [Versions -> Revision]
      BY AbsentType DEF EcWorker
    <3>3. worker.fresh \ {v} \in SUBSET Versions
      BY DEF EcWorker
    <3> QED  BY <3>1, <3>2, <3>3 DEF EcWorker
  <2>5. ecr' = StaleEcr(v) /\ dirty' = dirty
    BY <1>1 DEF EcUpdate
  <2>6. ecr' \in EcrWorker /\ ecr'.pc = ecr.pc /\ ecr'.version = ecr.version
    BY <2>5, StaleTypes
  <2> QED
    BY <2>3, <2>4, <2>5, <2>6 DEF EcUpdate, TypeOK, xdsVars
<1>2. CASE v \notin ec.fresh
  BY <1>2, IdleTypes DEF EcUpdate, EcRequeue, TypeOK, xdsVars
<1> QED
  BY <1>1, <1>2

\* The workers' changes of mind.
LEMMA EcrDoneType ==
    ASSUME TypeOK, ecr.pc # "idle", NEW again, EcrDone(again)
    PROVE  /\ ecr' \in EcrWorker
           /\ ecr'.pc = "idle"
           /\ delayed' \subseteq Versions
BY IdleTypes DEF TypeOK, EcrDone, IdleEcr

LEMMA NextType == TypeOK /\ [Next]_vars => TypeOK'
<1> SUFFICES ASSUME TypeOK, [Next]_vars PROVE TypeOK'
  OBVIOUS
<1> USE DEF apiVars, xdsVars, EcrVars
<1>1. CASE DeliverRevision
  <2>1. Head(watch) \in Event /\ Tail(watch) \in Seq(Event)
    BY <1>1 DEF DeliverRevision, TypeOK
  <2>2. Enqueue(queue, Head(watch).version) \in Seq(Versions)
    BY <2>1, EnqueueType DEF TypeOK, Event
  <2>3. [view EXCEPT ![Head(watch).version] = Head(watch).rev] \in [Versions -> Revision]
    BY <2>1 DEF TypeOK, Event
  <2> QED
    BY <1>1, <2>1, <2>2, <2>3 DEF DeliverRevision, TypeOK
<1>2. CASE DeliverConfig
  BY <1>2 DEF DeliverConfig, TypeOK
<1>3. ASSUME NEW v \in Versions, CollectRevision(v) PROVE TypeOK'
  <2>1. api' \in [Versions -> Revision] /\ watch' \in Seq(Event)
    BY <1>3, DeletedType, WriteType DEF CollectRevision, TypeOK
  <2> QED
    BY <1>3, <2>1, StaleTypes DEF CollectRevision, TypeOK
<1>4. CASE EcRead
  <2>1. ec' \in EcWorker
    <3>1. configView.desired \in Versions
      BY DEF TypeOK, Config
    <3>2. IdleEc \in EcWorker /\ [IdleEc EXCEPT !.busy = TRUE, !.create = configView.desired] \in EcWorker
      BY <3>1, IdleTypes DEF EcWorker
    <3>3. \A list \in SortByPublication(configView.desired, view) :
             EcPlan(configView.desired, list) \in EcWorker
      BY <3>1, EcPlanType
    <3> QED
      BY <1>4, <3>2, <3>3 DEF EcRead
  <2> QED
    BY <1>4, <2>1 DEF EcRead, TypeOK
<1>5. CASE EcCreate
  <2>1. ec.create \in Versions
    BY <1>5 DEF EcCreate, TypeOK, EcWorker
  <2>2. CASE api[ec.create].exists
    BY <1>5, <2>2, IdleTypes DEF EcCreate, EcRequeue, TypeOK
  <2>3. CASE ~api[ec.create].exists
    <3>1. PICK t \in Dates : ReadClock(t) /\ Write(ec.create, NewRevision(t))
      BY <1>5, <2>3 DEF EcCreate
    <3>2. NewRevision(t) \in Revision
      <4>1. t \in Nat
        BY ControlAssumption DEF Dates
      <4> QED  BY <4>1, AbsentType DEF NewRevision, Revision
    <3>3. api' \in [Versions -> Revision] /\ watch' \in Seq(Event)
      BY <2>1, <3>1, <3>2, WriteType
    <3>4. now' \in Dates
      BY <3>1 DEF ReadClock
    <3> QED
      BY <1>5, <2>3, <3>3, <3>4, IdleTypes, StaleTypes DEF EcCreate, EcRequeue, TypeOK
  <2> QED
    BY <2>2, <2>3
<1>6. CASE EcUnpublish
  <2>1. PICK v \in ec.unpublish : EcUpdate(v, FALSE, [ec EXCEPT !.unpublish = @ \ {v}])
    BY <1>6 DEF EcUnpublish
  <2>2. v \in Versions /\ [ec EXCEPT !.unpublish = @ \ {v}] \in EcWorker
    BY DEF TypeOK, EcWorker
  <2> QED
    BY <2>1, <2>2, EcUpdateType
<1>7. CASE EcPublish
  <2>1. EcUpdate(ec.publish, TRUE, [ec EXCEPT !.publish = NoVersion])
    BY <1>7 DEF EcPublish
  <2>2. ec.publish \in Versions /\ [ec EXCEPT !.publish = NoVersion] \in EcWorker
    BY <1>7 DEF EcPublish, TypeOK, EcWorker
  <2> QED
    BY <2>1, <2>2, EcUpdateType
<1>8. CASE EcDelete
  <2>1. PICK v \in ec.delete :
          \/ /\ api[v].exists
             /\ ~api[v].deleting
             /\ Write(v, Deleted(api[v]))
             /\ ec' = [ec EXCEPT !.delete = @ \ {v}, !.fresh = @ \ {v}]
             /\ ecr' = StaleEcr(v)
             /\ UNCHANGED dirty
          \/ /\ api[v].deleting
             /\ ec' = [ec EXCEPT !.delete = @ \ {v}]
             /\ UNCHANGED <<api, watch, dirty, ecr>>
          \/ /\ ~api[v].exists
             /\ EcRequeue
             /\ UNCHANGED <<api, watch, ecr>>
    BY <1>8 DEF EcDelete
  <2>2. v \in Versions
    BY DEF TypeOK, EcWorker
  <2>3. CASE Write(v, Deleted(api[v])) /\ ecr' = StaleEcr(v) /\ UNCHANGED dirty
             /\ ec' = [ec EXCEPT !.delete = @ \ {v}, !.fresh = @ \ {v}]
    <3>1. api' \in [Versions -> Revision] /\ watch' \in Seq(Event)
      BY <2>2, <2>3, DeletedType, WriteType DEF TypeOK
    <3>2. ec' \in EcWorker
      BY <2>3 DEF TypeOK, EcWorker
    <3> QED
      BY <1>8, <2>3, <3>1, <3>2, StaleTypes DEF EcDelete, TypeOK
  <2>4. CASE ec' = [ec EXCEPT !.delete = @ \ {v}] /\ UNCHANGED <<api, watch, dirty, ecr>>
    <3>1. ec' \in EcWorker
      BY <2>4 DEF TypeOK, EcWorker
    <3> QED
      BY <1>8, <2>4, <3>1 DEF EcDelete, TypeOK
  <2>5. CASE EcRequeue /\ UNCHANGED <<api, watch, ecr>>
    BY <1>8, <2>5, IdleTypes DEF EcDelete, EcRequeue, TypeOK
  <2> QED
    BY <2>1, <2>3, <2>4, <2>5
<1>9. CASE EcStatus
  <2>1. config' \in Config /\ configSynced' \in BOOLEAN
    BY <1>9 DEF EcStatus, TypeOK, Config, EcWorker
  <2>2. ec' \in EcWorker /\ dirty' \in BOOLEAN
    BY <1>9, IdleTypes DEF EcStatus, EcDone, EcRequeue, TypeOK
  <2> QED
    BY <1>9, <2>1, <2>2 DEF EcStatus, TypeOK
<1>10. CASE EcFail
  <2>1. spent' \in [edits: Nat, deletes: Nat, restarts: Nat, failures: Nat]
    BY <1>10 DEF EcFail, TypeOK
  <2> QED
    BY <1>10, <2>1, IdleTypes DEF EcFail, EcRequeue, TypeOK
<1>11. CASE EcrRead
  <2>1. Head(queue) \in Versions /\ Tail(queue) \in Seq(Versions)
    BY <1>11 DEF EcrRead, TypeOK
  <2>2. view[Head(queue)] \in Revision
    BY <2>1 DEF TypeOK
  <2>3. Phase(view[Head(queue)]) \in {"idle", "initialize", "finalize", "load", "status"}
    BY DEF Phase
  <2>4. ecr' \in EcrWorker /\ (ecr'.pc # "idle" => ecr'.version \in Versions)
    <3>1. IsCurrent(Head(queue)) \in BOOLEAN
      BY DEF IsCurrent
    <3> QED
      BY <1>11, <2>1, <2>2, <2>3, <3>1, IdleTypes DEF EcrRead, EcrWorker, IdleEcr
  <2> QED
    BY <1>11, <2>1, <2>4 DEF EcrRead, TypeOK
<1>12. ASSUME NEW v \in Versions, EcrTimer(v) \/ ResourceEvent(v) PROVE TypeOK'
  <2>1. Enqueue(queue, v) \in Seq(Versions)
    BY EnqueueType DEF TypeOK
  <2> QED
    BY <1>12, <2>1 DEF EcrTimer, ResourceEvent, TypeOK
<1>13. CASE EcrInitialize
  <2>1. ecr.pc # "idle" /\ ecr.version \in Versions
    BY <1>13 DEF EcrInitialize, TypeOK
  <2>2. ecr' \in EcrWorker /\ ecr'.pc = "idle" /\ delayed' \subseteq Versions
    BY <1>13, <2>1, EcrDoneType DEF EcrInitialize
  <2>3. [ecr.rev EXCEPT !.finalizer = TRUE] \in Revision
    BY DEF TypeOK, EcrWorker, Revision
  <2>4. api' \in [Versions -> Revision] /\ watch' \in Seq(Event) /\ ec' \in EcWorker
    <3>1. CASE ecr.fresh
      BY <1>13, <2>1, <2>3, <3>1, WriteType, StaleTypes DEF EcrInitialize
    <3>2. CASE ~ecr.fresh
      BY <1>13, <3>2 DEF EcrInitialize, TypeOK
    <3> QED  BY <3>1, <3>2
  <2> QED
    BY <1>13, <2>2, <2>4 DEF EcrInitialize, TypeOK
<1>14. CASE EcrCleanup
  <2>1. snapshot' \in Versions \cup {NoVersion} /\ failing' \subseteq Versions
    BY <1>14 DEF EcrCleanup, TypeOK
  <2>2. ecr' \in EcrWorker /\ ecr'.version \in Versions
    BY <1>14 DEF EcrCleanup, TypeOK, EcrWorker
  <2> QED
    BY <1>14, <2>1, <2>2 DEF EcrCleanup, TypeOK
<1>15. CASE EcrFinalize
  <2>1. ecr.pc # "idle" /\ ecr.version \in Versions
    BY <1>15 DEF EcrFinalize, TypeOK
  <2>2. ecr' \in EcrWorker /\ ecr'.pc = "idle" /\ delayed' \subseteq Versions
    BY <1>15, <2>1, EcrDoneType DEF EcrFinalize
  <2>3. api' \in [Versions -> Revision] /\ watch' \in Seq(Event) /\ ec' \in EcWorker
    <3>1. CASE ecr.fresh
      BY <1>15, <2>1, <3>1, AbsentType, WriteType, StaleTypes DEF EcrFinalize
    <3>2. CASE ~ecr.fresh
      BY <1>15, <3>2 DEF EcrFinalize, TypeOK
    <3> QED  BY <3>1, <3>2
  <2> QED
    BY <1>15, <2>2, <2>3 DEF EcrFinalize, TypeOK
<1>16. CASE EcrLoad
  <2>1. ecr.version \in Versions
    BY <1>16 DEF EcrLoad, TypeOK
  <2>2. ecr' \in EcrWorker /\ ecr'.version \in Versions
    BY <1>16, <2>1 DEF EcrLoad, TypeOK, EcrWorker
  <2>3. snapshot' \in Versions \cup {NoVersion}
    BY <1>16, <2>1 DEF EcrLoad, TypeOK
  <2> QED
    BY <1>16, <2>2, <2>3 DEF EcrLoad, TypeOK
<1>17. CASE EcrTaint
  <2> DEFINE patched == [api[ecr.version] EXCEPT !.published = ecr.rev.published,
                                                 !.inSync = ecr.rev.inSync,
                                                 !.tainted = TRUE]
  <2>1. ecr.pc # "idle" /\ ecr.version \in Versions
    BY <1>17 DEF EcrTaint, TypeOK
  <2>2. patched \in Revision
    <3>1. api[ecr.version] \in Revision /\ ecr.rev \in Revision
      BY <2>1 DEF TypeOK, EcrWorker
    <3> QED  BY <3>1 DEF Revision
  <2>3. CASE api[ecr.version].exists
    <3>1. /\ Write(ecr.version, patched)
          /\ ecr' = [ecr EXCEPT !.pc = "status", !.rev = patched, !.fresh = TRUE]
          /\ ec' = StaleEc(ecr.version)
          /\ delayed' = delayed
      BY <1>17, <2>3 DEF EcrTaint
    <3>2. api' \in [Versions -> Revision] /\ watch' \in Seq(Event) /\ ec' \in EcWorker
      BY <2>1, <2>2, <3>1, WriteType, StaleTypes
    <3>3. ecr' \in EcrWorker /\ ecr'.version \in Versions
      BY <2>1, <2>2, <3>1 DEF TypeOK, EcrWorker
    <3> QED
      BY <1>17, <3>1, <3>2, <3>3 DEF EcrTaint, TypeOK
  <2>4. CASE ~api[ecr.version].exists
    <3>1. ecr' \in EcrWorker /\ ecr'.pc = "idle" /\ delayed' \subseteq Versions
      BY <1>17, <2>1, <2>4, EcrDoneType DEF EcrTaint
    <3> QED
      BY <1>17, <2>4, <3>1 DEF EcrTaint, TypeOK
  <2> QED
    BY <2>3, <2>4
<1>18. CASE EcrStatus
  <2> DEFINE rev == ReconciledStatus(ecr.version, ecr.rev, ecr.vt)
  <2>1. ecr.pc # "idle" /\ ecr.version \in Versions
    BY <1>18 DEF EcrStatus, TypeOK
  <2>2. ecr' \in EcrWorker /\ ecr'.pc = "idle" /\ delayed' \subseteq Versions
    BY <1>18, <2>1, EcrDoneType DEF EcrStatus
  <2>3. rev \in Revision
    BY DEF TypeOK, EcrWorker, Revision, ReconciledStatus, ResourcesInSync, IsFailing
  <2>4. /\ api' \in [Versions -> Revision] /\ watch' \in Seq(Event)
        /\ ec' \in EcWorker /\ now' \in Dates
    <3>1. CASE /\ ec' = StaleEc(ecr.version)
               /\ \E t \in Dates : /\ ReadClock(t)
                                   /\ Write(ecr.version, [rev EXCEPT !.lastPublishedAt = t])
      <4>1. PICK t \in Dates : ReadClock(t) /\ Write(ecr.version, [rev EXCEPT !.lastPublishedAt = t])
        BY <3>1
      <4>2. [rev EXCEPT !.lastPublishedAt = t] \in Revision
        BY <2>3 DEF Revision, Dates
      <4> QED
        BY <2>1, <3>1, <4>1, <4>2, WriteType, StaleTypes DEF ReadClock
    <3>2. CASE ec' = StaleEc(ecr.version) /\ Write(ecr.version, rev) /\ UNCHANGED now
      BY <2>1, <2>3, <3>2, WriteType, StaleTypes DEF TypeOK
    <3>3. CASE UNCHANGED <<now, api, watch, ec>>
      BY <3>3 DEF TypeOK
    <3> QED
      BY <1>18, <3>1, <3>2, <3>3 DEF EcrStatus
  <2> QED
    BY <1>18, <2>2, <2>4 DEF EcrStatus, TypeOK
<1>19. CASE EcrFail
  <2>1. spent' \in [edits: Nat, deletes: Nat, restarts: Nat, failures: Nat]
    BY <1>19 DEF EcrFail, TypeOK
  <2>2. ecr' \in EcrWorker /\ ecr'.pc = "idle" /\ delayed' \subseteq Versions
    BY <1>19, EcrDoneType DEF EcrFail
  <2> QED
    BY <1>19, <2>1, <2>2 DEF EcrFail, TypeOK
<1>20. CASE EnvoyReject
  BY <1>20, ControlAssumption DEF EnvoyReject, TypeOK
<1>21. ASSUME NEW v \in Versions, UserEdit(v) PROVE TypeOK'
  <2>1. config' \in Config /\ ec' \in EcWorker
    BY <1>21 DEF UserEdit, TypeOK, Config, EcWorker
  <2>2. spent' \in [edits: Nat, deletes: Nat, restarts: Nat, failures: Nat]
    BY <1>21 DEF UserEdit, TypeOK
  <2> QED
    BY <1>21, <2>1, <2>2 DEF UserEdit, TypeOK
<1>22. CASE UserDeleteConfig
  <2>1. config' \in Config /\ ec' \in EcWorker
    BY <1>22 DEF UserDeleteConfig, TypeOK, Config, EcWorker
  <2>2. spent' \in [edits: Nat, deletes: Nat, restarts: Nat, failures: Nat]
    BY <1>22 DEF UserDeleteConfig, TypeOK
  <2> QED
    BY <1>22, <2>1, <2>2 DEF UserDeleteConfig, TypeOK
<1>23. ASSUME NEW v \in Versions, UserDeleteRevision(v) PROVE TypeOK'
  <2>1. api' \in [Versions -> Revision] /\ watch' \in Seq(Event)
    BY <1>23, DeletedType, WriteType DEF UserDeleteRevision, TypeOK
  <2>2. spent' \in [edits: Nat, deletes: Nat, restarts: Nat, failures: Nat]
    <3>1. /\ spent \in [edits: Nat, deletes: Nat, restarts: Nat, failures: Nat]
          /\ spent' = [spent EXCEPT !.deletes = @ + 1]
      BY <1>23 DEF UserDeleteRevision, TypeOK
    <3> QED BY <3>1
  <2> QED
    BY <1>23, <2>1, <2>2, StaleTypes DEF UserDeleteRevision, TypeOK
<1>24. CASE Restart
  <2>1. queue' \in Seq(Versions)
    <3>1. Listed(api) \subseteq Versions
      BY DEF Listed
    <3>2. \A q \in Bijection(1..Cardinality(Listed(api)), Listed(api)) : q \in Seq(Versions)
      BY <3>1, ListedIsFinite, OrdersOfSet
    <3> QED
      BY <1>24, <3>2 DEF Restart
  <2>2. spent' \in [edits: Nat, deletes: Nat, restarts: Nat, failures: Nat]
    BY <1>24 DEF Restart, TypeOK
  <2> QED
    BY <1>24, <2>1, <2>2, IdleTypes DEF Restart, TypeOK, IdleEcr
<1>25. CASE UNCHANGED vars
  BY <1>25 DEF vars, TypeOK
<1> QED
  BY <1>1, <1>2, <1>3, <1>4, <1>5, <1>6, <1>7, <1>8, <1>9, <1>10, <1>11, <1>12, <1>13,
     <1>14, <1>15, <1>16, <1>17, <1>18, <1>19, <1>20, <1>21, <1>22, <1>23, <1>24, <1>25
  DEF Next

(***************************************************************************)
(* Every variable keeps its type in every behaviour of the two controllers *)
(* and their environment.                                                  *)
(***************************************************************************)
THEOREM TypeCorrect == Spec => []TypeOK
BY InitType, NextType, PTL DEF Spec

-----------------------------------------------------------------------------
(***************************************************************************)
(* How the parts of Coherence fare when something is written, or is not.   *)
(***************************************************************************)

LEMMA DeletedIsBlank ==
    ASSUME NEW rev \in Revision, rev.exists \/ rev = Absent
    PROVE  Deleted(rev).exists \/ Deleted(rev) = Absent
BY DEF Deleted, Revision, Absent

\* Without a write, an event or a delivery, the copies in the API server, the
\* events and the cache agree as before.
LEMMA WatchFrame ==
    ASSUME Coherence, UNCHANGED <<api, view, watch>>
    PROVE  /\ AbsentIsBlank(api)'
           /\ AbsentIsBlank(view)'
           /\ WatchIsCoherent'
           /\ \A v : IsCurrent(v) => IsCurrent(v)'
BY DEF Coherence, AbsentIsBlank, WatchIsCoherent, IsLastEvent, IsCurrent

\* A write appends the event that carries the object written.
LEMMA WatchWrite ==
    ASSUME TypeOK, Coherence, NEW v \in Versions, NEW rev \in Revision,
           rev.exists \/ rev = Absent, Write(v, rev), view' = view
    PROVE  /\ AbsentIsBlank(api)'
           /\ AbsentIsBlank(view)'
           /\ WatchIsCoherent'
           /\ \A w \in Versions : w # v => api'[w] = api[w]
           /\ \A w \in Versions : w # v /\ IsCurrent(w) => IsCurrent(w)'
           /\ api'[v] = rev
<1> DEFINE n == Len(watch)
           event == [version |-> v, rev |-> rev]
<1>1. /\ api' = [api EXCEPT ![v] = rev]
      /\ watch' = Append(watch, event)
  BY DEF Write
<1>2. /\ watch \in Seq(Event)
      /\ event \in Event
      /\ api \in [Versions -> Revision]
  BY DEF TypeOK, Event
<1>3. /\ n \in Nat
      /\ DOMAIN watch = 1..n
      /\ DOMAIN watch' = 1..(n + 1)
      /\ \A i \in 1..n : watch'[i] = watch[i] /\ watch[i] \in Event
      /\ watch'[n + 1] = event
  BY <1>1, <1>2
<1>4. api'[v] = rev /\ \A w \in Versions : w # v => api'[w] = api[w]
  BY <1>1, <1>2
<1>5. AbsentIsBlank(api)' /\ AbsentIsBlank(view)'
  BY <1>4 DEF Coherence, AbsentIsBlank
<1>6. \A w \in Versions : IsCurrent(w)' <=> w # v /\ IsCurrent(w)
  <2> TAKE w \in Versions
  <2>1. IsCurrent(w)' <=> \A i \in 1..(n + 1) : watch'[i].version # w
    BY <1>3 DEF IsCurrent
  <2>2. IsCurrent(w) <=> \A i \in 1..n : watch[i].version # w
    BY <1>3 DEF IsCurrent
  <2>3. (\A i \in 1..(n + 1) : watch'[i].version # w)
           <=> (\A i \in 1..n : watch[i].version # w) /\ event.version # w
    BY <1>3
  <2> QED  BY <2>1, <2>2, <2>3
<1>7. ASSUME NEW i \in DOMAIN watch', IsLastEvent(i)'
      PROVE  watch'[i].rev = api'[watch'[i].version]
  <2>1. CASE i = n + 1
    BY <1>3, <1>4, <2>1
  <2>2. CASE i \in 1..n
    <3>1. \A j \in 1..(n + 1) : j > i => watch'[j].version # watch'[i].version
      BY <1>3, <1>7 DEF IsLastEvent
    <3>2. watch[i].version # v
      BY <1>3, <2>2, <3>1
    <3>3. IsLastEvent(i)
      BY <1>3, <2>2, <3>1 DEF IsLastEvent
    <3>4. watch[i].rev = api[watch[i].version] /\ watch[i].version \in Versions
      BY <1>3, <2>2, <3>3 DEF Coherence, WatchIsCoherent, Event
    <3> QED  BY <1>3, <1>4, <2>2, <3>2, <3>4
  <2> QED  BY <1>3, <2>1, <2>2
<1>8. ASSUME NEW i \in DOMAIN watch' PROVE watch'[i].rev.exists \/ watch'[i].rev = Absent
  <2>1. CASE i = n + 1
    BY <1>3, <2>1
  <2>2. CASE i \in 1..n
    BY <1>3, <2>2 DEF Coherence, WatchIsCoherent
  <2> QED  BY <1>3, <2>1, <2>2
<1>9. \A w \in Versions : IsCurrent(w)' => view'[w] = api'[w]
  BY <1>4, <1>6 DEF Coherence, WatchIsCoherent
<1>10. WatchIsCoherent'
  BY <1>7, <1>8, <1>9 DEF WatchIsCoherent
<1> QED
  BY <1>4, <1>5, <1>6, <1>10

\* A write leaves the copies of the EnvoyConfig worker out of date, if it has any.
LEMMA EcWrite ==
    ASSUME TypeOK, Coherence, NEW v \in Versions, ec' = StaleEc(v),
           \A w \in Versions : w # v => api'[w] = api[w]
    PROVE  EcIsCoherent'
<1>1. /\ ec'.fresh = ec.fresh \ {v}
      /\ ec'.copy = ec.copy
      /\ ec'.publish = ec.publish
      /\ ec.fresh \subseteq Versions
  BY DEF TypeOK, EcWorker, StaleEc
<1>2. \A w \in ec'.fresh : ec'.copy[w] = api'[w] /\ api'[w].exists
  BY <1>1 DEF Coherence, EcIsCoherent
<1> QED
  BY <1>1, <1>2 DEF Coherence, EcIsCoherent

LEMMA EcIdleIsCoherent == ec' = IdleEc => EcIsCoherent'
BY DEF IdleEc, EcIsCoherent

LEMMA EcrIdleIsCoherent == ecr' = IdleEcr => EcrIsCoherent'
BY DEF IdleEcr, EcrIsCoherent

\* So it does for the EnvoyConfigRevision worker.
LEMMA EcrWrite ==
    ASSUME TypeOK, Coherence, NEW v \in Versions, ecr' = StaleEcr(v),
           \A w \in Versions : w # v => api'[w] = api[w],
           \A w \in Versions : w # v /\ IsCurrent(w) => IsCurrent(w)'
    PROVE  /\ EcrIsCoherent'
           /\ ecr'.version = ecr.version
           /\ ecr'.rev = ecr.rev
<1>1. /\ ecr'.pc = ecr.pc
      /\ ecr'.version = ecr.version
      /\ ecr'.rev = ecr.rev
      /\ ecr'.fresh = (ecr.fresh /\ ecr.version # v)
      /\ ecr \in EcrWorker
  BY DEF TypeOK, EcrWorker, StaleEcr
<1>2. CASE ecr.pc = "idle"
  <2>1. ecr = IdleEcr
    BY <1>2 DEF Coherence, EcrIsCoherent
  <2>2. ecr' = IdleEcr
    <3>1. ecr' = [IdleEcr EXCEPT !.fresh = IdleEcr.fresh /\ ecr.version # v]
      BY <2>1 DEF StaleEcr
    <3>2. (IdleEcr.fresh /\ ecr.version # v) = FALSE
      BY DEF IdleEcr
    <3>3. ecr' = [IdleEcr EXCEPT !.fresh = FALSE]
      BY <3>1, <3>2
    <3> QED  BY <3>3 DEF IdleEcr
  <2> QED  BY <1>1, <2>2, EcrIdleIsCoherent
<1>3. CASE ecr.pc # "idle"
  <2>1. PICK u \in Versions : u = ecr.version
    BY <1>3 DEF TypeOK
  <2>2. ecr'.fresh => ecr'.rev = api'[ecr'.version]
    BY <1>1, <2>1 DEF Coherence, EcrIsCoherent
  <2>3. ecr.pc \in {"finalize", "unfinalize"} =>
           ecr'.rev.deleting /\ (ecr'.fresh => IsCurrent(u)')
    BY <1>1, <2>1 DEF Coherence, EcrIsCoherent
  <2>4. IsCurrent(u)' => IsCurrent(ecr.version)'
    BY <1>1, <2>1 DEF IsCurrent
  <2>5. ecr'.pc # "idle" => ecr'.rev.exists
    BY <1>1 DEF Coherence, EcrIsCoherent
  <2> QED  BY <1>1, <1>3, <2>2, <2>3, <2>4, <2>5 DEF EcrIsCoherent
<1> QED
  BY <1>1, <1>2, <1>3

LEMMA PendingFrame ==
    ASSUME Coherence, UNCHANGED <<view, queue, delayed>>,
           ecr'.version = ecr.version, ecr'.rev = ecr.rev
    PROVE  ViewIsPending'
BY DEF Coherence, ViewIsPending

LEMMA EnqueueContains ==
    ASSUME NEW q \in Seq(Versions), NEW v \in Versions
    PROVE  /\ v \in Range(Enqueue(q, v))
           /\ \A w : w \in Range(q) => w \in Range(Enqueue(q, v))
<1>1. CASE v \in Range(q)
  BY <1>1 DEF Enqueue
<1>2. CASE v \notin Range(q)
  <2>1. Enqueue(q, v) = Append(q, v)
    BY <1>2 DEF Enqueue
  <2>2. /\ Len(q) \in Nat
        /\ Len(Append(q, v)) = Len(q) + 1
        /\ Append(q, v)[Len(q) + 1] = v
        /\ \A i \in 1..Len(q) : Append(q, v)[i] = q[i]
    OBVIOUS
  <2> QED  BY <2>1, <2>2 DEF Range
<1> QED
  BY <1>1, <1>2

LEMMA TailContains ==
    ASSUME NEW q \in Seq(Versions), q # <<>>, NEW v, v \in Range(q), v # Head(q)
    PROVE  v \in Range(Tail(q))
<1>1. PICK i \in 1..Len(q) : q[i] = v
  BY DEF Range
<1>2. /\ Len(q) \in Nat
      /\ Head(q) = q[1]
      /\ Len(Tail(q)) = Len(q) - 1
      /\ \A j \in 1..Len(Tail(q)) : Tail(q)[j] = q[j + 1]
  OBVIOUS
<1>3. i - 1 \in 1..Len(Tail(q)) /\ Tail(q)[i - 1] = v
  BY <1>1, <1>2
<1> QED
  BY <1>3 DEF Range

(***************************************************************************)
(* The end of a reconcile of a revision: it stays pending if it was the    *)
(* published one, unless the copy in the cache is not.                     *)
(***************************************************************************)
LEMMA PendingAfterReconcile ==
    ASSUME TypeOK, Coherence, NEW again \in BOOLEAN, EcrDone(again),
           UNCHANGED <<view, queue>>,
           \/ again
           \/ ~ecr.rev.published
           \/ view[ecr.version].deleting
    PROVE  ViewIsPending'
<1> SUFFICES ASSUME NEW v \in Versions, view[v].published, ~view[v].deleting
             PROVE  v \in delayed' \/ v \in Range(queue)
  BY DEF ViewIsPending
<1>1. \/ v \in delayed
      \/ v \in Range(queue)
      \/ ecr.version = v /\ ecr.rev.published
  BY DEF Coherence, ViewIsPending
<1>2. delayed' = IF again THEN delayed \cup {ecr.version} ELSE delayed
  BY DEF EcrDone
<1> QED
  BY <1>1, <1>2

-----------------------------------------------------------------------------
(***************************************************************************)
(* Coherence is an invariant.                                              *)
(***************************************************************************)

LEMMA InitCoherent == Init => Coherence
<1> SUFFICES ASSUME Init PROVE Coherence
  OBVIOUS
<1>1. /\ api = [v \in Versions |-> Absent]
      /\ view = [v \in Versions |-> Absent]
      /\ watch = <<>>
      /\ ec = IdleEc
      /\ ecr = IdleEcr
  BY DEF Init
<1>2. AbsentIsBlank(api) /\ AbsentIsBlank(view)
  BY <1>1 DEF AbsentIsBlank
<1>3. WatchIsCoherent
  BY <1>1 DEF WatchIsCoherent
<1>4. EcIsCoherent
  BY <1>1 DEF EcIsCoherent, IdleEc
<1>5. EcrIsCoherent
  BY <1>1 DEF EcrIsCoherent, IdleEcr
<1>6. ViewIsPending
  BY <1>1 DEF ViewIsPending, Absent
<1> QED
  BY <1>2, <1>3, <1>4, <1>5, <1>6 DEF Coherence

\* An event reaches the cache.
LEMMA DeliverCoherent == TypeOK /\ Coherence /\ DeliverRevision => Coherence'
<1> SUFFICES ASSUME TypeOK, Coherence, DeliverRevision PROVE Coherence'
  OBVIOUS
<1> DEFINE n == Len(watch)
<1>1. PICK u \in Versions, rev \in Revision : watch[1].version = u /\ watch[1].rev = rev
  <2>1. watch \in Seq(Event) /\ watch # <<>>
    BY DEF DeliverRevision, TypeOK
  <2>2. watch[1] \in Event
    BY <2>1
  <2> QED  BY <2>2 DEF Event
<1>2. /\ n \in Nat \ {0}
      /\ DOMAIN watch = 1..n
      /\ \A i \in 1..n : watch[i] \in Event
      /\ watch \in Seq(Event)
      /\ watch # <<>>
  <2>1. watch \in Seq(Event) /\ watch # <<>>
    BY DEF DeliverRevision, TypeOK
  <2> QED  BY <2>1
<1>3. /\ DOMAIN watch' = 1..(n - 1)
      /\ \A i \in 1..(n - 1) : watch'[i] = watch[i + 1]
      /\ Head(watch) = watch[1]
  BY <1>2 DEF DeliverRevision
<1>4. /\ view' = [view EXCEPT ![u] = rev]
      /\ queue' = Enqueue(queue, u)
      /\ UNCHANGED <<api, ec, delayed, ecr>>
  <2>1. /\ view' = [view EXCEPT ![Head(watch).version] = Head(watch).rev]
        /\ queue' = Enqueue(queue, Head(watch).version)
        /\ UNCHANGED <<api, ec, delayed, ecr>>
    BY DEF DeliverRevision
  <2> QED  BY <1>1, <1>3, <2>1
<1>5. view \in [Versions -> Revision] /\ queue \in Seq(Versions)
  BY DEF TypeOK
<1>6. AbsentIsBlank(api)'
  BY <1>4 DEF Coherence, AbsentIsBlank
<1>7. AbsentIsBlank(view)'
  BY <1>1, <1>2, <1>4, <1>5 DEF Coherence, AbsentIsBlank, WatchIsCoherent
<1>8. WatchIsCoherent'
  <2>1. ASSUME NEW i \in DOMAIN watch', IsLastEvent(i)'
        PROVE  watch'[i].rev = api'[watch'[i].version]
    <3>1. i + 1 \in 1..n /\ watch'[i] = watch[i + 1]
      BY <1>2, <1>3
    <3>2. \A j \in 1..(n - 1) : j > i => watch[j + 1].version # watch[i + 1].version
      BY <1>3, <2>1 DEF IsLastEvent
    <3>3. ASSUME NEW j \in 1..n, j > i + 1
          PROVE  watch[j].version # watch[i + 1].version
      <4>1. j - 1 \in 1..(n - 1) /\ j - 1 > i /\ (j - 1) + 1 = j
        BY <1>2, <1>3, <3>1, <3>3
      <4> QED  BY <3>2, <4>1
    <3>4. IsLastEvent(i + 1)
      BY <1>2, <3>3 DEF IsLastEvent
    <3> QED  BY <1>2, <1>4, <3>1, <3>4 DEF Coherence, WatchIsCoherent
  <2>2. \A i \in DOMAIN watch' : watch'[i].rev.exists \/ watch'[i].rev = Absent
    BY <1>2, <1>3 DEF Coherence, WatchIsCoherent
  <2>3. ASSUME NEW w \in Versions, IsCurrent(w)' PROVE view'[w] = api'[w]
    <3>1. \A i \in 1..(n - 1) : watch[i + 1].version # w
      BY <1>3, <2>3 DEF IsCurrent
    <3>2. ASSUME NEW j \in 1..n, j # 1 PROVE watch[j].version # w
      <4>1. j - 1 \in 1..(n - 1) /\ (j - 1) + 1 = j
        BY <1>2, <3>2
      <4> QED  BY <3>1, <4>1
    <3>3. CASE w = u
      <4>1. IsLastEvent(1)
        BY <1>1, <1>2, <3>2, <3>3 DEF IsLastEvent
      <4>2. rev = api[u]
        BY <1>1, <1>2, <4>1 DEF Coherence, WatchIsCoherent
      <4> QED  BY <1>4, <1>5, <3>3, <4>2
    <3>4. CASE w # u
      <4>1. IsCurrent(w)
        BY <1>1, <1>2, <3>2, <3>4 DEF IsCurrent
      <4> QED  BY <1>4, <1>5, <3>4, <4>1 DEF Coherence, WatchIsCoherent
    <3> QED  BY <3>3, <3>4
  <2> QED  BY <2>1, <2>2, <2>3 DEF WatchIsCoherent
<1>9. EcIsCoherent'
  BY <1>4 DEF Coherence, EcIsCoherent
<1>10. EcrIsCoherent'
  <2>1. \A w : IsCurrent(w) => IsCurrent(w)'
    BY <1>2, <1>3 DEF IsCurrent
  <2>2. IsCurrent(ecr.version) => IsCurrent(ecr.version)'
    BY <1>4, <2>1 DEF IsCurrent
  <2> QED  BY <1>4, <2>2 DEF Coherence, EcrIsCoherent
<1>11. ViewIsPending'
  <2> SUFFICES ASSUME NEW v \in Versions, view'[v].published, ~view'[v].deleting
               PROVE  \/ v \in delayed'
                      \/ v \in Range(queue')
                      \/ ecr'.version = v /\ ecr'.rev.published
    BY DEF ViewIsPending
  <2>1. CASE v = u
    BY <1>4, <1>5, <2>1, EnqueueContains
  <2>2. CASE v # u
    <3>1. view'[v] = view[v]
      BY <1>4, <1>5, <2>2
    <3> QED  BY <1>4, <1>5, <3>1, EnqueueContains DEF Coherence, ViewIsPending
  <2> QED  BY <2>1, <2>2
<1> QED
  BY <1>6, <1>7, <1>8, <1>9, <1>10, <1>11 DEF Coherence

\* A revision is deleted by a user or by the garbage collector.
LEMMA OutsideDeleteCoherent ==
    ASSUME TypeOK, Coherence, NEW v \in Versions, Write(v, Deleted(api[v])),
           ec' = StaleEc(v), ecr' = StaleEcr(v), UNCHANGED <<view, queue, delayed>>
    PROVE  Coherence'
<1>1. Deleted(api[v]) \in Revision
  BY DeletedType DEF TypeOK
<1>2. Deleted(api[v]).exists \/ Deleted(api[v]) = Absent
  BY DeletedIsBlank DEF TypeOK, Coherence, AbsentIsBlank
<1>3. /\ AbsentIsBlank(api)' /\ AbsentIsBlank(view)' /\ WatchIsCoherent'
      /\ \A w \in Versions : w # v => api'[w] = api[w]
      /\ \A w \in Versions : w # v /\ IsCurrent(w) => IsCurrent(w)'
  BY <1>1, <1>2, WatchWrite
<1>4. EcIsCoherent'
  BY <1>3, EcWrite
<1>5. EcrIsCoherent' /\ ecr'.version = ecr.version /\ ecr'.rev = ecr.rev
  BY <1>3, EcrWrite
<1>6. ViewIsPending'
  BY <1>5, PendingFrame
<1> QED
  BY <1>3, <1>4, <1>5, <1>6 DEF Coherence

\* A step that writes no revision and does not concern the other worker.
LEMMA EcOnlyCoherent ==
    ASSUME Coherence, EcIsCoherent', UNCHANGED <<api, view, watch, queue, delayed, ecr>>
    PROVE  Coherence'
<1>1. AbsentIsBlank(api)' /\ AbsentIsBlank(view)' /\ WatchIsCoherent'
  BY WatchFrame
<1>2. EcrIsCoherent'
  BY DEF Coherence, EcrIsCoherent, IsCurrent
<1>3. ViewIsPending'
  BY PendingFrame
<1> QED
  BY <1>1, <1>2, <1>3 DEF Coherence

\* A reconcile of the EnvoyConfig reads the cache.
LEMMA EcReadCoherent == TypeOK /\ Coherence /\ EcRead => Coherence'
<1> SUFFICES ASSUME TypeOK, Coherence, EcRead PROVE Coherence'
  OBVIOUS
<1> DEFINE desired == configView.desired
<1>1. UNCHANGED <<api, view, watch, queue, delayed, ecr>>
  BY DEF EcRead, apiVars
<1>2. EcIsCoherent'
  <2>1. CASE ec' = IdleEc
    BY <2>1, EcIdleIsCoherent
  <2>2. CASE ec' = [IdleEc EXCEPT !.busy = TRUE, !.create = desired]
    BY <2>2 DEF IdleEc, EcIsCoherent
  <2>3. ASSUME NEW list \in SortByPublication(desired, view), ec' = EcPlan(desired, list)
        PROVE  EcIsCoherent'
    <3> DEFINE target    == VersionToPublish(list, view)
               unpublish == ShouldBeFalse(target, view)
               publish   == ShouldBeTrue(target, view)
               copied    == unpublish \cup ({publish} \ {NoVersion})
    <3>1. /\ ec'.fresh = {v \in copied : IsCurrent(v)}
          /\ ec'.copy = [v \in Versions |-> IF v \in copied THEN view[v] ELSE Absent]
          /\ ec'.publish = publish
      BY <2>3 DEF EcPlan
    <3>2. unpublish \subseteq Listed(view)
      BY DEF ShouldBeFalse
    <3>3. publish # NoVersion => publish \in Listed(view) /\ ~view[publish].tainted
      <4>1. list \in Seq(Listed(view))
        BY SortedListType
      <4>2. target # NoVersion => target \in Listed(view) /\ ~view[target].tainted
        BY <4>1, VersionToPublishIsBest
      <4>3. publish # NoVersion => publish = target
        BY DEF ShouldBeTrue
      <4> HIDE DEF publish, target
      <4> QED  BY <4>2, <4>3
    <3>4. copied \subseteq Listed(view) /\ Listed(view) \subseteq Versions
      BY <3>2, <3>3 DEF Listed
    <3> HIDE DEF target, unpublish, publish
    <3>5. ASSUME NEW v \in ec'.fresh PROVE ec'.copy[v] = api'[v] /\ api'[v].exists
      <4>1. v \in copied /\ IsCurrent(v) /\ v \in Versions
        BY <3>1, <3>4, <3>5
      <4>2. view[v] = api[v]
        BY <4>1 DEF Coherence, WatchIsCoherent
      <4>3. view[v].exists
        BY <3>4, <4>1 DEF Listed
      <4> QED  BY <1>1, <3>1, <4>1, <4>2, <4>3
    <3>6. ec'.publish # NoVersion => ~ec'.copy[ec'.publish].tainted
      BY <3>1, <3>3, <3>4
    <3> QED  BY <3>5, <3>6 DEF EcIsCoherent
  <2> QED  BY <2>1, <2>2, <2>3 DEF EcRead
<1> QED
  BY <1>1, <1>2, EcOnlyCoherent

LEMMA EcCreateCoherent == TypeOK /\ Coherence /\ EcCreate => Coherence'
<1> SUFFICES ASSUME TypeOK, Coherence, EcCreate PROVE Coherence'
  OBVIOUS
<1>1. EcIsCoherent' /\ UNCHANGED <<view, queue, delayed>>
  BY EcIdleIsCoherent DEF EcCreate, EcRequeue
<1>2. CASE api[ec.create].exists
  BY <1>1, <1>2, EcOnlyCoherent DEF EcCreate
<1>3. CASE ~api[ec.create].exists
  <2>1. PICK v \in Versions : v = ec.create
    BY DEF EcCreate, TypeOK, EcWorker
  <2>2. PICK t \in Dates : Write(v, NewRevision(t))
    BY <1>3, <2>1 DEF EcCreate
  <2>3. NewRevision(t) \in Revision /\ NewRevision(t).exists
    <3>1. t \in Nat
      BY ControlAssumption DEF Dates
    <3> QED  BY <3>1 DEF NewRevision, Revision, Absent
  <2>4. /\ AbsentIsBlank(api)' /\ AbsentIsBlank(view)' /\ WatchIsCoherent'
        /\ \A w \in Versions : w # v => api'[w] = api[w]
        /\ \A w \in Versions : w # v /\ IsCurrent(w) => IsCurrent(w)'
    BY <1>1, <2>2, <2>3, WatchWrite
  <2>5. ecr' = StaleEcr(v)
    BY <1>3, <2>1 DEF EcCreate
  <2>6. EcrIsCoherent' /\ ecr'.version = ecr.version /\ ecr'.rev = ecr.rev
    BY <2>4, <2>5, EcrWrite
  <2> QED  BY <1>1, <2>4, <2>6, PendingFrame DEF Coherence
<1> QED
  BY <1>2, <1>3

\* Status().Update from a copy: it only happens if the copy is fresh.
LEMMA EcUpdateCoherent ==
    ASSUME TypeOK, Coherence, NEW v \in Versions, NEW published \in BOOLEAN,
           NEW worker \in EcWorker,
           worker.fresh = ec.fresh, worker.copy = ec.copy,
           worker.publish # NoVersion => worker.publish = ec.publish,
           EcUpdate(v, published, worker)
    PROVE  Coherence'
<1>1. UNCHANGED <<view, queue, delayed>>
  BY DEF EcUpdate
<1>2. CASE v \in ec.fresh
  <2> DEFINE rev == [ec.copy[v] EXCEPT !.published = published]
  <2>1. ec.copy[v] \in Revision /\ ec.copy[v].exists
    BY <1>2 DEF TypeOK, EcWorker, Coherence, EcIsCoherent
  <2>2. rev \in Revision /\ rev.exists
    BY <2>1 DEF Revision
  <2>3. Write(v, rev)
    BY <1>2 DEF EcUpdate
  <2>4. /\ AbsentIsBlank(api)' /\ AbsentIsBlank(view)' /\ WatchIsCoherent'
        /\ \A w \in Versions : w # v => api'[w] = api[w]
        /\ \A w \in Versions : w # v /\ IsCurrent(w) => IsCurrent(w)'
    <3> HIDE DEF rev
    <3> QED  BY <1>1, <2>2, <2>3, WatchWrite
  <2>5. EcIsCoherent'
    <3>1. ec' = [worker EXCEPT !.copy[v] = Absent, !.fresh = @ \ {v}]
      BY <1>2 DEF EcUpdate
    <3>2. /\ ec'.fresh = ec.fresh \ {v}
          /\ ec'.copy = [ec.copy EXCEPT ![v] = Absent]
          /\ ec'.publish = worker.publish
      BY <3>1 DEF EcWorker
    <3>3. ec.copy \in [Versions -> Revision] /\ ec.fresh \subseteq Versions
          /\ worker.publish \in Versions \cup {NoVersion}
      BY DEF TypeOK, EcWorker
    <3>4. \A w \in ec'.fresh : ec'.copy[w] = api'[w] /\ api'[w].exists
      BY <2>4, <3>2, <3>3 DEF Coherence, EcIsCoherent
    <3>5. ec'.publish # NoVersion => ~ec'.copy[ec'.publish].tainted
      <4>1. worker.publish # NoVersion => ~ec.copy[worker.publish].tainted
        BY DEF Coherence, EcIsCoherent
      <4>2. ~Absent.tainted
        BY DEF Absent
      <4> QED  BY <3>2, <3>3, <4>1, <4>2
    <3> QED  BY <3>4, <3>5 DEF EcIsCoherent
  <2>6. ecr' = StaleEcr(v)
    BY <1>2 DEF EcUpdate
  <2>7. EcrIsCoherent' /\ ecr'.version = ecr.version /\ ecr'.rev = ecr.rev
    BY <2>4, <2>6, EcrWrite
  <2> QED  BY <1>1, <2>4, <2>5, <2>7, PendingFrame DEF Coherence
<1>3. CASE v \notin ec.fresh
  BY <1>1, <1>3, EcIdleIsCoherent, EcOnlyCoherent DEF EcUpdate, EcRequeue
<1> QED
  BY <1>2, <1>3

LEMMA EcPublicationCoherent == TypeOK /\ Coherence /\ (EcUnpublish \/ EcPublish) => Coherence'
<1> SUFFICES ASSUME TypeOK, Coherence, EcUnpublish \/ EcPublish PROVE Coherence'
  OBVIOUS
<1>1. CASE EcUnpublish
  <2>1. PICK v \in ec.unpublish : EcUpdate(v, FALSE, [ec EXCEPT !.unpublish = @ \ {v}])
    BY <1>1 DEF EcUnpublish
  <2> DEFINE worker == [ec EXCEPT !.unpublish = @ \ {v}]
  <2>2. /\ v \in Versions
        /\ worker \in EcWorker
        /\ worker.fresh = ec.fresh
        /\ worker.copy = ec.copy
        /\ worker.publish = ec.publish
    BY DEF TypeOK, EcWorker
  <2> HIDE DEF worker
  <2> QED  BY <2>1, <2>2, EcUpdateCoherent DEF worker
<1>2. CASE EcPublish
  <2> DEFINE worker == [ec EXCEPT !.publish = NoVersion]
  <2>1. EcUpdate(ec.publish, TRUE, worker)
    BY <1>2 DEF EcPublish
  <2>2. /\ ec.publish \in Versions
        /\ worker \in EcWorker
        /\ worker.fresh = ec.fresh
        /\ worker.copy = ec.copy
        /\ worker.publish = NoVersion
    BY <1>2 DEF EcPublish, TypeOK, EcWorker
  <2> HIDE DEF worker
  <2> QED  BY <2>1, <2>2, EcUpdateCoherent
<1> QED
  BY <1>1, <1>2

LEMMA EcDeleteCoherent == TypeOK /\ Coherence /\ EcDelete => Coherence'
<1> SUFFICES ASSUME TypeOK, Coherence, EcDelete PROVE Coherence'
  OBVIOUS
<1>1. UNCHANGED <<view, queue, delayed>>
  BY DEF EcDelete
<1>2. ASSUME NEW v \in ec.delete, Write(v, Deleted(api[v])), ecr' = StaleEcr(v),
             ec' = [ec EXCEPT !.delete = @ \ {v}, !.fresh = @ \ {v}]
      PROVE  Coherence'
  <2>1. v \in Versions
    BY DEF TypeOK, EcWorker
  <2>2. Deleted(api[v]) \in Revision
    BY <2>1, DeletedType DEF TypeOK
  <2>3. Deleted(api[v]).exists \/ Deleted(api[v]) = Absent
    BY <2>1, DeletedIsBlank DEF TypeOK, Coherence, AbsentIsBlank
  <2>4. /\ AbsentIsBlank(api)' /\ AbsentIsBlank(view)' /\ WatchIsCoherent'
        /\ \A w \in Versions : w # v => api'[w] = api[w]
        /\ \A w \in Versions : w # v /\ IsCurrent(w) => IsCurrent(w)'
    BY <1>1, <1>2, <2>1, <2>2, <2>3, WatchWrite
  <2>5. EcIsCoherent'
    <3>1. /\ ec'.fresh = ec.fresh \ {v}
          /\ ec'.copy = ec.copy
          /\ ec'.publish = ec.publish
          /\ ec.fresh \subseteq Versions
      BY <1>2 DEF TypeOK, EcWorker
    <3> QED  BY <2>4, <3>1 DEF Coherence, EcIsCoherent
  <2>6. EcrIsCoherent' /\ ecr'.version = ecr.version /\ ecr'.rev = ecr.rev
    BY <1>2, <2>1, <2>4, EcrWrite
  <2> QED  BY <1>1, <2>4, <2>5, <2>6, PendingFrame DEF Coherence
<1>3. ASSUME NEW v \in ec.delete, ec' = [ec EXCEPT !.delete = @ \ {v}],
             UNCHANGED <<api, watch, ecr>>
      PROVE  Coherence'
  <2>1. ec'.fresh = ec.fresh /\ ec'.copy = ec.copy /\ ec'.publish = ec.publish
    BY <1>3 DEF TypeOK, EcWorker
  <2>2. EcIsCoherent'
    BY <1>3, <2>1 DEF Coherence, EcIsCoherent
  <2> QED  BY <1>1, <1>3, <2>2, EcOnlyCoherent
<1>4. CASE EcRequeue /\ UNCHANGED <<api, watch, ecr>>
  BY <1>1, <1>4, EcIdleIsCoherent, EcOnlyCoherent DEF EcRequeue
<1> QED
  BY <1>2, <1>3, <1>4 DEF EcDelete

\* The reconcile of a revision begins.
LEMMA EcrReadCoherent == TypeOK /\ Coherence /\ EcrRead => Coherence'
<1> SUFFICES ASSUME TypeOK, Coherence, EcrRead PROVE Coherence'
  OBVIOUS
<1>1. /\ UNCHANGED <<api, view, watch, ec, delayed>>
      /\ queue' = Tail(queue) /\ queue # <<>> /\ queue \in Seq(Versions)
      /\ ecr = IdleEcr
  BY DEF EcrRead, EcrVars, TypeOK, Coherence, EcrIsCoherent
<1>2. PICK u \in Versions : u = Head(queue)
  BY <1>1
<1>3. AbsentIsBlank(api)' /\ AbsentIsBlank(view)' /\ WatchIsCoherent'
      /\ \A v : IsCurrent(v) => IsCurrent(v)'
  BY <1>1, WatchFrame
<1>4. EcIsCoherent'
  BY <1>1 DEF Coherence, EcIsCoherent
<1>5. CASE Phase(view[u]) = "idle"
  <2>1. ecr' = IdleEcr
    BY <1>2, <1>5 DEF EcrRead
  <2>2. EcrIsCoherent'
    BY <2>1, EcrIdleIsCoherent
  <2>3. ~(view[u].published /\ ~view[u].deleting)
    <3>1. view[u].exists \/ view[u] = Absent
      BY DEF Coherence, AbsentIsBlank
    <3> QED  BY <1>5, <3>1 DEF Phase, Absent
  <2>4. ViewIsPending'
    <3> SUFFICES ASSUME NEW v \in Versions, view[v].published, ~view[v].deleting
                 PROVE  v \in delayed \/ v \in Range(Tail(queue))
      BY <1>1 DEF ViewIsPending
    <3>1. v \in delayed \/ v \in Range(queue)
      BY <1>1 DEF Coherence, ViewIsPending, IdleEcr, Absent
    <3> QED  BY <1>1, <1>2, <2>3, <3>1, TailContains
  <2> QED  BY <1>3, <1>4, <2>2, <2>4 DEF Coherence
<1>6. CASE Phase(view[u]) # "idle"
  <2>1. ecr' = [pc |-> Phase(view[u]), version |-> u, rev |-> view[u],
                fresh |-> IsCurrent(u), vt |-> FALSE]
    BY <1>2, <1>6 DEF EcrRead
  <2>2. /\ view[u].exists
        /\ Phase(view[u]) # "unfinalize"
        /\ Phase(view[u]) = "finalize" => view[u].deleting
    BY <1>6 DEF Phase
  <2>3. EcrIsCoherent'
    <3>1. IsCurrent(u) => view[u] = api'[u]
      BY <1>1 DEF Coherence, WatchIsCoherent
    <3>2. IsCurrent(u)' => IsCurrent(ecr.version)'
      BY <2>1 DEF IsCurrent
    <3>3. ecr'.fresh => IsCurrent(ecr.version)'
      BY <1>3, <2>1, <3>2
    <3> QED  BY <1>6, <2>1, <2>2, <3>1, <3>3 DEF EcrIsCoherent
  <2>4. ViewIsPending'
    <3> SUFFICES ASSUME NEW v \in Versions, view[v].published, ~view[v].deleting
                 PROVE  \/ v \in delayed \/ v \in Range(Tail(queue))
                        \/ ecr'.version = v /\ ecr'.rev.published
      BY <1>1 DEF ViewIsPending
    <3>1. v \in delayed \/ v \in Range(queue)
      BY <1>1 DEF Coherence, ViewIsPending, IdleEcr, Absent
    <3> QED  BY <1>1, <1>2, <2>1, <3>1, TailContains
  <2> QED  BY <1>3, <1>4, <2>3, <2>4 DEF Coherence
<1> QED
  BY <1>5, <1>6

\* A timer or an event of another resource queues a revision.
LEMMA EnqueueCoherent ==
    ASSUME TypeOK, Coherence, NEW v \in Versions, EcrTimer(v) \/ ResourceEvent(v)
    PROVE  Coherence'
<1>1. UNCHANGED <<api, view, watch, ec, ecr>> /\ queue \in Seq(Versions)
  BY DEF EcrTimer, ResourceEvent, EcrVars, TypeOK
<1>2. AbsentIsBlank(api)' /\ AbsentIsBlank(view)' /\ WatchIsCoherent'
  BY <1>1, WatchFrame
<1>3. EcIsCoherent' /\ EcrIsCoherent'
  BY <1>1 DEF Coherence, EcIsCoherent, EcrIsCoherent, IsCurrent
<1>4. ViewIsPending'
  <2> SUFFICES ASSUME NEW w \in Versions, view[w].published, ~view[w].deleting
               PROVE  \/ w \in delayed' \/ w \in Range(queue')
                      \/ ecr.version = w /\ ecr.rev.published
    BY <1>1 DEF ViewIsPending
  <2>1. \/ w \in delayed \/ w \in Range(queue)
        \/ ecr.version = w /\ ecr.rev.published
    BY DEF Coherence, ViewIsPending
  <2> QED  BY <1>1, <2>1, EnqueueContains DEF EcrTimer, ResourceEvent
<1> QED
  BY <1>2, <1>3, <1>4 DEF Coherence

\* A reconcile of a revision ends with a write of it.
LEMMA EcrLastWriteCoherent ==
    ASSUME TypeOK, Coherence, NEW u \in Versions, NEW rev \in Revision,
           rev.exists \/ rev = Absent, Write(u, rev), ec' = StaleEc(u), ecr' = IdleEcr,
           view' = view, ViewIsPending'
    PROVE  Coherence'
<1>1. /\ AbsentIsBlank(api)' /\ AbsentIsBlank(view)' /\ WatchIsCoherent'
      /\ \A w \in Versions : w # u => api'[w] = api[w]
  BY WatchWrite
<1>2. EcIsCoherent'
  BY <1>1, EcWrite
<1> QED
  BY <1>1, <1>2, EcrIdleIsCoherent DEF Coherence

\* A reconcile of a revision ends, or goes on, without a write.
LEMMA EcrOnlyCoherent ==
    ASSUME Coherence, UNCHANGED <<api, view, watch, ec>>, EcrIsCoherent', ViewIsPending'
    PROVE  Coherence'
<1>1. AbsentIsBlank(api)' /\ AbsentIsBlank(view)' /\ WatchIsCoherent'
  BY WatchFrame
<1>2. EcIsCoherent'
  BY DEF Coherence, EcIsCoherent
<1> QED
  BY <1>1, <1>2 DEF Coherence

LEMMA EcrInitializeCoherent == TypeOK /\ Coherence /\ EcrInitialize => Coherence'
<1> SUFFICES ASSUME TypeOK, Coherence, EcrInitialize PROVE Coherence'
  OBVIOUS
<1>1. PICK u \in Versions : u = ecr.version
  BY DEF EcrInitialize, TypeOK
<1>2. /\ ecr' = IdleEcr /\ EcrDone(TRUE) /\ UNCHANGED <<view, queue>>
      /\ ecr.rev \in Revision /\ ecr.rev.exists
  BY DEF EcrInitialize, EcrDone, EcrVars, TypeOK, EcrWorker, Coherence, EcrIsCoherent
<1>3. ViewIsPending'
  BY <1>2, PendingAfterReconcile
<1>4. CASE ecr.fresh
  <2> DEFINE rev == [ecr.rev EXCEPT !.finalizer = TRUE]
  <2>1. Write(u, rev) /\ ec' = StaleEc(u)
    BY <1>1, <1>4 DEF EcrInitialize
  <2>2. rev \in Revision /\ rev.exists
    BY <1>2 DEF Revision
  <2> HIDE DEF rev
  <2> QED  BY <1>2, <1>3, <2>1, <2>2, EcrLastWriteCoherent
<1>5. CASE ~ecr.fresh
  BY <1>2, <1>3, <1>5, EcrIdleIsCoherent, EcrOnlyCoherent DEF EcrInitialize
<1> QED
  BY <1>4, <1>5

LEMMA EcrFinalizeCoherent == TypeOK /\ Coherence /\ EcrFinalize => Coherence'
<1> SUFFICES ASSUME TypeOK, Coherence, EcrFinalize PROVE Coherence'
  OBVIOUS
<1>1. PICK u \in Versions : u = ecr.version
  BY DEF EcrFinalize, TypeOK
<1>2. ecr' = IdleEcr /\ EcrDone(~ecr.fresh) /\ UNCHANGED <<view, queue>>
  BY DEF EcrFinalize, EcrDone, EcrVars
<1>3. ecr.fresh => view[ecr.version].deleting
  <2>1. ecr.fresh => ecr.rev = api[u] /\ ecr.rev.deleting /\ IsCurrent(u)
    BY <1>1 DEF EcrFinalize, Coherence, EcrIsCoherent
  <2>2. IsCurrent(u) => view[u] = api[u]
    BY DEF Coherence, WatchIsCoherent
  <2> QED  BY <1>1, <2>1, <2>2
<1>4. ViewIsPending'
  BY <1>2, <1>3, PendingAfterReconcile
<1>5. CASE ecr.fresh
  <2>1. Write(u, Absent) /\ ec' = StaleEc(u)
    BY <1>1, <1>5 DEF EcrFinalize
  <2> QED  BY <1>2, <1>4, <2>1, AbsentType, EcrLastWriteCoherent
<1>6. CASE ~ecr.fresh
  BY <1>2, <1>4, <1>6, EcrIdleIsCoherent, EcrOnlyCoherent DEF EcrFinalize
<1> QED
  BY <1>5, <1>6

\* The steps of a reconcile that only move on.
LEMMA EcrMoveCoherent == TypeOK /\ Coherence /\ (EcrCleanup \/ EcrLoad) => Coherence'
<1> SUFFICES ASSUME TypeOK, Coherence, EcrCleanup \/ EcrLoad PROVE Coherence'
  OBVIOUS
<1>1. UNCHANGED <<api, view, watch, ec, queue, delayed>>
  BY DEF EcrCleanup, EcrLoad, EcrVars
<1>2. /\ ecr'.version = ecr.version /\ ecr'.rev = ecr.rev /\ ecr'.fresh = ecr.fresh
      /\ ecr.pc # "idle" /\ ecr'.pc # "idle"
      /\ ecr'.pc \in {"finalize", "unfinalize"} => ecr.pc = "finalize"
  BY DEF EcrCleanup, EcrLoad, TypeOK, EcrWorker
<1>3. EcrIsCoherent'
  BY <1>1, <1>2 DEF Coherence, EcrIsCoherent, IsCurrent
<1>4. ViewIsPending'
  BY <1>1, <1>2, PendingFrame
<1> QED
  BY <1>1, <1>3, <1>4, EcrOnlyCoherent

\* The merge patch of taintSelf; the worker goes on with what it returns.
LEMMA EcrTaintCoherent == TypeOK /\ Coherence /\ EcrTaint => Coherence'
<1> SUFFICES ASSUME TypeOK, Coherence, EcrTaint PROVE Coherence'
  OBVIOUS
<1>1. PICK u \in Versions : u = ecr.version
  BY DEF EcrTaint, TypeOK
<1>2. UNCHANGED <<view, queue>>
  BY DEF EcrTaint, EcrVars
<1>3. CASE api[u].exists
  <2> DEFINE patched == [api[u] EXCEPT !.published = ecr.rev.published,
                                       !.inSync = ecr.rev.inSync,
                                       !.tainted = TRUE]
  <2>1. /\ Write(u, patched)
        /\ ecr' = [ecr EXCEPT !.pc = "status", !.rev = patched, !.fresh = TRUE]
        /\ ec' = StaleEc(u)
        /\ delayed' = delayed
    BY <1>1, <1>3 DEF EcrTaint
  <2>2. api[u] \in Revision /\ ecr.rev \in Revision /\ ecr \in EcrWorker
    BY DEF TypeOK, EcrWorker
  <2>3. patched \in Revision /\ patched.exists /\ patched.published = ecr.rev.published
    BY <1>3, <2>2 DEF Revision
  <2> HIDE DEF patched
  <2>4. /\ AbsentIsBlank(api)' /\ AbsentIsBlank(view)' /\ WatchIsCoherent'
        /\ \A w \in Versions : w # u => api'[w] = api[w]
        /\ api'[u] = patched
    BY <1>2, <2>1, <2>3, WatchWrite
  <2>5. EcIsCoherent'
    BY <2>1, <2>4, EcWrite
  <2>6. ecr'.pc = "status" /\ ecr'.version = u /\ ecr'.rev = patched
    BY <1>1, <2>1, <2>2 DEF EcrWorker
  <2>7. EcrIsCoherent'
    BY <2>3, <2>4, <2>6 DEF EcrIsCoherent
  <2>8. ViewIsPending'
    BY <1>1, <1>2, <2>1, <2>3, <2>6 DEF Coherence, ViewIsPending
  <2> QED  BY <2>4, <2>5, <2>7, <2>8 DEF Coherence
<1>4. CASE ~api[u].exists
  <2>1. EcrDone(TRUE) /\ UNCHANGED <<api, watch, ec>>
    BY <1>1, <1>4 DEF EcrTaint
  <2>2. ViewIsPending'
    BY <1>2, <2>1, PendingAfterReconcile
  <2> QED  BY <1>2, <2>1, <2>2, EcrIdleIsCoherent, EcrOnlyCoherent DEF EcrDone
<1> QED
  BY <1>3, <1>4

LEMMA ReconciledStatusType ==
    ASSUME TypeOK, ecr.rev.exists
    PROVE  LET rev == ReconciledStatus(ecr.version, ecr.rev, ecr.vt)
           IN  /\ rev \in Revision
               /\ rev.exists
               /\ ecr.rev.tainted => rev.tainted
               /\ \A t \in Nat : /\ [rev EXCEPT !.lastPublishedAt = t] \in Revision
                                 /\ [rev EXCEPT !.lastPublishedAt = t].exists
                                 /\ ecr.rev.tainted => [rev EXCEPT !.lastPublishedAt = t].tainted
<1> DEFINE rev == ReconciledStatus(ecr.version, ecr.rev, ecr.vt)
<1>1. ecr.rev \in Revision /\ ecr.vt \in BOOLEAN
  BY DEF TypeOK, EcrWorker
<1>2. rev \in Revision /\ rev.exists /\ (ecr.rev.tainted => rev.tainted)
  BY <1>1 DEF ReconciledStatus, ResourcesInSync, IsFailing, Revision
<1> HIDE DEF rev
<1>3. ASSUME NEW t \in Nat
      PROVE  /\ [rev EXCEPT !.lastPublishedAt = t] \in Revision
             /\ [rev EXCEPT !.lastPublishedAt = t].exists
             /\ ecr.rev.tainted => [rev EXCEPT !.lastPublishedAt = t].tainted
  BY <1>2 DEF Revision
<1> QED
  BY <1>2, <1>3 DEF rev

LEMMA EcrStatusCoherent == TypeOK /\ Coherence /\ EcrStatus => Coherence'
<1> SUFFICES ASSUME TypeOK, Coherence, EcrStatus PROVE Coherence'
  OBVIOUS
<1> DEFINE rev == ReconciledStatus(ecr.version, ecr.rev, ecr.vt)
<1>1. PICK u \in Versions : u = ecr.version
  BY DEF EcrStatus, TypeOK
<1>2. /\ ecr' = IdleEcr /\ EcrDone(ecr.rev.published) /\ UNCHANGED <<view, queue>>
      /\ ecr.rev.exists /\ ecr.rev.published \in BOOLEAN
  BY DEF EcrStatus, EcrDone, EcrVars, Coherence, EcrIsCoherent, TypeOK, EcrWorker, Revision
<1>3. ViewIsPending'
  BY <1>2, PendingAfterReconcile
<1>4. ASSUME NEW t \in Dates, ec' = StaleEc(u), Write(u, [rev EXCEPT !.lastPublishedAt = t])
      PROVE  Coherence'
  <2>1. t \in Nat
    BY ControlAssumption DEF Dates
  <2>2. [rev EXCEPT !.lastPublishedAt = t] \in Revision /\ [rev EXCEPT !.lastPublishedAt = t].exists
    BY <1>2, <2>1, ReconciledStatusType
  <2> HIDE DEF rev
  <2> QED  BY <1>2, <1>3, <1>4, <2>2, EcrLastWriteCoherent
<1>5. CASE ec' = StaleEc(u) /\ Write(u, rev)
  <2>1. rev \in Revision /\ rev.exists
    BY <1>2, ReconciledStatusType
  <2> HIDE DEF rev
  <2> QED  BY <1>2, <1>3, <1>5, <2>1, EcrLastWriteCoherent
<1>6. CASE UNCHANGED <<api, watch, ec>>
  BY <1>2, <1>3, <1>6, EcrIdleIsCoherent, EcrOnlyCoherent
<1> QED
  BY <1>1, <1>4, <1>5, <1>6 DEF EcrStatus

LEMMA EcrFailCoherent == TypeOK /\ Coherence /\ EcrFail => Coherence'
<1> SUFFICES ASSUME TypeOK, Coherence, EcrFail PROVE Coherence'
  OBVIOUS
<1> DEFINE again == ecr.pc # "status" \/ ecr.rev.published
<1>1. /\ EcrDone(again) /\ again \in BOOLEAN /\ ecr' = IdleEcr
      /\ UNCHANGED <<api, view, watch, ec, queue>>
  BY DEF EcrFail, EcrDone, apiVars
<1>2. again \/ ~ecr.rev.published
  OBVIOUS
<1> HIDE DEF again
<1>3. ViewIsPending'
  BY <1>1, <1>2, PendingAfterReconcile
<1> QED
  BY <1>1, <1>3, EcrIdleIsCoherent, EcrOnlyCoherent

LEMMA AbsentIsUnpublished == ~Absent.published
BY DEF Absent

\* A published revision exists.
LEMMA PublishedExists ==
    ASSUME Coherence, NEW v \in Versions, api[v].published
    PROVE  api[v].exists
BY AbsentIsUnpublished DEF Coherence, AbsentIsBlank

\* After a restart the informers queue every revision there is.
LEMMA RestartCoherent == TypeOK /\ Coherence /\ Restart => Coherence'
<1> SUFFICES ASSUME TypeOK, Coherence, Restart PROVE Coherence'
  OBVIOUS
<1>1. api' = api /\ view' = api /\ watch' = <<>> /\ ec' = IdleEc /\ ecr' = IdleEcr
  BY DEF Restart
<1>2. AbsentIsBlank(api)' /\ AbsentIsBlank(view)'
  BY <1>1 DEF Coherence, AbsentIsBlank
<1>3. WatchIsCoherent'
  BY <1>1 DEF WatchIsCoherent
<1>4. ViewIsPending'
  <2>1. PICK q \in Bijection(1..Cardinality(Listed(api)), Listed(api)) : queue' = q
    BY DEF Restart
  <2>2. \A v \in Listed(api) : v \in Range(q)
    BY <2>1, ListedIsFinite, OrdersOfSet DEF Range
  <2>3. \A v \in Versions : api[v].published => v \in Listed(api)
    BY PublishedExists DEF Listed
  <2> QED  BY <1>1, <2>1, <2>2, <2>3 DEF ViewIsPending
<1> QED
  BY <1>1, <1>2, <1>3, <1>4, EcIdleIsCoherent, EcrIdleIsCoherent DEF Coherence

\* Steps that touch no revision, and of the workers at most the EnvoyConfig's.
LEMMA ElsewhereCoherent ==
    ASSUME TypeOK, Coherence,
           \/ DeliverConfig \/ EcStatus \/ EcFail \/ EnvoyReject \/ UserDeleteConfig
           \/ \E v \in Versions : UserEdit(v)
           \/ UNCHANGED vars
    PROVE  Coherence'
<1>1. CASE DeliverConfig \/ EnvoyReject \/ UNCHANGED vars
  <2>1. UNCHANGED <<api, view, watch, queue, delayed, ecr, ec>>
    BY <1>1 DEF DeliverConfig, EnvoyReject, vars, apiVars
  <2>2. EcIsCoherent'
    BY <2>1 DEF Coherence, EcIsCoherent
  <2> QED  BY <2>1, <2>2, EcOnlyCoherent
<1>2. CASE EcStatus \/ EcFail
  <2>1. UNCHANGED <<api, view, watch, queue, delayed, ecr>> /\ ec' = IdleEc
    BY <1>2 DEF EcStatus, EcFail, EcDone, EcRequeue, apiVars
  <2> QED  BY <2>1, EcIdleIsCoherent, EcOnlyCoherent
<1>3. CASE UserDeleteConfig \/ \E v \in Versions : UserEdit(v)
  <2>1. /\ UNCHANGED <<api, view, watch, queue, delayed, ecr>>
        /\ ec' = [ec EXCEPT !.current = FALSE]
    BY <1>3 DEF UserDeleteConfig, UserEdit
  <2>2. ec'.fresh = ec.fresh /\ ec'.copy = ec.copy /\ ec'.publish = ec.publish
    BY <2>1 DEF TypeOK, EcWorker
  <2>3. EcIsCoherent'
    BY <2>1, <2>2 DEF Coherence, EcIsCoherent
  <2> QED  BY <2>1, <2>3, EcOnlyCoherent
<1> QED
  BY <1>1, <1>2, <1>3

LEMMA NextCoherent == TypeOK /\ Coherence /\ [Next]_vars => Coherence'
<1> SUFFICES ASSUME TypeOK, Coherence, [Next]_vars PROVE Coherence'
  OBVIOUS
<1>1. CASE DeliverRevision
  BY <1>1, DeliverCoherent
<1>2. CASE \/ DeliverConfig \/ EcStatus \/ EcFail \/ EnvoyReject \/ UserDeleteConfig
           \/ \E v \in Versions : UserEdit(v)
           \/ UNCHANGED vars
  BY <1>2, ElsewhereCoherent
<1>3. ASSUME NEW v \in Versions, CollectRevision(v) \/ UserDeleteRevision(v)
      PROVE  Coherence'
  BY <1>3, OutsideDeleteCoherent DEF CollectRevision, UserDeleteRevision
<1>4. CASE EcRead
  BY <1>4, EcReadCoherent
<1>5. CASE EcCreate
  BY <1>5, EcCreateCoherent
<1>6. CASE EcUnpublish \/ EcPublish
  BY <1>6, EcPublicationCoherent
<1>7. CASE EcDelete
  BY <1>7, EcDeleteCoherent
<1>8. CASE EcrRead
  BY <1>8, EcrReadCoherent
<1>9. ASSUME NEW v \in Versions, EcrTimer(v) \/ ResourceEvent(v) PROVE Coherence'
  BY <1>9, EnqueueCoherent
<1>10. CASE EcrInitialize
  BY <1>10, EcrInitializeCoherent
<1>11. CASE EcrCleanup \/ EcrLoad
  BY <1>11, EcrMoveCoherent
<1>12. CASE EcrFinalize
  BY <1>12, EcrFinalizeCoherent
<1>13. CASE EcrTaint
  BY <1>13, EcrTaintCoherent
<1>14. CASE EcrStatus
  BY <1>14, EcrStatusCoherent
<1>15. CASE EcrFail
  BY <1>15, EcrFailCoherent
<1>16. CASE Restart
  BY <1>16, RestartCoherent
<1> QED
  BY <1>1, <1>2, <1>3, <1>4, <1>5, <1>6, <1>7, <1>8, <1>9, <1>10, <1>11, <1>12, <1>13,
     <1>14, <1>15, <1>16 DEF Next

(***************************************************************************)
(* In every behaviour, the copies of revisions in the informer cache, in   *)
(* the events and in the two workers agree with the API server whenever    *)
(* they are current, and every published revision in the cache has a       *)
(* reconcile to come.                                                      *)
(***************************************************************************)
THEOREM CoherenceHolds == Spec => []Coherence
BY InitType, NextType, InitCoherent, NextCoherent, PTL DEF Spec

(***************************************************************************)
(* The EnvoyConfigRevision controller never loses sight of a published     *)
(* revision, whatever fails, restarts or is delayed.                       *)
(***************************************************************************)
THEOREM PublishedIsPending == Spec => []ReconcilePending
<1>1. Coherence => ReconcilePending
  <2> SUFFICES ASSUME Coherence, NEW v \in Versions, api[v].published, ~api[v].deleting,
                      IsCurrent(v)
               PROVE  \/ v \in delayed
                      \/ v \in Range(queue)
                      \/ ecr.version = v /\ ecr.rev.published
    BY DEF ReconcilePending
  <2>1. view[v] = api[v]
    BY DEF Coherence, WatchIsCoherent
  <2> QED  BY <2>1 DEF Coherence, ViewIsPending
<1> QED
  BY <1>1, CoherenceHolds, PTL
=============================================================================
