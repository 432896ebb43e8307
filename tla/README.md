# A TLA+ model of MARIN3R

MARIN3R keeps Envoy proxies configured from Kubernetes custom resources. This
directory models its controllers, its xDS server and the processes that run next to
Envoy, checks the models with TLC and proves their main safety properties with TLAPS.

## The system

| Part | Code | Model |
| --- | --- | --- |
| EnvoyConfig controller | `controllers/marin3r/envoyconfig_controller.go`, `pkg/reconcilers/marin3r/envoyconfig` | `RevisionList`, `RevisionControl`, `RevisionHistory` |
| EnvoyConfigRevision controller | `controllers/marin3r/envoyconfigrevision_controller.go`, `pkg/reconcilers/marin3r/envoyconfigrevision` | `RevisionControl`, `SnapshotLoading` |
| EnvoyConfig webhook, deprecated resources | `apis/marin3r/v1alpha1` | `SnapshotLoading` |
| Snapshot generation, xDS cache | `.../envoyconfigrevision/cache.go`, `discover/`, `pkg/envoy/resources`, `pkg/envoy/serializer`, `pkg/discoveryservice/xdss/v3` | `SnapshotLoading` |
| Discovery statistics, ADS streams | `pkg/discoveryservice/xdss/stats`, `xdss/v3/callbacks.go`, `xds_server.go` | `DiscoveryStats` |
| DiscoveryServiceCertificate controller | `controllers/operator.marin3r/discoveryservicecertificate_controller.go`, `pkg/reconcilers/operator/discoveryservicecertificate`, `pkg/util/pki` | `Certificates` |
| DiscoveryService controller | `controllers/operator.marin3r/discoveryservice_controller.go`, `pkg/reconcilers/operator/discoveryservice` | `Operator` |
| Sidecar injection, containers, bootstrap | `pkg/webhooks/podv1mutator`, `pkg/envoy/container`, `pkg/envoy/bootstrap` | `EnvoyContainers` |
| Shutdown manager | `pkg/envoy/container/shutdownmanager`, `cmd/shutdownmanager.go` | `EnvoyPod`, `GracefulStop` |
| EnvoyDeployment controller and webhook | `controllers/operator.marin3r/envoydeployment_controller.go`, `pkg/reconcilers/operator/envoydeployment` | `EnvoyDeployments` |
| Processes | `cmd/discoveryservice.go`, `cmd/operator.go` | `Restart` and `Crash` actions |
| Kubernetes: API server, informers, work queues, kubelet, garbage collector | external | in each module |

A user writes the resources of a nodeID in an EnvoyConfig. A webhook validates it. For
every version of the resources (their hash) the EnvoyConfig controller keeps one
EnvoyConfigRevision. It marks one of them as published: the desired one, or, if
that is tainted, the one published last that is not. The EnvoyConfigRevision
controller loads the published revision into the xDS cache, together with the Secrets
and EndpointSlices it refers to, and Envoys are served from there. The xDS server
counts which pods reject which version. A revision that cannot be loaded, or that all
its pods have rejected, is tainted, and the EnvoyConfig controller rolls back.

The operator, a process of its own, runs discovery services: it issues and renews the
certificates, and a Deployment whose pod template carries the hash of the server
certificate. It also runs Envoys, from EnvoyDeployments; other pods get theirs as a
sidecar from a webhook. Next to Envoy runs a shutdown manager, which the preStop hooks
call so that Envoy drains before it stops.

The processes only communicate through objects in the API server, which they read from
informer caches that lag behind, and through the streams between Envoy and the xDS
server. `PROJECT.json` lists all components and the hazards of the code, each at the
line where it bites, with the properties that cover it.

## Modules

### Revisions: `RevisionList`, `RevisionControl`, `RevisionHistory`

`RevisionList` has the pure decisions of the EnvoyConfig controller
(`SortByPublication`, `VersionToPublish`, which revisions to publish, unpublish and
delete). A sort of revisions with equal dates has several results, because the list
comes from a cache without order: the operator is the set of them. `RevisionControl`
has both controllers, the API server, the informers, the xDS cache, users and clients.

| Variable | In the system |
| --- | --- |
| `config`, `configView`, `configSynced` | the EnvoyConfig, its copy in the cache, whether the copy is current |
| `api`, `view`, `watch` | the EnvoyConfigRevisions, their copies in the cache, the events in between |
| `dirty`, `queue`, `delayed` | the work queues, and the requests that wait for a delay or a backoff |
| `ec`, `ecr` | the workers: the objects they hold and the writes they still have to make |
| `snapshot`, `failing` | the version in the xDS cache, and the versions that the statistics call failing |
| `now` | the clock, in whole seconds as in `metav1.Time` |
| `spent` | how much of each bound has been used |

A `fresh` flag says that a worker's copy still is the object in the API server. It
stands for `resourceVersion`: an update succeeds if and only if it is set. The
merge patch of `taintSelf` carries no `resourceVersion` and always succeeds, with
the conditions of the worker's copy.

One step of a worker is one call to the API server or the xDS cache, since
everything else may happen between two calls. A reconcile of the EnvoyConfig
controller is `EcRead` and then `EcCreate`, or `EcUnpublish`, `EcPublish` and
`EcDelete` as often as needed, and `EcStatus`. One of the EnvoyConfigRevision
controller is `EcrRead` and then `EcrInitialize` (add the finalizer),
`EcrCleanup` and `EcrFinalize` (remove it), or `EcrLoad`, `EcrTaint` if the
resources cannot be loaded, and `EcrStatus`. `EcFail` and `EcrFail` are errors of a
call at any point. `DeliverRevision` and `DeliverConfig` are informer events,
`EcrTimer` the requeue after 30 seconds and the backoff, `ResourceEvent` an event of a
Secret or an EndpointSlice, `CollectRevision` the garbage collector of Kubernetes. The
environment is `EnvoyReject`, `UserEdit`, `UserDeleteConfig`, `UserDeleteRevision` and
`Restart`, which can cut off both workers at any point.

Abstracted: there is one EnvoyConfig and one nodeID; a version is a model value, and two
versions never have the same hash; the update that sets the default of `spec.envoyAPI`
is taken as done; `failing` is per revision (the code asks per resource type, and types
whose version two revisions share may be failing in both); which versions can be loaded
is a parameter (`Unloadable`), and when the statistics call one failing is up to
`EnvoyReject`. The next two modules are about these two.

`RevisionHistory` adds a history variable that records in which order revisions were really
published, to compare rollbacks with it.

### Loading: `SnapshotLoading`

From the spec that a user submits to the snapshot in the xDS cache, for one revision.
`Submit` is the webhook (`ValidateResources`, `ValidateEnvoyResources`), `Publish` the
conversion of the deprecated `envoyResources`. A reconcile is `StartReconcile`, one
`LoadResource` per resource, each of which reads the Secret or the EndpointSlices it
needs as they are at that moment, and `WriteSnapshot`. Every error of
`GenerateSnapshot` is an outcome of `Load`: one that taints the revision, one that is
transient and retried, or a nil dereference. `ChangeSecret` and `ChangeSlice` happen in
between; `HandleEvent` asks for a reconcile if `SecretsEventHandler` or
`EndpointSlicesEventHandler` finds the object relevant. A serialized resource is a
format, a type, a name and a body.

### Statistics: `DiscoveryStats`

The key-value store of the xDS server and the ADS streams whose callbacks write it.
`OpenStream` reports the pod as a subscriber, `SendResponse` writes a nonce key,
`Accept` and `Reject` are the pod's answers. A NACK is counted in two steps, as
`ReportNACK` reads the counter and `IncrementCounter` writes it (`Reject`, `CountNack`).
Meanwhile keys expire (`ExpireNonce`) and are deleted by the handler of pod deletions
(`CollectStats`) and by `CleanupLogic` (`CleanupStats`, `ClearSnapshot`). Each takes a copy
of the keys that match (`FilterKeys`) and deletes them one at a time in any order
(`DeleteKey`), while callbacks go on and write new ones. A pod may be deleted before the
server notices that its stream is gone. `MissDeletion` is a deletion that arrives as a
tombstone, which the handler ignores.

A filter is looked for in the whole key: the constant `Within` says which names are found in
which others, in a version, or in the rest of a key (type URL and stat name). Nonces are
compared as the code does, as the beginning of a decimal number. One resource type is
modelled; every operation selects the keys of one type, or of all types alike. The ack and
total counters feed metrics only and are left out.

A NACK that arrives in the middle of a deletion, when the key of its response is gone and
that of an older response with a matching nonce is not, is counted for the older version.
The history variables `erased` and `misled` record such NACKs, which the properties except.

### Certificates: `Certificates`, `Operator`

A certificate is its serial number, its issuer's serial number and its validity; time
is a counter, and renewal begins in the last fifth of the life. A reconcile is
`Reconcile` (the reads, from a cache that lags) and one of `CreateCertificate`,
`UpdateCertificate` and `ReportStatus`; `FireTimer` is the delayed request,
`IssuerChangedHandler` the event of a CA. `Operator` composes this with
`ReconcileDiscoveryService` and with the pod, which loads the certificates when it
starts. Faults are `DeleteObject`, `DeleteSecret`, `DeleteOwned`, `RestartPod` and a
crash of the operator.

Abstracted: the objects themselves are read without lag, and a reconcile of the
DiscoveryService is one step: an event that arrives meanwhile leads to another one. The two
reads of the Secret in a reconcile of a certificate (`GetCertificate`, `VerifyCertificate`)
are one step as well: if the cache changes between them, its event leads to another reconcile.
Time only passes when a running operator is quiet.

### Pods: `EnvoyContainers`, `EnvoyPod`, `EnvoyDeployments`, `GracefulStop`

`EnvoyContainers` has the functions from annotations (`Handle`) and from an
EnvoyDeployment (`Template`) to the containers of a pod, with their hooks and ports.
`EnvoyPod` is the life of one pod: when a container is to be stopped the kubelet calls
its hook, `/drain` signals Envoy (`SignalDrain`, `SignalFails`), polls it (`Poll`) and
creates the ready file, `/shutdown` waits for the file (`CheckReady`); the container stops
when its hook is answered (`HookIsOver`), broken, or out of time (`GracePeriodEnds`).
Probes fail, containers crash and restart, and clients open and close connections at any
time: Envoy keeps its listeners open while it drains.
`EnvoyDeployments` composes it with the EnvoyDeployment controller, whose reconcile
writes four owned objects one after the other, while users, the autoscaler and the
webhooks do their part.

A connection is one that the manager counts: an HTTP connection of a listener other than
admin (`envoy_http_downstream_cx_active`, `manager.go:27`). `parseOpenConnections` adds the value of a
metric once for each of its labels (`Labels`); it never counts fewer connections than there
are. TCP connections are not counted, and nothing is said about them.

`GracefulStop` is the abstract specification: Envoy is told to drain, or cannot be
told, then no more than the minimum of connections are found open, and only then it stops,
unless there is an excuse. What clients open after the last poll is cut off; that is all the
code provides for. `EnvoyPod` implements it with `running <- Envoy \in up` and three history
variables: `quiet` (a poll has found few connections since Envoy started), `unheard` (four
attempts to tell Envoy failed) and `excused` (the grace period ended, a container crashed, the
pod has no manager, or the manager was not there when it was called).

Abstracted: delays are not measured, and the grace period may end at any moment. It takes
longer to restart a container than to stop one whose hook is over. The kubelet does not probe
a deleted pod. The EnvoyDeployment and what it owns and refers to are read without cache
lag, and writes that fail or conflict are left out: each leads to another reconcile, which
writes the same objects again. The parsing of ports in the annotations only decides which
pods are admitted; no property depends on it.

### Instances and proofs

`MCRevisionControl` has instances from scratch and from a settled state, `MCRevisionHistory`
one from a settled state with two revisions. `MCSnapshotLoading`, `MCDiscoveryStats`,
`MCOperator` and `MCEnvoyDeployments` give the values of the constants. `RevisionControlProofs`,
`SafetyProofs`, `LoadingProofs`, `StatsProofs`, `PodProofs` and `OperatorProofs` have the proofs,
and `ListProofs` facts about lists that they share.

## What is checked

| Run | Property | What it says |
| --- | --- | --- |
| `interleavings` | `TypeOK` | types of all variables |
| | `SettledPublication` | when the EnvoyConfig controller is done, exactly the right revision is published, and the status says so |
| | `PublishUntainted` | no write of the EnvoyConfig controller publishes a revision that is tainted in the API server, although it decides from the cache and writes several calls later |
| `restarts` | `ReconcilePending` | a published revision always has a reconcile to come |
| | `Coherence` | the inductive invariant of the proofs |
| | `SettledPublication` | as above, with retention and a restart |
| | `RetentionHolds` | no more than `maxRevisions` are kept once the controller is done |
| | `TaintIsPermanent` | no step removes a taint from a revision that stays |
| `deletion` | `DeletionCompletes` | the revisions of a deleted EnvoyConfig disappear |
| `deletion`, `self_healing` | `Converges` | the published revision ends up in the xDS cache and in the status |
| | `FailingIsRolledBack` | a version that clients reject, or that cannot be loaded, is eventually unpublished |
| `statistics` | `CountedWereSent` | a NACK is counted for the version it rejects and the pod that sent it, unless it is one of `misled` |
| | `FailingIsUnanimous` | a version fails only when every subscribed pod has rejected it, with the same exception |
| | `RejectionNoticed` | a version that every pod rejects is eventually found to fail |
| `loading` | `AdmittedLoads` | what the webhook validates never makes the loader fail for good, panic or leave the revision unpublished |
| | `SnapshotFresh` | once events are handled, the snapshot is what the Secrets and the EndpointSlices of now give |
| | `ServedWhenAvailable` | a revision whose references appear late is eventually served |
| `operator` | `NoLostWakeup` | when the operator rests every certificate is fit, its status is right, and its renewal is scheduled |
| | `PodTrustsRoot` | when it rests, the discovery service runs with the present server certificate and root |
| | `FitIsKept` | only certificates that are invalid or in their renewal window are replaced |
| | `Settles` | the operator always comes to rest |
| `pods` | `SettledObjects` | when no reconcile is due, the owned objects are those of the present spec |
| | `StopsGracefully` | the pod implements `GracefulStop`: Envoy stops only after a drain request found few connections |
| | `PodFollowsSpec` | again and again Envoy serves with the present configuration |

Four runs are expected to fail. Each checks one statement that the code's comments or
documentation make and the code does not keep:

| Run | Statement | What happens |
| --- | --- | --- |
| `history` | revisions are "ordered by time of publication. The last published revision holds the highest array index position" (`docs/design/discovery-service.md:24`) | `lastPublishedAt` is set when the EnvoyConfigRevision controller first sees a revision published (`envoyconfigrevision/status.go:59`). With `a` and then `b` served, one edit publishes `a` again and the next, to `c`, unpublishes it before that controller reconciles it: its date stays older than that of `b`. `c` cannot be loaded, and the rollback is to `b` instead of `a` (`RollbackToLatest`) |
| `similar_nodes` | when all clients of a configuration reject it, its revision is tainted (`docs/design/discovery-service.md:33`) | `FilterKeys` selects keys by substring (`stats/kv.go:104`): the pods of nodeID `gateway-internal` count among the subscribers of `gateway` and never reject its version, so the share of failing pods stays below 100% |
| `secret_names` | a secret of `envoyResources` is fetched from the Secret of the same name (`resources.go:244`) | the conversion keeps the address of the loop variable (`resources.go:189`), which under go 1.21 is the same for all iterations: all secrets come from the Secret of the last one |
| `stale_ready_file` | `/shutdown` delays the stop of Envoy until it is safe (`manager.go:107`) | the ready file is never removed (`manager.go:171`). After the container of an application, which calls `/drain`, was restarted by its probe, Envoy too drains and restarts; from then on `/shutdown` answers at once, and a stop waits for no drain |

`similar_nodes` uses the property and the fairness of `statistics`, `stale_ready_file` those of
`pods`: only the names, and the container whose probe fails, are different.

### Bounds

Revisions: two versions are enough for a rollback and for a conflict between them; the
order of rollbacks needs three (`history`). `MaxLag` 2 lets a cache be two writes behind; with 1 the API server
accepts the next write when the last event is delivered, and workers' copies are still
outdated by others' writes. `restarts` starts with version `a` served and keeps one revision, so that retention deletes
revisions, published ones included, between any steps of both controllers, from lists that
may have changed since. One restart or one failure strikes at every point of every reconcile. The clock stays at 1 where dates do
not matter.

Statistics: two pods are needed for one to overrule the other. Two responses on a stream
of the first (one on those of the second) reuse the nonces of the stream before; with `Base` 2 a nonce is a prefix of the next one, as 1 is of 10
in the code. A threshold of 2 instead of 5 still needs several NACKs. A mortal pod and
another snapshot strike at any moment. The run has three initial states, each a few steps
from `Init`: the pods start while the bad version is in the snapshot, both of them without a
clean-up or one of them with one at any moment; or both have had the good version
for a while and a clean-up has just begun.

Loading: every combination of fields of a single resource, of all types, in three formats,
both serializations and both forms of the spec; a few specs with several resources that
depend on the cluster. Two changes of Secrets or slices can fall before, between and
after the reads of a reconcile.

Operator: lives of two and three ticks make root and server certificate expire at different times
within `MaxTime` 3; one fault at any point. A new certificate gets the least serial number that is not in use, which is as good as
any other, and there are more of them than are in use at a time; the theorems are about
any choice. The client certificate, which is like the server's without a pod that loads it,
is left out of the instance. The run starts with nothing in place, without a fault, and with everything in
place, with the fault.

Pods: one connection against a minimum of none, with one label, so that the count is the
number of connections (the theorem is about any number of labels); one fault; three changes by users, so that
a spec can change while the pod of the former one drains. The specs have static, dynamic
and default replicas, with and without a disruption budget, shutdown manager and admin port of
their own, and two that the webhook refuses.

Deadlock is checked in `loading`. In the other passing runs the system may really be at
rest: every revision tainted or deleted, every pod deleted, users done and the clock at its end.

### Fairness

Revisions: weak fairness of the informers, of each worker (as a whole: it
does its next step), of each timer and of the garbage collector. Workers are
goroutines of a running process, informers reconnect, and `RequeueAfter` and the
rate limiter always fire. Loading: the same. Statistics: the server's callbacks and the
streams go on; Envoy retries, and once it is sent a version that it rejects again and again, its answer is
sometimes counted before the nonce key expires (strong fairness of `Reject`), as answers usually take less than
the ten seconds of a key's life; a connection sometimes lasts until a response is sent on it (strong fairness of
`SendResponse`), and none outlives its maximum age; a deletion that has begun is completed. Operator: a reconcile in progress, the
informers, the timers, the garbage collector and the kubelet go on; strong fairness of `Reconcile` for each certificate,
since the work queue is served first come, first served, and a request that keeps coming back
(a server certificate under an expired root) cannot starve another. Pods: the controller, the roll-out and the kubelet go on.
Nothing is assumed of users, clients, failures and restarts; the bounds on failures and
restarts say that there are finitely many, without which nothing can be promised.

## What is proved

For all values of the constants, under the assumptions stated with them:

| Theorem | Statement |
| --- | --- |
| `TypeCorrect` | `Spec => []TypeOK` of `RevisionControl` |
| `CoherenceHolds` | `Spec => []Coherence` |
| `PublishedIsPending` | `Spec => []ReconcilePending` |
| `TaintStays` | `Spec => TaintIsPermanent` |
| `NothingTaintedIsPublished` | `Spec => PublishUntainted` |
| `PublicationSettles` | `Spec => []SettledPublication` |
| `RetentionIsKept` | `Spec => []RetentionHolds` |
| `DesiredGoesLast` | the desired version is last in every sorted list that has it |
| `VersionToPublishIsBest` | the choice is the untainted revision of the highest index, none only if there is none |
| `RollbackFollowsDates` | that choice is the desired version unless it is tainted, and then has the latest publication date of the other untainted ones |
| `AdmittedConfigsLoad` | `Spec => []AdmittedLoads` of `SnapshotLoading` |
| `SnapshotIsFresh` | `Spec => []SnapshotFresh` of `SnapshotLoading` |
| `NacksAreAttributed` | `Spec => []CountedWereSent` of `DiscoveryStats`, if no name contains another (`DistinctNames`) |
| `NoPodIsOverruled` | `Spec => []FailingIsUnanimous`, if no name contains another |
| `EnvoyStopsGracefully` | `Spec => StopsGracefully`: `EnvoyDeployments` implements `GracefulStop`, if only the probes of Envoy and the manager fail (`OwnProbes`) and extra hooks are those of other containers (`OtherHooks`) |
| `ObjectsFollowSpec` | `Spec => []SettledObjects` of `EnvoyDeployments` |
| `FitCertificateStays` | `Spec => FitIsKept` of `Operator` |
| `NoWakeupIsLost` | `Spec => []NoLostWakeup` of `Operator` |
| `PodFollowsRoot` | `Spec => []PodTrustsRoot` of `Operator` |

The assumptions are what the violating runs take away: `DistinctNames` does not hold in
`similar_nodes`, `OwnProbes` not in `stale_ready_file`. Those of `Certificates` and `Operator`
are that a chain has two links, that the root and the server certificate are renewed (the
generator and the default of the code say so), and that no life is a multiple of five ticks:
so no reading of the clock falls on the very instant a renewal window opens (see the
observations). Whatever else is assumed of constants says what kind of values they are.

**Revisions.** `Coherence` is the inductive invariant. None of the properties is inductive
by itself: that a taint stays depends on what an update writes back, so on a fresh copy
being the object in the API server (`EcIsCoherent`, `EcrIsCoherent`). That holds because a
copy read without an event in between is current (`WatchIsCoherent`): the last event of a
revision carries the object in the API server, and without an event the cache has it. That
what is published is not tainted needs, in addition, that the copy was not tainted when it
was read. `ReconcilePending` follows from `ViewIsPending`, the same statement about the
cache, which is what the code acts on, and `WatchIsCoherent`. `ViewIsPending` is kept by
every reconcile of a published revision, as it ends with a request for another one; the
reconciles that end without one are those of revisions that are unpublished or deleted in
the cache. `RevisionControlProofs` has one step per action for types and one
lemma per action for `Coherence`, on top of lemmas about a write (`WatchWrite`, `EcWrite`,
`EcrWrite`) and about the work queue.

`SettledPublication` and `RetentionHolds` speak of states in which the EnvoyConfig
controller is done. `PlanInv` says how it gets there: as long as nothing asks for another
reconcile, the worker's remaining writes are what `VersionToPublish` and the retention rule
make of the cache as it is now (`AsDecided`), and after the last of them a reconcile would
find nothing to do (`NothingToDo`). It is inductive since every write of either controller
puts an event in `watch` or makes the copy of the EnvoyConfig outdated, and each of those
leads to another reconcile (`Awaited`). TLC checked it on the instances of `interleavings`
and, from `Init`, of `restarts` before it was proved. `SettledIsDone` draws the conclusion; that what remains after retention
is at most `MaxRevisions` is a fact about the end of a list (`LastAreFew`).

`RollbackToLatest` is not a theorem, as `history` shows. What is true of the code is
`RollbackFollowsDates`: for every list in the order of `SortByPublication` the rollback is to
the latest date. It goes wrong only where dates do not tell the order of publications.

**Loading.** `LoadingInv` says that the resources of the revision, converted or not, are
all `Good`: each is one that `Load` can only fail on transiently. That every validated spec
converts to such resources is the lemma the rest stands on. `SnapshotFresh` speaks of a
worker at rest; `FreshInv` says how it gets there: as long as no change waits to be noticed
(`Noticed`), the resources loaded so far are what the cluster has now, wherever in the reconcile
the changes fell. A change that concerns one of them is an event that the handlers find
relevant; one that does not, leaves what was loaded as it is (`SecretOfAnother`, `SliceOfAnother`).

**Statistics.** `CountedWereSent` alone does not survive a NACK: `ReportNACK` finds the
version through any key that matches the nonce, and nonces start again on every stream.
The strengthening is `OwnKeyIsLast`: while a pod owes an answer, and the key of the response
it answers has not been deleted, no key of that pod is younger. So an older key can only match
next to the right one, and then nothing is counted, or must be the right one. Expiration takes the oldest key first and keeps this true;
a deletion takes any, which is where the exception comes from. `NoPodIsOverruled`
rests on `SubscribedInv`: the key of an open stream is among the subscribers unless it has been deleted.

**Pods.** Each step is shown to be a step or a stutter of `GracefulStop`, from the
invariant `Inv`. Without an excuse, a poll in progress means that the running Envoy drains or
could not be told to, a ready file or an answered hook that it has been found with few
connections (`StandsForDrained`), and nothing of this outlives the containers it belongs to
(`NothingLeft`), though Envoy may be restarted under a request that is in progress; `TemplatesOK` says that pods
come with the hooks the generators give them. `SettledObjects` needs `ObjectsInv`: as long
as no other reconcile is requested, the one in progress works with the present spec,
EnvoyConfig and DiscoveryService, and the objects it has passed are as they should be.

**Certificates.** `CertInv`, `WakeupInv` and `PodInv` together are the inductive invariant.
`FitIsKept` needs that a certificate which the cache does not hold yet was issued this very
tick, and that nothing read so far mentions it (`StaleInv`, `SerialsInv`): a decision made on
an older copy then cannot hit a certificate that has been in use. `NoLostWakeup` needs an account of
who looks at an object again (`ObjectInv`): it is settled, a reconcile of it is to come, or
the status of its issuer does not say yet what the issuer's Secret holds, so that an event of the issuer
is to come; and of a report under way (`ReportInv`), which is either still right or
followed by another reconcile. In a quiet state the roots are settled and reported, hence the certificates
they sign are settled too (`QuietIsSettled`). The step that needs time is `OperatorTick`: it
starts from such a state, and the delayed requests come no later than a window opens
(`ScheduledInTime`). `PodTrustsRoot` rests on `PodInv`: only the hash of the server
certificate rolls the pod out, but a server certificate names its root, and a pod that has loaded the one
has loaded the other.

Only model-checked is all liveness (`Converges`, `FailingIsRolledBack`, `DeletionCompletes`,
`RejectionNoticed`, `ServedWhenAvailable`, `Settles`, `PodFollowsSpec`), which the prover does
not support.

## Observations

Met while modelling, in the code rather than in a run of this project. The first six
are behaviours of the models above, some of them against statements of the documentation.

- `taintSelf` (`envoyconfigrevision_controller.go:156`) patches without `resourceVersion`. A
  reconcile that began before its revision was unpublished writes `RevisionPublished` back, so two
  revisions are published for a while (`docs/design/discovery-service.md:22` says one). The
  EnvoyConfig controller puts it right.
- `ResourcesInSync` (`envoyconfigrevision/status.go:84`) only asks whether the nodeID has a
  snapshot, which may be that of another revision; the comment next to it says "resources
  version different that expected".
- In `RollbackFailed` the failing revision is unpublished
  (`reconcile_revisions.go:192`) and lives on in the xDS cache until a restart;
  `docs/design/discovery-service.md:33` says it will still be published.
- Publication dates are whole seconds (`revisions/sort.go:44`): after two publications within
  one the rollback may be to the older one. `RollbackToLatest` asks for distinct dates, and fails for another reason.
- `DeleteKeysByFilter` (`stats/kv.go:115`) is not atomic. A NACK between two of its deletions may be
  counted for an older version of the same pod, as described for `DiscoveryStats`.
- `CleanupLogic` (`finalize.go:14`) deletes the statistics of published revisions only. A
  tainted revision that is deleted so that its config can be applied again
  (`docs/walkthroughs/self-healing.md:229`) is tainted at once from the old counters.
- A certificate may be issued twice in a row: `UpdateCertificate` reads the Secret anew
  (`crud.go:126`) after the reconcile decided on an older copy. `FitIsKept` says how far this goes.
- Renewal begins when less than 20% of the life is left. At exactly 20% the delay is zero,
  which is no request at all (`reconcile_certificate.go:141`). The comment at line 127 ("when 20%
  or less of certificate's duration has passed") means what is left, not what has passed.
- Under an expired root the server certificate is reissued in a loop until the request for
  the root is served.
- The shutdown manager is not told Envoy's admin port (`generator.go:130`): with one of the
  user's choice it cannot signal Envoy, and the pod waits for the end of its grace period. A port of 0 becomes 9001 in the bootstrap, where the default is 9901 elsewhere.
- The shutdown manager waits for HTTP connections only (`manager.go:27`), and not for those that are
  opened after its last poll.
- The manager's port in an EnvoyDeployment is not used (`envoydeployment/generators/deployment.go:58`).
- Pods without a name are all "unknown" to the statistics; they prevent a taint.
- The webhook does not look at the deprecated `extensionConfigs`; `AdmittedLoads` excepts them (`Unvalidated`).

## Not modelled

- `metrics_collector.go`: reads the statistics, changes nothing.
- `cmd/initmanager.go` and the writing of the bootstrap and SDS files: pure I/O. The ports and
  addresses in them are in `GenerateStatic`.
- `cmd/root.go`, `cmd/webhook.go`, flags and wiring; `generators/`, `hack/`, deep copies and test
  utilities: no behaviour of the running system.
- The contents of the Service, Role, RoleBinding and ServiceAccount of a discovery
  service, and the getters of its spec: constants of one object.
- The copy of the Deployment's status into those of DiscoveryService and EnvoyDeployment,
  which no other part reads.
- Delays of the shutdown manager and the grace period in seconds. They decide whether a
  drain is finished in time, not whether it is graceful.
- A composition of `DiscoveryStats` and `SnapshotLoading` with `RevisionControl`: each has
  several hundred thousand states with two versions, and their product is out of reach. The
  interface is narrow: in `RevisionControl` any set of versions may be unloadable, and a
  version may be found failing at any time, so what is proved there holds whatever the
  verdicts of the other two.
