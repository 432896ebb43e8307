--------------------------- MODULE SnapshotLoading ---------------------------
(***************************************************************************)
(* From the spec of an EnvoyConfig to the snapshot in the xDS cache, for   *)
(* one revision:                                                           *)
(*                                                                         *)
(*   validating webhook     admits the spec                                *)
(*   EnvoyConfig controller converts the deprecated envoyResources and     *)
(*                          stores them in the revision it publishes       *)
(*                          (RevisionControl is about which one that is)   *)
(*   EnvoyConfigRevision    loads the resources of the published revision, *)
(*   controller             one after the other, reading the Secrets and   *)
(*                          EndpointSlices they refer to, and replaces the *)
(*                          snapshot when some version in it differs       *)
(*                                                                         *)
(* Secrets and EndpointSlices change while the controller reads them.  It  *)
(* sees them in the informer cache; the event of a change is handled after *)
(* the change is visible there.                                            *)
(***************************************************************************)
EXTENDS Integers, Sequences, FiniteSetsExt, Functions

CONSTANTS
    None,         \* an optional field that is not set
    Specs,        \* the EnvoyConfig specs a user may submit
    ResourceNames, \* the names of Envoy resources
    Bodies,       \* what an Envoy resource configures
    Labels,       \* the labels EndpointSlices are selected by
    Keys,         \* the keys of a Secret
    Ports,        \* the names of ports
    SecretNames,  \* the Secrets of the namespace
    SecretValues, \* what a Secret can be
    SliceNames,   \* the EndpointSlices of the namespace
    SliceValues,  \* what an EndpointSlice can be
    InitialClusters, \* the Secrets and EndpointSlices there may be at first
    MaxChanges,   \* bound: the changes of Secrets and EndpointSlices
    MaxRestarts   \* bound: the restarts of the discovery service

Types == {"endpoint", "cluster", "route", "scopedRoute", "listener", "secret",
          "runtime", "extensionConfig"}

(***************************************************************************)
(* A serialized resource is a text in some format that describes a         *)
(* resource of some type; "broken" is in no format.  Every JSON text is    *)
(* also YAML.                                                              *)
(***************************************************************************)
Value == [format: {"json", "yaml", "broken"}, type: Types, name: ResourceNames, body: Bodies]

\* One of spec.resources.
Resource ==
    [type: Types, value: Value \cup {None},
     generateFromTlsSecret: SecretNames \cup {None},
     generateFromOpaqueSecret:
        [name: SecretNames, key: Keys, alias: ResourceNames] \cup {None},
     generateFromEndpointSlices:
        [selector: Labels, clusterName: ResourceNames, targetPort: Ports] \cup {None},
     blueprint: {"tlsCertificate", "validationContext", None}]

\* The deprecated spec.envoyResources.
EnvoyResources ==
    [values: [Types \ {"secret"} -> Seq(Value)],
     secrets: Seq([name: SecretNames,
                   ref: [name: SecretNames \cup {""},
                         namespace: {"", "own", "other"}] \cup {None}])]

EnvoyConfigSpec ==
    [serialization: {"json", "yaml"}, envoyResources: EnvoyResources \cup {None},
     resources: Seq(Resource) \cup {None}]

\* The API server refuses a TLS Secret without its two keys.
ASSUME LoadingAssumption ==
    /\ Specs \subseteq EnvoyConfigSpec
    /\ None \notin Value \cup SecretNames \cup EnvoyResources \cup Seq(Resource)
    /\ None \notin {"tlsCertificate", "validationContext"}
    /\ InitialClusters \subseteq [secrets: [SecretNames -> SecretValues \cup {None}],
                                  slices: [SliceNames -> SliceValues \cup {None}]]
    /\ IsFiniteSet(SliceNames)
    /\ \A s \in SecretValues : s.type = "tls" => {"tls.crt", "tls.key"} \subseteq DOMAIN s.data
    /\ MaxChanges \in Nat /\ MaxRestarts \in Nat

VARIABLES
    spec,       \* the spec the API server has accepted
    resources,  \* spec.resources of the published revision
    secrets,    \* the Secrets in the informer cache
    slices,     \* the EndpointSlices in the informer cache
    events,     \* their events that have not been handled
    queued,     \* the revision is in the work queue
    retry,      \* it will be, after the backoff of a failed reconcile
    timer,      \* it will be, 30 seconds after a reconcile
    worker,     \* the worker of the EnvoyConfigRevision controller
    cache,      \* the snapshot in the xDS cache
    faults,     \* the kinds of failures met so far
    spent       \* how much of each bound the environment has used

cluster == <<secrets, slices, events>>
vars == <<spec, resources, secrets, slices, events, queued, retry, timer, worker,
          cache, faults, spent>>

YAMLToJSON(value) == [value EXCEPT !.format = "json"]

IsYAML(value) == value.format \in {"json", "yaml"}

Unmarshals(value, serialization, type) ==
    /\ value.type = type
    /\ value.format = "json" \/ (serialization = "yaml" /\ IsYAML(value))

-----------------------------------------------------------------------------
(***************************************************************************)
(* The validating webhook of EnvoyConfigs.                                 *)
(***************************************************************************)

\* Mutant: values are not checked against the schema of their type.
ValidResourceUnchecked(r) ==
    CASE r.type = "secret" ->
            r.generateFromTlsSecret # None \/ r.generateFromOpaqueSecret # None
      [] r.type = "endpoint" -> (r.generateFromEndpointSlices = None) # (r.value = None)
      [] OTHER -> r.value # None

ValidResource(r) ==
    CASE r.type = "secret" ->
            /\ r.generateFromTlsSecret # None \/ r.generateFromOpaqueSecret # None
            /\ r.value = None
            /\ r.generateFromEndpointSlices = None
      [] r.type = "endpoint" ->
            /\ (r.generateFromEndpointSlices = None) # (r.value = None)
            /\ r.value # None => Unmarshals(r.value, "json", "endpoint")
            /\ r.generateFromTlsSecret = None
            /\ r.blueprint = None
      [] OTHER ->
            /\ r.generateFromEndpointSlices = None
            /\ r.generateFromTlsSecret = None
            /\ r.blueprint = None
            /\ r.value # None
            /\ Unmarshals(r.value, "json", r.type)

\* The deprecated form of the resources.  The webhook looks at six of its
\* lists of values, and not at extensionConfigs.
ValidatedTypes == Types \ {"secret", "extensionConfig"}

ValidSecretRef(ref) ==
    ref # None => ref.name # "" /\ ref.namespace \in {"", "own"}

ValidEnvoyResources(s) ==
    /\ \A t \in ValidatedTypes : \A i \in DOMAIN s.envoyResources.values[t] :
          Unmarshals(s.envoyResources.values[t][i], s.serialization, t)
    /\ \A i \in DOMAIN s.envoyResources.secrets :
          ValidSecretRef(s.envoyResources.secrets[i].ref)

Validate(s) ==
    /\ (s.envoyResources = None) # (s.resources = None)
    /\ IF s.envoyResources # None
       THEN ValidEnvoyResources(s)
       ELSE \A i \in DOMAIN s.resources : ValidResource(s.resources[i])

-----------------------------------------------------------------------------
(***************************************************************************)
(* The conversion of the deprecated resources.                             *)
(***************************************************************************)

NoResource ==
    [type |-> None, value |-> None, generateFromTlsSecret |-> None,
     generateFromOpaqueSecret |-> None, generateFromEndpointSlices |-> None,
     blueprint |-> None]

ValueResources(s, t) ==
    [i \in DOMAIN s.envoyResources.values[t] |->
        LET value == s.envoyResources.values[t][i]
        IN  [NoResource EXCEPT
                !.type = t,
                !.value = IF s.serialization = "yaml" THEN YAMLToJSON(value) ELSE value]]

\* Every converted secret holds a pointer to the name in the loop's variable,
\* of which there is one for the whole loop: the name of the last secret.
SecretResources(s) ==
    LET named == s.envoyResources.secrets
    IN  [i \in DOMAIN named |->
            [NoResource EXCEPT !.type = "secret",
                               !.generateFromTlsSecret = named[Len(named)].name,
                               !.blueprint = "tlsCertificate"]]

Converts(s) ==
    \A t \in Types \ {"secret"} : \A i \in DOMAIN s.envoyResources.values[t] :
        s.serialization = "yaml" => IsYAML(s.envoyResources.values[t][i])

ConvertedResources(s) ==
    ValueResources(s, "endpoint") \o ValueResources(s, "cluster")
    \o ValueResources(s, "route") \o ValueResources(s, "scopedRoute")
    \o ValueResources(s, "listener") \o ValueResources(s, "runtime")
    \o ValueResources(s, "extensionConfig") \o SecretResources(s)

\* A revision with a raw value that is not JSON cannot be sent to the API server.
Storable(rs) ==
    \A i \in DOMAIN rs : rs[i].value # None => rs[i].value.format = "json"

-----------------------------------------------------------------------------
(***************************************************************************)
(* Endpoint discovery.                                                     *)
(***************************************************************************)

health(ec) ==
    IF ec.terminating = TRUE THEN "DRAINING"
    ELSE LET known == IF ec.serving # None THEN ec.serving ELSE ec.ready
         IN  CASE known = None -> "UNKNOWN"
               [] known = TRUE -> "HEALTHY"
               [] known = FALSE -> "UNHEALTHY"

IsIP(address) == address # "not-an-ip"

Selected(selector) ==
    {n \in SliceNames : slices[n] # None /\ slices[n].label = selector}

\* The hosts of a list of slices, each at the place of its slice in the list and
\* its own place there.  One without an IP address is left out.
Places(list) ==
    UNION {{<<i, j>> : j \in {k \in DOMAIN slices[list[i]].endpoints :
                                IsIP(slices[list[i]].endpoints[k].address)}} : i \in DOMAIN list}

\* The port is that of the first slice of the list.
UpstreamHosts(list, portName) ==
    [p \in Places(list) |->
        LET e == slices[list[p[1]]].endpoints[p[2]]
        IN  [ip |-> e.address, port |-> slices[list[1]].ports[portName], health |-> health(e)]]

CanList(list, portName) ==
    /\ slices[list[1]].addressType # "FQDN"
    /\ portName \in DOMAIN slices[list[1]].ports
    /\ slices[list[1]].ports[portName] # None

-----------------------------------------------------------------------------
(***************************************************************************)
(* GenerateSnapshot: what loading a resource gives.  A failure is          *)
(*   "invalid"    a StatusError: the revision is tainted                   *)
(*   "transient"  any other error: the reconcile is tried again            *)
(*   "panic"      a nil value is dereferenced: the process ends            *)
(***************************************************************************)

Failure(kind) == [failure |-> kind]

Success(name, body) == [failure |-> "none", name |-> name, body |-> body]

\* A key that the Secret does not have reads as the empty string.
Data(secret, key) == IF key \in DOMAIN secret.data THEN secret.data[key] ELSE ""

GetBlueprint(r) == IF r.blueprint # None THEN r.blueprint ELSE "tlsCertificate"

LoadValue(r) ==
    CASE r.value = None -> Failure("panic")
      [] r.value # None /\ ~Unmarshals(r.value, "json", r.type) -> Failure("invalid")
      [] OTHER -> Success(r.value.name, r.value.body)

LoadTlsSecret(r) ==
    LET name == r.generateFromTlsSecret
    IN  IF secrets[name] = None \/ secrets[name].type # "tls"
        THEN Failure("transient")
        ELSE Success(name,
                IF GetBlueprint(r) = "validationContext"
                THEN [trustedCa |-> Data(secrets[name], "tls.crt")]
                ELSE [privateKey |-> Data(secrets[name], "tls.key"),
                      certificateChain |-> Data(secrets[name], "tls.crt")])

LoadOpaqueSecret(r) ==
    LET from == r.generateFromOpaqueSecret
    IN  IF secrets[from.name] = None \/ secrets[from.name].type # "opaque"
        THEN Failure("transient")
        ELSE Success(from.alias, [genericSecret |-> Data(secrets[from.name], from.key)])

\* The informer cache lists the slices in no particular order.
LoadEndpoints(r) ==
    LET from == r.generateFromEndpointSlices
        selected == Selected(from.selector)
    IN  {IF list = <<>> \/ ~CanList(list, from.targetPort)
         THEN Failure("transient")
         ELSE Success(from.clusterName, UpstreamHosts(list, from.targetPort)) :
            list \in Bijection(1..Cardinality(selected), selected)}

Load(r) ==
    CASE r.type = "endpoint" /\ r.generateFromEndpointSlices # None -> LoadEndpoints(r)
      [] r.type = "secret" /\ r.generateFromTlsSecret # None -> {LoadTlsSecret(r)}
      [] r.type = "secret" /\ r.generateFromTlsSecret = None
            /\ r.generateFromOpaqueSecret # None -> {LoadOpaqueSecret(r)}
      [] r.type = "secret" /\ r.generateFromTlsSecret = None
            /\ r.generateFromOpaqueSecret = None -> {Failure("invalid")}
      [] OTHER -> {LoadValue(r)}

\* The resources of a type, by name: the last one of a name stays.  The version
\* of the type is a hash of them.
SetResources(list) ==
    [n \in {list[i].name : i \in DOMAIN list} |->
        list[Max({i \in DOMAIN list : list[i].name = n})].body]

\* What the xDS cache has for a node without a snapshot.
NoSnapshot == [t \in {} |-> <<>>]

areDifferent(a, b) == \E t \in Types : a[t] # b[t]

-----------------------------------------------------------------------------
IdleWorker == [busy |-> FALSE, idx |-> 1, loaded |-> [t \in Types |-> <<>>]]

Init ==
    /\ spec = None
    /\ resources = None
    /\ \E c \in InitialClusters : secrets = c.secrets /\ slices = c.slices
    /\ events = {}
    /\ queued = FALSE
    /\ retry = FALSE
    /\ timer = FALSE
    /\ worker = IdleWorker
    /\ cache = NoSnapshot
    /\ faults = {}
    /\ spent = [changes |-> 0, restarts |-> 0]

\* A user submits a spec that the webhook admits.
Submit(s) ==
    /\ spec = None
    /\ Validate(s)
    /\ spec' = s
    /\ UNCHANGED <<resources, cluster, queued, retry, timer, worker, cache, faults, spent>>

\* The EnvoyConfig controller creates the revision and publishes it ...
CanPublish ==
    /\ spec.envoyResources # None => Converts(spec)
    /\ Storable(IF spec.envoyResources # None THEN ConvertedResources(spec)
                                              ELSE spec.resources)

Publish ==
    /\ spec # None /\ resources = None
    /\ CanPublish
    /\ resources' = IF spec.envoyResources # None THEN ConvertedResources(spec)
                                                  ELSE spec.resources
    /\ queued' = TRUE
    /\ UNCHANGED <<spec, cluster, retry, timer, worker, cache, faults, spent>>

\* ... or fails to, and tries again.
FailToPublish ==
    /\ spec # None /\ resources = None
    /\ ~CanPublish
    /\ faults' = faults \cup {"unpublishable"}
    /\ UNCHANGED <<spec, resources, cluster, queued, retry, timer, worker, cache, spent>>

(***************************************************************************)
(* The environment, and the handlers of its events.                        *)
(***************************************************************************)

\* A Secret is created, updated or deleted; its type cannot be updated.
ChangeSecret(n, value) ==
    /\ spent.changes < MaxChanges
    /\ value # secrets[n]
    /\ (value # None /\ secrets[n] # None) => value.type = secrets[n].type
    /\ secrets' = [secrets EXCEPT ![n] = value]
    /\ events' = events \cup
          {[kind |-> "secret", key |-> n,
            type |-> IF value # None THEN value.type ELSE secrets[n].type]}
    /\ spent' = [spent EXCEPT !.changes = @ + 1]
    /\ UNCHANGED <<spec, resources, slices, queued, retry, timer, worker, cache, faults>>

\* The handler of an update is called for the old object and for the new one.
ChangeSlice(n, value) ==
    /\ spent.changes < MaxChanges
    /\ value # slices[n]
    /\ slices' = [slices EXCEPT ![n] = value]
    /\ events' = events \cup
          {[kind |-> "slice", key |-> s.label, type |-> ""] :
             s \in {slices[n], value} \ {None}}
    /\ spent' = [spent EXCEPT !.changes = @ + 1]
    /\ UNCHANGED <<spec, resources, secrets, queued, retry, timer, worker, cache, faults>>

\* Mutant: only the Secrets of generateFromTlsSecret are looked for.
TlsSecretsEventHandler(e) ==
    \E i \in DOMAIN resources :
        resources[i].type = "secret" /\ resources[i].generateFromTlsSecret = e.key

SecretsEventHandler(e) ==
    /\ e.type \in {"tls", "opaque"}
    /\ \E i \in DOMAIN resources :
          /\ resources[i].type = "secret"
          /\ \/ resources[i].generateFromTlsSecret = e.key
             \/ /\ resources[i].generateFromOpaqueSecret # None
                /\ resources[i].generateFromOpaqueSecret.name = e.key

EndpointSlicesEventHandler(e) ==
    \E i \in DOMAIN resources :
        /\ resources[i].type = "endpoint"
        /\ resources[i].generateFromEndpointSlices # None
        /\ resources[i].generateFromEndpointSlices.selector = e.key

Relevant(e) ==
    /\ resources # None
    /\ IF e.kind = "secret" THEN SecretsEventHandler(e) ELSE EndpointSlicesEventHandler(e)

HandleEvent(e) ==
    /\ e \in events
    /\ events' = events \ {e}
    /\ queued' = (queued \/ Relevant(e))
    /\ UNCHANGED <<spec, resources, secrets, slices, retry, timer, worker, cache, faults, spent>>

(***************************************************************************)
(* The EnvoyConfigRevision controller.                                     *)
(***************************************************************************)

Requeue ==
    /\ retry \/ timer
    /\ ~queued
    /\ queued' = TRUE
    /\ \/ retry /\ retry' = FALSE /\ UNCHANGED timer
       \/ timer /\ timer' = FALSE /\ UNCHANGED retry
    /\ UNCHANGED <<spec, resources, cluster, worker, cache, faults, spent>>

StartReconcile ==
    /\ queued /\ ~worker.busy
    /\ queued' = FALSE
    /\ worker' = [IdleWorker EXCEPT !.busy = TRUE]
    /\ UNCHANGED <<spec, resources, cluster, retry, timer, cache, faults, spent>>

\* One turn of the loop of GenerateSnapshot.
LoadResource ==
    /\ worker.busy /\ worker.idx \in DOMAIN resources
    /\ \E result \in Load(resources[worker.idx]) :
          /\ worker' = IF result.failure = "none"
                       THEN [worker EXCEPT !.idx = @ + 1,
                                           !.loaded[resources[worker.idx].type] =
                                               Append(@, [name |-> result.name,
                                                          body |-> result.body])]
                       ELSE IdleWorker
          /\ faults' = faults \cup ({result.failure} \ {"none"})
          /\ retry' = (retry \/ result.failure = "transient")
          /\ timer' = (timer \/ result.failure = "invalid")
    /\ UNCHANGED <<spec, resources, cluster, queued, cache, spent>>

\* Mutant: the worker is not released.
WriteSnapshotHeld ==
    /\ worker.busy /\ worker.idx = Len(resources) + 1
    /\ cache' = [t \in Types |-> SetResources(worker.loaded[t])]
    /\ timer' = TRUE
    /\ UNCHANGED <<spec, resources, cluster, queued, retry, worker, faults, spent>>

\* The end of CacheReconciler.Reconcile, and of the reconcile.
WriteSnapshot ==
    /\ worker.busy /\ worker.idx = Len(resources) + 1
    /\ LET snap == [t \in Types |-> SetResources(worker.loaded[t])]
       IN  cache' = IF cache = NoSnapshot THEN snap
                    ELSE IF areDifferent(snap, cache) THEN snap ELSE cache
    /\ worker' = IdleWorker
    /\ timer' = TRUE
    /\ UNCHANGED <<spec, resources, cluster, queued, retry, faults, spent>>

\* The discovery service restarts: the cache is gone, and every revision is
\* queued when the informers start.
Restart ==
    /\ resources # None
    /\ spent.restarts < MaxRestarts
    /\ spent' = [spent EXCEPT !.restarts = @ + 1]
    /\ cache' = NoSnapshot
    /\ worker' = IdleWorker
    /\ queued' = TRUE
    /\ retry' = FALSE /\ timer' = FALSE
    /\ events' = {}
    /\ UNCHANGED <<spec, resources, secrets, slices, faults>>

Environment ==
    \/ \E n \in SecretNames : \E value \in SecretValues \cup {None} : ChangeSecret(n, value)
    \/ \E n \in SliceNames : \E value \in SliceValues \cup {None} : ChangeSlice(n, value)
    \/ Restart

Controllers ==
    \/ Publish
    \/ FailToPublish
    \/ \E e \in events : HandleEvent(e)
    \/ Requeue
    \/ StartReconcile
    \/ LoadResource
    \/ WriteSnapshot

Next == (\E s \in Specs : Submit(s)) \/ Environment \/ Controllers

Spec == Init /\ [][Next]_vars

\* The workers go on, the informers deliver their events, and a delay ends.
Fairness ==
    /\ WF_vars(Publish)
    /\ WF_vars(\E e \in events : HandleEvent(e))
    /\ WF_vars(Requeue)
    /\ WF_vars(StartReconcile)
    /\ WF_vars(LoadResource)
    /\ WF_vars(WriteSnapshot)

FairSpec == Spec /\ Fairness

-----------------------------------------------------------------------------
\* The deprecated extensionConfigs, which the webhook does not look at.
Unvalidated ==
    /\ spec # None
    /\ spec.envoyResources # None
    /\ spec.envoyResources.values["extensionConfig"] # <<>>

(***************************************************************************)
(* The webhook and the loader agree: what ValidateCreate and               *)
(* ValidateUpdate admit is converted, stored and loaded, so that no        *)
(* admitted spec ever taints its revision with FailedLoadingResources, or  *)
(* makes GenerateSnapshot dereference a value that is not set.  Only the   *)
(* deprecated extensionConfigs escape the webhook.                         *)
(***************************************************************************)
AdmittedLoads ==
    Unvalidated \/ faults \cap {"invalid", "panic", "unpublishable"} = {}

\* The name of a resource in the cache.
NameOf(r) ==
    CASE r.type = "endpoint" /\ r.generateFromEndpointSlices # None ->
            r.generateFromEndpointSlices.clusterName
      [] r.type = "secret" /\ r.generateFromTlsSecret # None -> r.generateFromTlsSecret
      [] r.type = "secret" /\ r.generateFromTlsSecret = None -> r.generateFromOpaqueSecret.alias
      [] OTHER -> r.value.name

\* The body is what the resource has to look like now, the order of hosts and
\* the number of their port aside.
IsNow(r, body) ==
    CASE r.type = "endpoint" /\ r.generateFromEndpointSlices # None ->
            {[ip |-> h.ip, health |-> h.health] : h \in Range(body)} =
               UNION {{[ip |-> e.address, health |-> health(e)] :
                         e \in {x \in Range(slices[n].endpoints) : IsIP(x.address)}} :
                      n \in Selected(r.generateFromEndpointSlices.selector)}
      [] r.type = "secret" /\ r.generateFromTlsSecret # None ->
            LET data == secrets[r.generateFromTlsSecret].data
            IN  body = IF r.blueprint = "validationContext"
                       THEN [trustedCa |-> data["tls.crt"]]
                       ELSE [privateKey |-> data["tls.key"], certificateChain |-> data["tls.crt"]]
      [] r.type = "secret" /\ r.generateFromTlsSecret = None ->
            LET from == r.generateFromOpaqueSecret
            IN  body = [genericSecret |-> Data(secrets[from.name], from.key)]
      [] OTHER -> body = r.value.body

Served(r) ==
    /\ NameOf(r) \in DOMAIN cache[r.type]
    /\ IsNow(r, cache[r.type][NameOf(r)])

\* A later resource takes the name of resource i.
Shadowed(i) ==
    \E j \in DOMAIN resources :
        /\ j > i
        /\ resources[j].type = resources[i].type
        /\ NameOf(resources[j]) = NameOf(resources[i])

UpToDate ==
    /\ cache # NoSnapshot
    /\ \A i \in DOMAIN resources : Shadowed(i) \/ Served(resources[i])
    /\ \A t \in Types :
          DOMAIN cache[t] = {NameOf(resources[i]) :
                               i \in {k \in DOMAIN resources : resources[k].type = t}}

Quiet == resources # None /\ ~worker.busy /\ ~queued /\ ~retry /\ events = {}

(***************************************************************************)
(* Once its events are handled the snapshot is what the Secrets and the    *)
(* EndpointSlices of now give, although the reconcile that wrote it read   *)
(* them one at a time while they changed: SecretsEventHandler and          *)
(* EndpointSlicesEventHandler miss no relevant change, areDifferent        *)
(* overlooks no resource type, and nobody has to wait for the timer of 30  *)
(* seconds.                                                                *)
(***************************************************************************)
SnapshotFresh ==
    Quiet /\ faults \cap {"invalid", "panic"} = {} => UpToDate

\* Everything the revision refers to is there and of the right kind.
Available ==
    /\ resources # None
    /\ \A i \in DOMAIN resources :
          \A result \in Load(resources[i]) : result.failure = "none"

\* A revision that could not be loaded because a Secret or an EndpointSlice was
\* missing is served once it has appeared: transient failures are retried.
ServedWhenAvailable == <>[]Available => <>[](Available /\ UpToDate)

\* A secret of the deprecated envoyResources is fetched from the Secret of its
\* own name, as the comment on EnvoySecretResource.Name says.
SecretsKeepTheirNames ==
    spec # None /\ spec.envoyResources # None /\ resources # None =>
        \A i \in DOMAIN spec.envoyResources.secrets :
            \E j \in DOMAIN resources :
                resources[j].generateFromTlsSecret = spec.envoyResources.secrets[i].name
=============================================================================
