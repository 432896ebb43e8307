---------------------------- MODULE LoadingProofs ----------------------------
(***************************************************************************)
(* The webhook and the loader agree for every spec, Spec =>                *)
(* []AdmittedLoads, and no change of a Secret or an EndpointSlice is       *)
(* missed, wherever in a reconcile it falls, Spec => []SnapshotFresh.      *)
(***************************************************************************)
EXTENDS SnapshotLoading, ListProofs

\* The resources that the webhook admits.
Good == {r \in Resource : ValidResource(r)}

(***************************************************************************)
(* What an admitted resource can fail with: not with a StatusError, and    *)
(* not with a nil value.                                                   *)
(***************************************************************************)
LEMMA GoodLoads ==
    ASSUME NEW r \in Good, NEW result \in Load(r)
    PROVE  result.failure \in {"none", "transient"}
<1>1. CASE r.type = "secret"
  BY <1>1 DEF Good, ValidResource, Load, LoadTlsSecret, LoadOpaqueSecret, Failure, Success
<1>2. CASE r.type = "endpoint" /\ r.generateFromEndpointSlices # None
  BY <1>2 DEF Load, LoadEndpoints, Failure, Success
<1>3. CASE r.type = "endpoint" /\ r.generateFromEndpointSlices = None
  BY <1>3 DEF Good, ValidResource, Load, LoadValue, Failure, Success
<1>4. CASE r.type \notin {"secret", "endpoint"}
  BY <1>4 DEF Good, ValidResource, Load, LoadValue, Failure, Success
<1>. QED  BY <1>1, <1>2, <1>3, <1>4

\* The value of an admitted resource is JSON.
LEMMA GoodIsStorable ==
    ASSUME NEW rs \in Seq(Good)
    PROVE  Storable(rs)
<1>. SUFFICES ASSUME NEW i \in DOMAIN rs, rs[i].value # None
              PROVE  rs[i].value.format = "json"
  BY DEF Storable
<1>1. rs[i] \in Good  OBVIOUS
<1>. QED  BY <1>1 DEF Good, Resource, ValidResource, Unmarshals

\* The values that the webhook has looked at become admitted resources.
LEMMA ConvertedValues ==
    ASSUME NEW s \in EnvoyConfigSpec, s.envoyResources # None,
           ValidEnvoyResources(s), NEW t \in ValidatedTypes
    PROVE  ValueResources(s, t) \in Seq(Good)
<1>1. s.envoyResources \in EnvoyResources  BY DEF EnvoyConfigSpec
<1>2. s.envoyResources.values[t] \in Seq(Value)
  BY <1>1 DEF EnvoyResources, ValidatedTypes
<1>. DEFINE values == s.envoyResources.values[t]
<1>3. ASSUME NEW i \in DOMAIN values
      PROVE  ValueResources(s, t)[i] \in Good
  <2>1. values[i] \in Value /\ Unmarshals(values[i], s.serialization, t)
    BY <1>2, <1>3 DEF ValidEnvoyResources
  <2>. DEFINE v == IF s.serialization = "yaml" THEN YAMLToJSON(values[i]) ELSE values[i]
  <2>2. v \in Value /\ v.format = "json" /\ v.type = t
    BY <2>1 DEF Value, YAMLToJSON, Unmarshals, IsYAML
  <2>3. v # None  BY <2>2, LoadingAssumption
  <2>4. ValueResources(s, t)[i] = [NoResource EXCEPT !.type = t, !.value = v]
    BY <1>3 DEF ValueResources
  <2>. HIDE DEF v
  <2>5. ValueResources(s, t)[i] \in Resource
    BY <2>2, <2>4 DEF NoResource, Resource, ValidatedTypes
  <2>6. ValidResource(ValueResources(s, t)[i])
    BY <2>2, <2>3, <2>4 DEF NoResource, ValidResource, Unmarshals, ValidatedTypes
  <2>. QED  BY <2>5, <2>6 DEF Good
<1>4. /\ DOMAIN values = 1..Len(values)
      /\ Len(values) \in Nat
  BY <1>2
<1>5. ValueResources(s, t) = [i \in 1..Len(values) |-> ValueResources(s, t)[i]]
  BY <1>4 DEF ValueResources
<1>6. \A i \in 1..Len(values) : ValueResources(s, t)[i] \in Good  BY <1>3, <1>4
<1>. HIDE DEF values
<1>. QED  BY <1>4, <1>5, <1>6, SequenceOver

\* So do the secrets.
LEMMA ConvertedSecrets ==
    ASSUME NEW s \in EnvoyConfigSpec, s.envoyResources # None
    PROVE  SecretResources(s) \in Seq(Good)
<1>1. s.envoyResources \in EnvoyResources  BY DEF EnvoyConfigSpec
<1>. DEFINE named == s.envoyResources.secrets
<1>. DEFINE S == [name: SecretNames, ref: [name: SecretNames \cup {""},
                                          namespace: {"", "own", "other"}] \cup {None}]
<1>2. named \in Seq(S) /\ \A x \in S : x.name \in SecretNames
  BY <1>1 DEF EnvoyResources
<1>. HIDE DEF S
<1>3. ASSUME NEW i \in DOMAIN named
      PROVE  SecretResources(s)[i] \in Good
  <2>1. Len(named) \in DOMAIN named
    BY <1>2, <1>3
  <2>2. named[Len(named)].name \in SecretNames  BY <1>2, <2>1
  <2>3. SecretResources(s)[i] =
            [NoResource EXCEPT !.type = "secret",
                               !.generateFromTlsSecret = named[Len(named)].name,
                               !.blueprint = "tlsCertificate"]
    BY <1>3 DEF SecretResources
  <2>4. SecretResources(s)[i] \in Resource
    BY <2>2, <2>3 DEF NoResource, Resource, Types
  <2>5. ValidResource(SecretResources(s)[i])
    BY <2>2, <2>3, LoadingAssumption DEF NoResource, ValidResource
  <2>. QED  BY <2>4, <2>5 DEF Good
<1>4. DOMAIN named = 1..Len(named) /\ Len(named) \in Nat  BY <1>2
<1>5. SecretResources(s) = [i \in 1..Len(named) |-> SecretResources(s)[i]]
  BY <1>4 DEF SecretResources
<1>6. \A i \in 1..Len(named) : SecretResources(s)[i] \in Good  BY <1>3, <1>4
<1>. HIDE DEF named
<1>. QED  BY <1>4, <1>5, <1>6, SequenceOver

\* And all of them together.
LEMMA ConvertedIsGood ==
    ASSUME NEW s \in EnvoyConfigSpec, s.envoyResources # None, Validate(s),
           s.envoyResources.values["extensionConfig"] = <<>>
    PROVE  ConvertedResources(s) \in Seq(Good)
<1>1. ValidEnvoyResources(s)  BY DEF Validate
<1>2. \A t \in ValidatedTypes : ValueResources(s, t) \in Seq(Good)
  BY <1>1, ConvertedValues
<1>3. {"endpoint", "cluster", "route", "scopedRoute", "listener", "runtime"}
          \subseteq ValidatedTypes
  BY DEF ValidatedTypes, Types
<1>4. ValueResources(s, "extensionConfig") = <<>>
  BY DEF ValueResources
<1>5. SecretResources(s) \in Seq(Good)  BY ConvertedSecrets
<1>6. \A a, b \in Seq(Good) : a \o b \in Seq(Good)  OBVIOUS
<1>7. <<>> \in Seq(Good)  OBVIOUS
<1>. QED  BY <1>2, <1>3, <1>4, <1>5, <1>6, <1>7 DEF ConvertedResources

\* The webhook has made sure that YAML values are YAML.
LEMMA AdmittedConverts ==
    ASSUME NEW s \in EnvoyConfigSpec, s.envoyResources # None, Validate(s),
           s.envoyResources.values["extensionConfig"] = <<>>
    PROVE  Converts(s)
<1>. SUFFICES ASSUME NEW t \in Types \ {"secret"},
                     NEW i \in DOMAIN s.envoyResources.values[t],
                     s.serialization = "yaml"
              PROVE  IsYAML(s.envoyResources.values[t][i])
  BY DEF Converts
<1>1. t # "extensionConfig"  OBVIOUS
<1>. QED  BY <1>1 DEF Validate, ValidEnvoyResources, ValidatedTypes, Unmarshals, IsYAML

(***************************************************************************)
(* The inductive invariant: what is stored was admitted, and unless it has *)
(* deprecated extensionConfigs, what is published would be admitted too.   *)
(***************************************************************************)
LoadingInv ==
    /\ spec # None => spec \in EnvoyConfigSpec /\ Validate(spec)
    /\ spec = None => resources = None /\ faults = {}
    /\ (queued \/ retry \/ timer \/ worker.busy) => resources # None \/ Unvalidated
    /\ resources # None => Unvalidated \/ resources \in Seq(Good)
    /\ AdmittedLoads

\* The initial states satisfy it.
LEMMA LoadingInit == Init => LoadingInv
BY DEF Init, LoadingInv, AdmittedLoads, IdleWorker

\* What is published for an admitted spec.
LEMMA PublishedIsGood ==
    ASSUME LoadingInv, spec # None, ~Unvalidated
    PROVE  /\ CanPublish
           /\ (IF spec.envoyResources # None THEN ConvertedResources(spec)
                                             ELSE spec.resources) \in Seq(Good)
<1>1. spec \in EnvoyConfigSpec /\ Validate(spec)  BY DEF LoadingInv
<1>2. CASE spec.envoyResources # None
  <2>1. spec.envoyResources.values["extensionConfig"] = <<>>
    BY <1>2 DEF Unvalidated
  <2>2. ConvertedResources(spec) \in Seq(Good) /\ Converts(spec)
    BY <1>1, <1>2, <2>1, ConvertedIsGood, AdmittedConverts
  <2>. QED  BY <1>2, <2>2, GoodIsStorable DEF CanPublish
<1>3. CASE spec.envoyResources = None
  <2>1. spec.resources # None /\ \A i \in DOMAIN spec.resources : ValidResource(spec.resources[i])
    BY <1>1, <1>3 DEF Validate
  <2>2. spec.resources \in Seq(Resource)  BY <1>1, <2>1 DEF EnvoyConfigSpec
  <2>3. spec.resources \in Seq(Good)
    <3>1. \A i \in 1..Len(spec.resources) : spec.resources[i] \in Good
      BY <2>1, <2>2 DEF Good
    <3>2. spec.resources = [i \in 1..Len(spec.resources) |-> spec.resources[i]]
      BY <2>2
    <3>3. Len(spec.resources) \in Nat  BY <2>2
    <3>. QED  BY <3>1, <3>2, <3>3, SequenceOver
  <2>. QED  BY <1>3, <2>3, GoodIsStorable DEF CanPublish
<1>. QED  BY <1>2, <1>3

\* Every step preserves it.
LEMMA LoadingStep == LoadingInv /\ [Next]_vars => LoadingInv'
<1>. SUFFICES ASSUME LoadingInv, [Next]_vars PROVE LoadingInv'  OBVIOUS
<1>1. ASSUME NEW s \in Specs, Submit(s) PROVE LoadingInv'
  <2>1. s \in EnvoyConfigSpec /\ Validate(s)
    BY <1>1, LoadingAssumption DEF Submit
  <2>2. resources' = None /\ faults' = {} /\ spec' = s
    BY <1>1 DEF Submit, LoadingInv
  <2>3. ~(queued \/ retry \/ timer \/ worker.busy)'
    BY <1>1 DEF Submit, LoadingInv, Unvalidated
  <2>4. AdmittedLoads'  BY <2>2 DEF AdmittedLoads
  <2>. QED  BY <2>1, <2>2, <2>3, <2>4 DEF LoadingInv
<1>2. CASE Publish
  <2>1. UNCHANGED Unvalidated  BY <1>2 DEF Publish, Unvalidated
  <2>2. Unvalidated \/ resources' \in Seq(Good)
    BY <1>2, PublishedIsGood DEF Publish
  <2>3. resources' # None \/ Unvalidated
    <3>1. None \notin Seq(Good)
      BY LoadingAssumption DEF Good
    <3>. QED  BY <2>2, <3>1
  <2>. QED  BY <1>2, <2>1, <2>2, <2>3 DEF Publish, LoadingInv, AdmittedLoads
<1>3. CASE FailToPublish
  <2>1. UNCHANGED Unvalidated  BY <1>3 DEF FailToPublish, Unvalidated
  <2>2. Unvalidated  BY <1>3, PublishedIsGood DEF FailToPublish
  <2>. QED  BY <1>3, <2>1, <2>2 DEF FailToPublish, LoadingInv, AdmittedLoads
<1>4. CASE LoadResource
  <2>1. UNCHANGED Unvalidated  BY <1>4 DEF LoadResource, Unvalidated
  <2>2. resources # None \/ Unvalidated  BY <1>4 DEF LoadResource, LoadingInv
  <2>3. CASE Unvalidated
    <3>1. UNCHANGED <<spec, resources>> /\ spec # None
      BY <1>4, <2>3 DEF LoadResource, Unvalidated
    <3>. QED  BY <2>1, <2>3, <3>1 DEF LoadingInv, AdmittedLoads
  <2>4. CASE ~Unvalidated
    <3>1. resources[worker.idx] \in Good
      BY <1>4, <2>2, <2>4 DEF LoadResource, LoadingInv
    <3>2. \A result \in Load(resources[worker.idx]) : result.failure \in {"none", "transient"}
      BY <3>1, GoodLoads
    <3>3. faults' \subseteq faults \cup {"transient"}
      BY <1>4, <3>2 DEF LoadResource
    <3>4. AdmittedLoads'
      BY <2>1, <2>4, <3>3 DEF LoadingInv, AdmittedLoads
    <3>. QED  BY <1>4, <2>1, <2>2, <2>4, <3>4 DEF LoadResource, LoadingInv
  <2>. QED  BY <2>3, <2>4
<1>5. ASSUME UNCHANGED <<spec, resources, faults>>,
             (queued \/ retry \/ timer \/ worker.busy)' =>
                 (queued \/ retry \/ timer \/ worker.busy \/ resources # None)
      PROVE  LoadingInv'
  <2>1. UNCHANGED Unvalidated  BY <1>5 DEF Unvalidated
  <2>. QED  BY <1>5, <2>1 DEF LoadingInv, AdmittedLoads
<1>6. ASSUME NEW n \in SecretNames, NEW v \in SecretValues \cup {None}, ChangeSecret(n, v)
      PROVE  LoadingInv'
  BY <1>5, <1>6 DEF ChangeSecret
<1>7. ASSUME NEW n \in SliceNames, NEW v \in SliceValues \cup {None}, ChangeSlice(n, v)
      PROVE  LoadingInv'
  BY <1>5, <1>7 DEF ChangeSlice
<1>8. CASE Restart  BY <1>5, <1>8 DEF Restart
<1>9. ASSUME NEW e \in events, HandleEvent(e) PROVE LoadingInv'
  BY <1>5, <1>9 DEF HandleEvent, Relevant
<1>10. CASE Requeue  BY <1>5, <1>10 DEF Requeue
<1>11. CASE StartReconcile  BY <1>5, <1>11 DEF StartReconcile
<1>12. CASE WriteSnapshot  BY <1>5, <1>12 DEF WriteSnapshot, IdleWorker
<1>13. CASE UNCHANGED vars  BY <1>5, <1>13 DEF vars
<1>. QED
  BY <1>1, <1>2, <1>3, <1>4, <1>6, <1>7, <1>8, <1>9, <1>10, <1>11, <1>12, <1>13
     DEF Next, Environment, Controllers

(***************************************************************************)
(* No spec that the webhook admits taints its revision, stops the process  *)
(* or stays unpublished, whatever the specs, the Secrets and the           *)
(* EndpointSlices are: ValidateResources and ValidateEnvoyResources cover  *)
(* every way in which GenerateSnapshot returns a StatusError.              *)
(***************************************************************************)
THEOREM AdmittedConfigsLoad == Spec => []AdmittedLoads
<1>1. LoadingInv => AdmittedLoads  BY DEF LoadingInv
<1>. QED  BY <1>1, LoadingInit, LoadingStep, PTL DEF Spec

-----------------------------------------------------------------------------
(***************************************************************************)
(* The snapshot is fresh: Spec => []SnapshotFresh.                         *)
(***************************************************************************)

\* The Secret that a resource is made from is there, and of the right type.
Sourced(r) ==
    r.type = "secret" =>
        LET from == IF r.generateFromTlsSecret # None THEN r.generateFromTlsSecret
                                                     ELSE r.generateFromOpaqueSecret.name
        IN  /\ r.generateFromTlsSecret # None \/ r.generateFromOpaqueSecret # None
            /\ secrets[from] # None
            /\ secrets[from].type = IF r.generateFromTlsSecret # None THEN "tls" ELSE "opaque"

\* A change that matters to the resources loaded so far will be noticed: it
\* makes the revision wait in the queue, or for its event or its retry.
Noticed ==
    \/ queued \/ retry
    \/ \E e \in events : Relevant(e)
    \/ faults \cap {"invalid", "panic"} # {}

\* A later one of the first n resources takes the place of resource i.
ShadowedUpTo(n, i, name) ==
    \E j \in 1..n : j > i /\ resources[j].type = resources[i].type /\ NameOf(resources[j]) = name

\* Resource i of the first n is in the lists, as it has to look like now,
\* and what follows it there comes from a later resource.
LoadedAs(n, i, list) ==
    \E k \in DOMAIN list :
        /\ list[k].name = NameOf(resources[i])
        /\ \A l \in DOMAIN list : l > k => ShadowedUpTo(n, i, list[l].name)
        /\ IsNow(resources[i], list[k].body)

\* The lists hold the first n resources and nothing else.
LoadedUpTo(n, lists) ==
    /\ \A i \in 1..n : Sourced(resources[i]) /\ LoadedAs(n, i, lists[resources[i].type])
    /\ \A t \in Types : \A k \in DOMAIN lists[t] :
          \E i \in 1..n : resources[i].type = t /\ NameOf(resources[i]) = lists[t][k].name

FreshTypes ==
    /\ resources # None => resources \in Seq(Resource)
    /\ secrets \in [SecretNames -> SecretValues \cup {None}]
    /\ slices \in [SliceNames -> SliceValues \cup {None}]
    /\ worker.busy \in BOOLEAN
    /\ worker.idx \in Nat \ {0}
    /\ worker = [busy |-> worker.busy, idx |-> worker.idx, loaded |-> worker.loaded]
    /\ worker.loaded = [t \in Types |-> worker.loaded[t]]
    /\ \A t \in Types : worker.loaded[t] \in Seq(Range(worker.loaded[t]))
    /\ queued \/ retry \/ timer \/ worker.busy => resources # None
    /\ worker.busy => worker.idx <= Len(resources) + 1

(***************************************************************************)
(* The inductive invariant: as long as no change waits to be noticed, what *)
(* the worker has loaded, and what is in the cache when it is idle, is     *)
(* what the cluster has now.                                               *)
(***************************************************************************)
FreshInv ==
    /\ FreshTypes
    /\ resources # None /\ ~Noticed =>
          IF worker.busy
          THEN LoadedUpTo(worker.idx - 1, worker.loaded)
          ELSE UpToDate /\ \A i \in DOMAIN resources : Sourced(resources[i])

\* The hosts that are found are those of the selected slices, whatever the
\* order in which the informer lists them.
LEMMA HostsOfSelected ==
    ASSUME NEW selector, NEW port,
           NEW list \in Bijection(1..Cardinality(Selected(selector)), Selected(selector))
    PROVE  {[ip |-> h.ip, health |-> h.health] : h \in Range(UpstreamHosts(list, port))} =
               UNION {{[ip |-> e.address, health |-> health(e)] :
                         e \in {x \in Range(slices[n].endpoints) : IsIP(x.address)}} :
                      n \in Selected(selector)}
<1>. DEFINE hosts == UpstreamHosts(list, port)
            found == {[ip |-> h.ip, health |-> h.health] : h \in Range(hosts)}
            of(n) == {[ip |-> e.address, health |-> health(e)] :
                        e \in {x \in Range(slices[n].endpoints) : IsIP(x.address)}}
<1>1. IsFiniteSet(Selected(selector))
  BY LoadingAssumption, FS_Subset DEF Selected
<1>2. /\ list \in Seq(Selected(selector))
      /\ \A n \in Selected(selector) : \E i \in DOMAIN list : list[i] = n
  BY <1>1, OrdersOfSet
<1>3. ASSUME NEW n \in Selected(selector), NEW x \in of(n) PROVE x \in found
  <2>1. PICK k \in DOMAIN slices[n].endpoints :
            LET e == slices[n].endpoints[k]
            IN  IsIP(e.address) /\ x = [ip |-> e.address, health |-> health(e)]
    BY <1>3 DEF Range
  <2>2. PICK i \in DOMAIN list : list[i] = n  BY <1>2
  <2>3. <<i, k>> \in Places(list)  BY <2>1, <2>2 DEF Places
  <2>4. /\ hosts[<<i, k>>] \in Range(hosts)
        /\ hosts[<<i, k>>].ip = slices[n].endpoints[k].address
        /\ hosts[<<i, k>>].health = health(slices[n].endpoints[k])
    BY <2>2, <2>3 DEF UpstreamHosts, Range
  <2>. QED  BY <2>1, <2>4
<1>4. ASSUME NEW x \in found PROVE \E n \in Selected(selector) : x \in of(n)
  <2>1. PICK p \in Places(list) : x = [ip |-> hosts[p].ip, health |-> hosts[p].health]
    BY <1>4 DEF UpstreamHosts, Range
  <2>2. PICK i \in DOMAIN list : \E j \in DOMAIN slices[list[i]].endpoints :
            p = <<i, j>> /\ IsIP(slices[list[i]].endpoints[j].address)
    BY <2>1 DEF Places
  <2>3. PICK j \in DOMAIN slices[list[i]].endpoints :
            p = <<i, j>> /\ IsIP(slices[list[i]].endpoints[j].address)
    BY <2>2
  <2>4. list[i] \in Selected(selector)  BY <1>2
  <2>5. /\ slices[list[i]].endpoints[j] \in Range(slices[list[i]].endpoints)
        /\ hosts[p].ip = slices[list[i]].endpoints[j].address
        /\ hosts[p].health = health(slices[list[i]].endpoints[j])
    BY <2>1, <2>3 DEF UpstreamHosts, Range
  <2>. QED  BY <2>1, <2>3, <2>4, <2>5
<1>5. found = UNION {of(n) : n \in Selected(selector)}
  <2>. HIDE DEF found, of
  <2>. QED  BY <1>3, <1>4
<1>. QED  BY <1>5

\* A resource that is loaded is loaded as it has to look like now.
LEMMA LoadedIsNow ==
    ASSUME FreshTypes, NEW r \in Resource, NEW result \in Load(r), result.failure = "none"
    PROVE  result.name = NameOf(r) /\ IsNow(r, result.body) /\ Sourced(r)
<1>1. CASE r.type = "endpoint" /\ r.generateFromEndpointSlices # None
  <2>. DEFINE from == r.generateFromEndpointSlices
  <2>1. result \in LoadEndpoints(r)  BY <1>1 DEF Load
  <2>2. PICK list \in Bijection(1..Cardinality(Selected(from.selector)), Selected(from.selector)) :
            result = IF list = <<>> \/ ~CanList(list, from.targetPort)
                     THEN Failure("transient")
                     ELSE Success(from.clusterName, UpstreamHosts(list, from.targetPort))
    BY <2>1 DEF LoadEndpoints
  <2>3. result = Success(from.clusterName, UpstreamHosts(list, from.targetPort))
    BY <2>2 DEF Failure
  <2>4. /\ result.name = from.clusterName
        /\ result.body = UpstreamHosts(list, from.targetPort)
    BY <2>3 DEF Success
  <2>5. IsNow(r, result.body)
    <3>1. {[ip |-> h.ip, health |-> h.health] : h \in Range(result.body)} =
               UNION {{[ip |-> e.address, health |-> health(e)] :
                         e \in {x \in Range(slices[n].endpoints) : IsIP(x.address)}} :
                      n \in Selected(from.selector)}
      BY <2>4, HostsOfSelected
    <3>. QED  BY <1>1, <3>1 DEF IsNow
  <2>. QED  BY <1>1, <2>4, <2>5 DEF NameOf, Sourced
<1>2. CASE r.type = "secret" /\ r.generateFromTlsSecret # None
  <2>. DEFINE n == r.generateFromTlsSecret
  <2>1. result = LoadTlsSecret(r)  BY <1>2 DEF Load
  <2>2. secrets[n] # None /\ secrets[n].type = "tls"
    BY <2>1 DEF LoadTlsSecret, Failure
  <2>3. n \in SecretNames  BY <1>2 DEF Resource
  <2>4. {"tls.crt", "tls.key"} \subseteq DOMAIN secrets[n].data
    BY <2>2, <2>3, LoadingAssumption DEF FreshTypes
  <2>5. /\ Data(secrets[n], "tls.crt") = secrets[n].data["tls.crt"]
        /\ Data(secrets[n], "tls.key") = secrets[n].data["tls.key"]
    BY <2>4 DEF Data
  <2>6. (GetBlueprint(r) = "validationContext") <=> (r.blueprint = "validationContext")
    BY LoadingAssumption DEF GetBlueprint
  <2>7. result.name = n /\ IsNow(r, result.body)
    BY <1>2, <2>1, <2>2, <2>5, <2>6 DEF LoadTlsSecret, Success, IsNow
  <2>. QED  BY <1>2, <2>2, <2>7 DEF NameOf, Sourced
<1>3. CASE r.type = "secret" /\ r.generateFromTlsSecret = None
  <2>1. result = LoadOpaqueSecret(r) /\ r.generateFromOpaqueSecret # None
    BY <1>3 DEF Load, Failure
  <2>. QED  BY <1>3, <2>1 DEF LoadOpaqueSecret, Success, Failure, IsNow, NameOf, Sourced
<1>4. CASE /\ ~(r.type = "endpoint" /\ r.generateFromEndpointSlices # None)
           /\ r.type # "secret"
  <2>1. result = LoadValue(r)  BY <1>4 DEF Load
  <2>. QED  BY <1>4, <2>1 DEF LoadValue, Success, Failure, IsNow, NameOf, Sourced
<1>. QED  BY <1>1, <1>2, <1>3, <1>4

\* Loading one more resource keeps what the lists hold.
LEMMA LoadedOneMore ==
    ASSUME resources \in Seq(Resource), NEW n \in 1..Len(resources), NEW lists, NEW entry,
           lists = [t \in Types |-> lists[t]],
           \A t \in Types : lists[t] \in Seq(Range(lists[t])),
           LoadedUpTo(n - 1, lists),
           entry.name = NameOf(resources[n]), IsNow(resources[n], entry.body),
           Sourced(resources[n])
    PROVE  LoadedUpTo(n, [lists EXCEPT ![resources[n].type] = Append(@, entry)])
<1>. DEFINE T == resources[n].type
            after == [lists EXCEPT ![T] = Append(@, entry)]
            end == Len(lists[T]) + 1
<1>1. n \in Nat /\ n \in DOMAIN resources /\ \A i \in 1..n : resources[i] \in Resource
  OBVIOUS
<1>2. \A i \in 1..n : resources[i].type \in Types  BY <1>1 DEF Resource
<1>3. T \in Types  BY <1>1, <1>2
<1>4. lists[T] \in Seq(Range(lists[T]))  BY <1>3
<1>5. /\ after[T] = Append(lists[T], entry)
      /\ \A t \in Types \ {T} : after[t] = lists[t]
  BY <1>3
<1>6. /\ end \in DOMAIN after[T] /\ after[T][end] = entry
      /\ \A k \in DOMAIN lists[T] : k \in DOMAIN after[T] /\ after[T][k] = lists[T][k]
      /\ \A k \in DOMAIN after[T] : k = end \/ k \in DOMAIN lists[T]
      /\ \A k \in DOMAIN after[T] : ~(k > end)
  <2>. DEFINE old == lists[T]
              new == after[T]
  <2>1. old \in Seq(Range(old)) /\ new = Append(old, entry)  BY <1>4, <1>5
  <2>. HIDE DEF old, new
  <2>2. /\ Len(old) + 1 \in DOMAIN new /\ new[Len(old) + 1] = entry
        /\ \A k \in DOMAIN old : k \in DOMAIN new /\ new[k] = old[k]
        /\ \A k \in DOMAIN new : k = Len(old) + 1 \/ k \in DOMAIN old
        /\ \A k \in DOMAIN new : ~(k > Len(old) + 1)
    BY <2>1
  <2>. QED  BY <2>2 DEF old, new
<1>7. ASSUME NEW i, NEW name, ShadowedUpTo(n - 1, i, name) PROVE ShadowedUpTo(n, i, name)
  BY <1>7, <1>1 DEF ShadowedUpTo
<1>. HIDE DEF T, after, end
<1>8. ASSUME NEW i \in 1..n PROVE Sourced(resources[i]) /\ LoadedAs(n, i, after[resources[i].type])
  <2>1. CASE i = n
    BY <2>1, <1>6 DEF LoadedAs, T
  <2>2. CASE i # n
    <3>1. i \in 1..(n - 1)  BY <2>2, <1>1
    <3>2. Sourced(resources[i]) /\ LoadedAs(n - 1, i, lists[resources[i].type])
      BY <3>1 DEF LoadedUpTo
    <3>3. CASE resources[i].type # T
      <4>1. after[resources[i].type] = lists[resources[i].type]  BY <1>2, <1>5, <3>3
      <4>. QED  BY <1>7, <3>2, <4>1 DEF LoadedAs
    <3>4. CASE resources[i].type = T
      <4>1. PICK k \in DOMAIN lists[T] :
                /\ lists[T][k].name = NameOf(resources[i])
                /\ \A l \in DOMAIN lists[T] : l > k => ShadowedUpTo(n - 1, i, lists[T][l].name)
                /\ IsNow(resources[i], lists[T][k].body)
        BY <3>2, <3>4 DEF LoadedAs
      <4>2. k \in DOMAIN after[T] /\ after[T][k] = lists[T][k]
        BY <1>6, <4>1
      <4>3. ASSUME NEW l \in DOMAIN after[T], l > k
            PROVE  ShadowedUpTo(n, i, after[T][l].name)
        <5>1. CASE l = end
          BY <5>1, <1>1, <1>6, <3>1, <3>4 DEF ShadowedUpTo, T
        <5>2. CASE l # end
          <6>1. l \in DOMAIN lists[T]  BY <5>2, <1>6
          <6>. QED  BY <6>1, <1>6, <1>7, <4>1, <4>3
        <5>. QED  BY <5>1, <5>2
      <4>. QED  BY <3>2, <3>4, <4>1, <4>2, <4>3 DEF LoadedAs
    <3>. QED  BY <3>3, <3>4
  <2>. QED  BY <2>1, <2>2
<1>9. ASSUME NEW t \in Types, NEW k \in DOMAIN after[t]
      PROVE  \E i \in 1..n : resources[i].type = t /\ NameOf(resources[i]) = after[t][k].name
  <2>1. CASE t = T /\ k = end
    BY <2>1, <1>1, <1>6 DEF T
  <2>2. CASE ~(t = T /\ k = end)
    <3>1. k \in DOMAIN lists[t] /\ after[t][k] = lists[t][k]
      BY <2>2, <1>5, <1>6, <1>9
    <3>2. PICK i \in 1..(n - 1) : resources[i].type = t /\ NameOf(resources[i]) = lists[t][k].name
      BY <3>1 DEF LoadedUpTo
    <3>3. i \in 1..n  BY <1>1, <3>2
    <3>. QED  BY <3>1, <3>2, <3>3
  <2>. QED  BY <2>1, <2>2
<1>10. LoadedUpTo(n, after)  BY <1>8, <1>9 DEF LoadedUpTo
<1>. QED  BY <1>10 DEF after, T

\* Of the entries of a name the last one stays.
LEMMA LastStays ==
    ASSUME NEW S, NEW list \in Seq(S), NEW k \in DOMAIN list
    PROVE  /\ list[k].name \in DOMAIN SetResources(list)
           /\ \E l \in DOMAIN list : /\ l >= k
                                     /\ list[l].name = list[k].name
                                     /\ SetResources(list)[list[k].name] = list[l].body
<1>. DEFINE same == {i \in DOMAIN list : list[i].name = list[k].name}
<1>1. Len(list) \in Nat /\ DOMAIN list = 1..Len(list)  OBVIOUS
<1>2. same \in SUBSET (1..Len(list)) /\ k \in same  BY <1>1
<1>3. Max(same) \in same /\ k <= Max(same)
  <2>. HIDE DEF same
  <2>. QED  BY <1>1, <1>2, MaxOfIndices
<1>4. /\ list[k].name \in DOMAIN SetResources(list)
      /\ SetResources(list)[list[k].name] = list[Max(same)].body
  BY DEF SetResources
<1>. QED  BY <1>1, <1>3, <1>4

\* The snapshot of all resources is up to date once it is written.
LEMMA SnapshotOfLoaded ==
    ASSUME resources' \in Seq(Resource), NEW lists,
           \A t \in Types : lists[t] \in Seq(Range(lists[t])),
           LoadedUpTo(Len(resources), lists)',
           \A t \in Types : cache'[t] = SetResources(lists[t]), (cache # NoSnapshot)'
    PROVE  UpToDate' /\ (\A i \in DOMAIN resources : Sourced(resources[i]))'
<1>1. /\ DOMAIN resources' = 1..Len(resources')
      /\ \A i \in DOMAIN resources' : i \in Nat /\ resources'[i].type \in Types
  <2>1. /\ DOMAIN resources' = 1..Len(resources')
        /\ \A i \in DOMAIN resources' : resources'[i] \in Resource
    OBVIOUS
  <2>. QED  BY <2>1 DEF Resource
<1>2. ASSUME NEW i \in DOMAIN resources', ~Shadowed(i)' PROVE Served(resources[i])'
  <2>1. PICK r : r = resources'[i]  OBVIOUS
  <2>. DEFINE list == lists[r.type]
  <2>2. list \in Seq(Range(list))  BY <1>1, <2>1
  <2>3. PICK k \in DOMAIN list :
            /\ list[k].name = NameOf(r)
            /\ \A l \in DOMAIN list : l > k => ShadowedUpTo(Len(resources), i, list[l].name)'
            /\ IsNow(r, list[k].body)'
    BY <1>1, <2>1 DEF LoadedUpTo, LoadedAs
  <2>4. PICK l \in DOMAIN list : /\ l >= k
                                 /\ list[l].name = list[k].name
                                 /\ SetResources(list)[list[k].name] = list[l].body
    <3>. HIDE DEF list
    <3>. QED  BY <2>2, <2>3, LastStays
  <2>5. l = k
    <3>1. ~(l > k)  BY <1>1, <1>2, <2>1, <2>3, <2>4 DEF Shadowed, ShadowedUpTo
    <3>2. l \in Nat /\ k \in Nat  BY <2>2
    <3>. QED  BY <2>4, <3>1, <3>2
  <2>6. list[k].name \in DOMAIN SetResources(list)
    <3>. HIDE DEF list
    <3>. QED  BY <2>2, <2>3, LastStays
  <2>7. cache'[r.type] = SetResources(list)  BY <1>1, <2>1
  <2>. HIDE DEF list
  <2>. QED  BY <2>1, <2>3, <2>4, <2>5, <2>6, <2>7 DEF Served
<1>3. ASSUME NEW t \in Types
      PROVE  (DOMAIN cache[t] = {NameOf(resources[i]) :
                                   i \in {k \in DOMAIN resources : resources[k].type = t}})'
  <2>1. DOMAIN cache'[t] = {lists[t][k].name : k \in DOMAIN lists[t]}
    BY DEF SetResources
  <2>2. ASSUME NEW k \in DOMAIN lists[t]
        PROVE  \E i \in DOMAIN resources' : /\ resources'[i].type = t
                                            /\ NameOf(resources'[i]) = lists[t][k].name
    <3>1. \E i \in 1..Len(resources') : /\ resources'[i].type = t
                                        /\ NameOf(resources'[i]) = lists[t][k].name
      BY DEF LoadedUpTo
    <3>. QED  BY <1>1, <3>1
  <2>3. ASSUME NEW i \in DOMAIN resources', resources'[i].type = t
        PROVE  \E k \in DOMAIN lists[t] : lists[t][k].name = NameOf(resources'[i])
    BY <1>1, <2>3 DEF LoadedUpTo, LoadedAs
  <2>. DEFINE names == {NameOf(resources'[i]) :
                          i \in {k \in DOMAIN resources' : resources'[k].type = t}}
  <2>4. ASSUME NEW x \in DOMAIN cache'[t] PROVE x \in names  BY <2>1, <2>2, <2>4
  <2>5. ASSUME NEW x \in names PROVE x \in DOMAIN cache'[t]  BY <2>1, <2>3, <2>5
  <2>. QED  BY <2>4, <2>5
<1>4. (\A i \in DOMAIN resources : Sourced(resources[i]))'  BY <1>1 DEF LoadedUpTo
<1>. QED  BY <1>2, <1>3, <1>4 DEF UpToDate

\* A Secret changes and the revision gets no event of it: what its resources
\* are made from stays.
LEMMA SecretOfAnother ==
    ASSUME FreshTypes, resources # None,
           NEW n \in SecretNames, NEW v \in SecretValues \cup {None}, ChangeSecret(n, v),
           ~Noticed',
           NEW i \in DOMAIN resources, NEW r \in Resource, r = resources[i], Sourced(r)
    PROVE  Sourced(r)' /\ \A body : IsNow(r, body) => IsNow(r, body)'
<1>1. PICK e : e = [kind |-> "secret", key |-> n,
                    type |-> IF v # None THEN v.type ELSE secrets[n].type]
  OBVIOUS
<1>. DEFINE from == IF r.generateFromTlsSecret # None THEN r.generateFromTlsSecret
                                                      ELSE r.generateFromOpaqueSecret.name
<1>2. /\ resources' = resources /\ slices' = slices
      /\ secrets' = [secrets EXCEPT ![n] = v]
      /\ e \in events'
  BY <1>1 DEF ChangeSecret
<1>3. ASSUME r.type = "secret" PROVE from # n
  <2>. SUFFICES ASSUME from = n PROVE FALSE  OBVIOUS
  <2>1. e.type \in {"tls", "opaque"}
    BY <1>1, <1>3 DEF Sourced, ChangeSecret
  <2>2. \/ r.generateFromTlsSecret = e.key
        \/ r.generateFromOpaqueSecret # None /\ r.generateFromOpaqueSecret.name = e.key
    BY <1>1, <1>3 DEF Sourced
  <2>3. SecretsEventHandler(e)'
    BY <1>2, <1>3, <2>1, <2>2 DEF SecretsEventHandler
  <2>4. Relevant(e)'  BY <1>1, <1>2, <2>3 DEF Relevant
  <2>. QED  BY <1>2, <2>4 DEF Noticed
<1>4. ASSUME r.type = "secret" PROVE secrets'[from] = secrets[from]
  BY <1>2, <1>3, <1>4 DEF FreshTypes
<1>5. Sourced(r)'  BY <1>4 DEF Sourced
<1>6. ASSUME NEW body, IsNow(r, body) PROVE IsNow(r, body)'
  <2>1. CASE r.type = "secret"
    BY <1>4, <1>6, <2>1 DEF IsNow
  <2>2. CASE r.type # "secret"
    BY <1>2, <1>6, <2>2 DEF IsNow, Selected
  <2>. QED  BY <2>1, <2>2
<1>. QED  BY <1>5, <1>6

\* The same for an EndpointSlice.
LEMMA SliceOfAnother ==
    ASSUME FreshTypes, resources # None,
           NEW n \in SliceNames, NEW v \in SliceValues \cup {None}, ChangeSlice(n, v),
           ~Noticed',
           NEW i \in DOMAIN resources, NEW r \in Resource, r = resources[i], Sourced(r)
    PROVE  Sourced(r)' /\ \A body : IsNow(r, body) => IsNow(r, body)'
<1>1. /\ resources' = resources /\ secrets' = secrets
      /\ slices' = [slices EXCEPT ![n] = v]
      /\ \A s \in {slices[n], v} \ {None} : [kind |-> "slice", key |-> s.label, type |-> ""] \in events'
  BY DEF ChangeSlice
<1>2. Sourced(r)'  BY <1>1 DEF Sourced
<1>3. CASE r.type = "endpoint" /\ r.generateFromEndpointSlices # None
  <2>. DEFINE selector == r.generateFromEndpointSlices.selector
  <2>1. ASSUME NEW s \in {slices[n], v} \ {None}, s.label = selector PROVE FALSE
    <3>1. PICK e : e = [kind |-> "slice", key |-> s.label, type |-> ""]  OBVIOUS
    <3>2. EndpointSlicesEventHandler(e)'
      BY <1>1, <1>3, <2>1, <3>1 DEF EndpointSlicesEventHandler
    <3>3. Relevant(e)'  BY <1>1, <3>1, <3>2 DEF Relevant
    <3>. QED  BY <1>1, <3>1, <3>3 DEF Noticed
  <2>2. n \notin Selected(selector) /\ n \notin Selected(selector)'
    BY <1>1, <2>1 DEF Selected, FreshTypes
  <2>3. \A m \in SliceNames \ {n} : slices'[m] = slices[m]
    BY <1>1 DEF FreshTypes
  <2>4. /\ Selected(selector)' = Selected(selector)
        /\ \A m \in Selected(selector) : slices'[m] = slices[m]
    BY <2>2, <2>3 DEF Selected
  <2>. QED  BY <1>2, <1>3, <2>4 DEF IsNow
<1>4. CASE ~(r.type = "endpoint" /\ r.generateFromEndpointSlices # None)
  <2>1. \A body : IsNow(r, body) => IsNow(r, body)'
    BY <1>1, <1>4 DEF IsNow
  <2>. QED  BY <1>2, <2>1
<1>. QED  BY <1>3, <1>4

\* What the resources of the revision are made from is the same after the step.
SourcesStay ==
    \A i \in DOMAIN resources : \A r \in Resource :
        r = resources[i] /\ Sourced(r) =>
            Sourced(r)' /\ \A body : IsNow(r, body) => IsNow(r, body)'

\* Then what was loaded is still right.
LEMMA LoadedStays ==
    ASSUME resources \in Seq(Resource), resources' = resources, SourcesStay,
           NEW n \in 0..Len(resources), NEW lists, LoadedUpTo(n, lists)
    PROVE  LoadedUpTo(n, lists)'
<1>1. \A j : NameOf(resources[j])' = NameOf(resources[j])  BY DEF NameOf
<1>2. ASSUME NEW i \in 1..n
      PROVE  (Sourced(resources[i]) /\ LoadedAs(n, i, lists[resources[i].type]))'
  <2>1. PICK r \in Resource : r = resources[i]  OBVIOUS
  <2>2. i \in DOMAIN resources  OBVIOUS
  <2>3. Sourced(r) /\ LoadedAs(n, i, lists[r.type])  BY <2>1 DEF LoadedUpTo
  <2>4. PICK k \in DOMAIN lists[r.type] :
            /\ lists[r.type][k].name = NameOf(resources[i])
            /\ \A l \in DOMAIN lists[r.type] : l > k => ShadowedUpTo(n, i, lists[r.type][l].name)
            /\ IsNow(r, lists[r.type][k].body)
    BY <2>1, <2>3 DEF LoadedAs
  <2>5. Sourced(r)' /\ IsNow(r, lists[r.type][k].body)'
    BY <2>1, <2>2, <2>3, <2>4 DEF SourcesStay
  <2>6. \A name : ShadowedUpTo(n, i, name) => ShadowedUpTo(n, i, name)'
    BY <1>1 DEF ShadowedUpTo
  <2>7. r = resources'[i]  BY <2>1
  <2>8. LoadedAs(n, i, lists[r.type])'
    BY <1>1, <2>4, <2>5, <2>6, <2>7 DEF LoadedAs
  <2>. QED  BY <2>5, <2>7, <2>8
<1>3. ASSUME NEW t \in Types, NEW k \in DOMAIN lists[t]
      PROVE  (\E i \in 1..n : resources[i].type = t /\ NameOf(resources[i]) = lists[t][k].name)'
  BY <1>1 DEF LoadedUpTo
<1>. QED  BY <1>2, <1>3 DEF LoadedUpTo

\* And so is the snapshot.
LEMMA SnapshotStays ==
    ASSUME resources \in Seq(Resource), UNCHANGED <<resources, cache>>, SourcesStay,
           UpToDate, \A i \in DOMAIN resources : Sourced(resources[i])
    PROVE  UpToDate' /\ (\A i \in DOMAIN resources : Sourced(resources[i]))'
<1>1. \A j : NameOf(resources[j])' = NameOf(resources[j])  BY DEF NameOf
<1>2. ASSUME NEW i \in DOMAIN resources
      PROVE  Sourced(resources[i])' /\ (Shadowed(i) \/ Served(resources[i]))'
  <2>1. PICK r \in Resource : r = resources[i]  OBVIOUS
  <2>2. Sourced(r)  BY <2>1
  <2>3. Sourced(r)' /\ \A body : IsNow(r, body) => IsNow(r, body)'
    BY <2>1, <2>2 DEF SourcesStay
  <2>4. r = resources'[i]  BY <2>1
  <2>5. Sourced(resources[i])'  BY <2>3, <2>4
  <2>6. Shadowed(i) => Shadowed(i)'  BY <1>1 DEF Shadowed
  <2>7. Served(r) => Served(r)'
    <3>1. NameOf(r)' = NameOf(r)  BY DEF NameOf
    <3>. QED  BY <2>3, <3>1 DEF Served
  <2>8. Shadowed(i) \/ Served(r)  BY <2>1 DEF UpToDate
  <2>. QED  BY <2>4, <2>5, <2>6, <2>7, <2>8
<1>3. (\A t \in Types :
          DOMAIN cache[t] = {NameOf(resources[i]) :
                               i \in {k \in DOMAIN resources : resources[k].type = t}})'
  BY <1>1 DEF UpToDate
<1>4. (cache # NoSnapshot)'  BY DEF UpToDate, NoSnapshot
<1>. QED  BY <1>2, <1>3, <1>4 DEF UpToDate

\* What is converted is a list of resources, also if the webhook has not looked.
LEMMA ConvertedType ==
    ASSUME NEW s \in EnvoyConfigSpec, s.envoyResources # None
    PROVE  ConvertedResources(s) \in Seq(Resource)
<1>1. s.envoyResources \in EnvoyResources  BY DEF EnvoyConfigSpec
<1>2. ASSUME NEW t \in Types \ {"secret"} PROVE ValueResources(s, t) \in Seq(Resource)
  <2>. DEFINE values == s.envoyResources.values[t]
  <2>1. values \in Seq(Value)  BY <1>1 DEF EnvoyResources
  <2>2. Len(values) \in Nat /\ DOMAIN values = 1..Len(values)  BY <2>1
  <2>3. ASSUME NEW i \in 1..Len(values) PROVE ValueResources(s, t)[i] \in Resource
    <3>. DEFINE v == IF s.serialization = "yaml" THEN YAMLToJSON(values[i]) ELSE values[i]
    <3>1. values[i] \in Value  BY <2>1, <2>2
    <3>2. v \in Value  BY <3>1 DEF Value, YAMLToJSON
    <3>3. ValueResources(s, t)[i] = [NoResource EXCEPT !.type = t, !.value = v]
      BY <2>2 DEF ValueResources
    <3>. HIDE DEF v
    <3>. QED  BY <3>2, <3>3 DEF NoResource, Resource
  <2>4. ValueResources(s, t) = [i \in 1..Len(values) |-> ValueResources(s, t)[i]]
    BY <2>2 DEF ValueResources
  <2>. HIDE DEF values
  <2>. QED  BY <2>2, <2>3, <2>4, SequenceOver
<1>3. SecretResources(s) \in Seq(Resource)
  <2>1. Good \subseteq Resource  BY DEF Good
  <2>. QED  BY <2>1, ConvertedSecrets
<1>4. {"endpoint", "cluster", "route", "scopedRoute", "listener", "runtime", "extensionConfig"}
          \subseteq Types \ {"secret"}
  BY DEF Types
<1>5. \A a, b \in Seq(Resource) : a \o b \in Seq(Resource)  OBVIOUS
<1>. QED  BY <1>2, <1>3, <1>4, <1>5 DEF ConvertedResources

\* The initial states satisfy the invariant.
LEMMA FreshInit == Init => FreshInv
<1>. SUFFICES ASSUME Init PROVE FreshInv  OBVIOUS
<1>1. worker = IdleWorker /\ resources = None /\ ~queued /\ ~retry /\ ~timer  BY DEF Init
<1>2. /\ secrets \in [SecretNames -> SecretValues \cup {None}]
      /\ slices \in [SliceNames -> SliceValues \cup {None}]
  BY LoadingAssumption DEF Init
<1>3. \A t \in Types : worker.loaded[t] \in Seq(Range(worker.loaded[t]))
  BY <1>1 DEF IdleWorker
<1>. QED  BY <1>1, <1>2, <1>3 DEF IdleWorker, FreshInv, FreshTypes

\* An event that concerns the revision goes on to concern it.
LEMMA NoticedStays ==
    ASSUME resources' = resources, events \subseteq events', UNCHANGED <<queued, retry, faults>>,
           Noticed
    PROVE  Noticed'
<1>1. \A e : Relevant(e) => Relevant(e)'
  BY DEF Relevant, SecretsEventHandler, EndpointSlicesEventHandler
<1>. QED  BY <1>1 DEF Noticed

\* Steps of the environment and of the handlers, which leave the worker and the
\* snapshot alone.
LEMMA FreshAside ==
    ASSUME FreshInv, FreshTypes', UNCHANGED <<resources, worker, cache>>,
           resources # None /\ ~Noticed' => ~Noticed /\ SourcesStay
    PROVE  FreshInv'
<1>. SUFFICES ASSUME resources # None, ~Noticed'
              PROVE  (IF worker.busy
                      THEN LoadedUpTo(worker.idx - 1, worker.loaded)
                      ELSE UpToDate /\ \A i \in DOMAIN resources : Sourced(resources[i]))'
  BY DEF FreshInv
<1>1. resources \in Seq(Resource) /\ ~Noticed /\ SourcesStay
  BY DEF FreshInv, FreshTypes
<1>2. CASE worker.busy
  <2>1. PICK n, lists : n = worker.idx - 1 /\ lists = worker.loaded  OBVIOUS
  <2>2. n \in 0..Len(resources)  BY <1>1, <1>2, <2>1 DEF FreshInv, FreshTypes
  <2>3. LoadedUpTo(n, lists)  BY <1>1, <1>2, <2>1 DEF FreshInv
  <2>4. LoadedUpTo(n, lists)'  BY <1>1, <2>2, <2>3, LoadedStays
  <2>5. n = worker'.idx - 1 /\ lists = worker'.loaded /\ worker'.busy
    BY <1>2, <2>1
  <2>. QED  BY <2>4, <2>5
<1>3. CASE ~worker.busy
  <2>1. UpToDate /\ \A i \in DOMAIN resources : Sourced(resources[i])
    BY <1>1, <1>3 DEF FreshInv
  <2>2. UpToDate' /\ (\A i \in DOMAIN resources : Sourced(resources[i]))'
    BY <1>1, <2>1, SnapshotStays
  <2>. QED  BY <1>3, <2>2
<1>. QED  BY <1>2, <1>3

\* The worker when it has nothing to do.
LEMMA IdleWorkerTypes ==
    /\ IdleWorker = [busy |-> FALSE, idx |-> 1, loaded |-> [t \in Types |-> <<>>]]
    /\ \A t \in Types : IdleWorker.loaded[t] \in Seq(Range(IdleWorker.loaded[t]))
BY DEF IdleWorker

\* A Secret changes.
LEMMA FreshSecret ==
    ASSUME FreshInv, NEW n \in SecretNames, NEW v \in SecretValues \cup {None}, ChangeSecret(n, v)
    PROVE  FreshInv'
<1>1. UNCHANGED <<resources, worker, cache, slices, queued, retry, timer, faults>> /\ events \subseteq events'
  BY DEF ChangeSecret
<1>2. FreshTypes'
  <2>1. secrets' \in [SecretNames -> SecretValues \cup {None}]
    BY DEF ChangeSecret, FreshInv, FreshTypes
  <2>. QED  BY <1>1, <2>1 DEF FreshInv, FreshTypes
<1>3. ASSUME resources # None, ~Noticed' PROVE ~Noticed /\ SourcesStay
  <2>1. ~Noticed  BY <1>1, <1>3, NoticedStays
  <2>2. FreshTypes  BY DEF FreshInv
  <2>. QED  BY <1>3, <2>1, <2>2, SecretOfAnother DEF SourcesStay
<1>. QED  BY <1>1, <1>2, <1>3, FreshAside

\* An EndpointSlice changes.
LEMMA FreshSlice ==
    ASSUME FreshInv, NEW n \in SliceNames, NEW v \in SliceValues \cup {None}, ChangeSlice(n, v)
    PROVE  FreshInv'
<1>1. UNCHANGED <<resources, worker, cache, secrets, queued, retry, timer, faults>> /\ events \subseteq events'
  BY DEF ChangeSlice
<1>2. FreshTypes'
  <2>1. slices' \in [SliceNames -> SliceValues \cup {None}]
    BY DEF ChangeSlice, FreshInv, FreshTypes
  <2>. QED  BY <1>1, <2>1 DEF FreshInv, FreshTypes
<1>3. ASSUME resources # None, ~Noticed' PROVE ~Noticed /\ SourcesStay
  <2>1. ~Noticed  BY <1>1, <1>3, NoticedStays
  <2>2. FreshTypes  BY DEF FreshInv
  <2>. QED  BY <1>3, <2>1, <2>2, SliceOfAnother DEF SourcesStay
<1>. QED  BY <1>1, <1>2, <1>3, FreshAside

\* The handler of an event queues the revision if it is concerned.
LEMMA FreshEvent ==
    ASSUME FreshInv, NEW e \in events, HandleEvent(e)
    PROVE  FreshInv'
<1>1. UNCHANGED <<resources, worker, cache, secrets, slices, retry, timer, faults>>
  BY DEF HandleEvent
<1>2. queued' <=> queued \/ Relevant(e)  BY DEF HandleEvent
<1>3. FreshTypes'
  <2>1. queued' => resources # None
    BY <1>2 DEF Relevant, FreshInv, FreshTypes
  <2>. QED  BY <1>1, <2>1 DEF FreshInv, FreshTypes
<1>4. ASSUME Noticed PROVE Noticed'
  <2>1. \A x : Relevant(x) => Relevant(x)'
    BY <1>1 DEF Relevant, SecretsEventHandler, EndpointSlicesEventHandler
  <2>2. events' = events \ {e}  BY DEF HandleEvent
  <2>. QED  BY <1>1, <1>2, <1>4, <2>1, <2>2 DEF Noticed
<1>5. SourcesStay
  BY <1>1 DEF SourcesStay, Sourced, IsNow, Selected
<1>. QED  BY <1>1, <1>3, <1>4, <1>5, FreshAside

\* A reconcile starts with empty lists.
LEMMA FreshStart ==
    ASSUME FreshInv, StartReconcile
    PROVE  FreshInv'
<1>1. /\ UNCHANGED <<resources, secrets, slices, retry, timer>>
      /\ queued /\ ~queued'
      /\ worker' = [IdleWorker EXCEPT !.busy = TRUE]
  BY DEF StartReconcile, cluster
<1>2. /\ worker' = [busy |-> TRUE, idx |-> 1, loaded |-> [t \in Types |-> <<>>]]
      /\ \A t \in Types : worker'.loaded[t] \in Seq(Range(worker'.loaded[t]))
  BY <1>1, IdleWorkerTypes
<1>3. resources # None /\ resources \in Seq(Resource)
  BY <1>1 DEF FreshInv, FreshTypes
<1>4. FreshTypes'
  <2>1. /\ worker'.busy = TRUE /\ worker'.idx = 1
        /\ worker'.loaded = [t \in Types |-> worker'.loaded[t]]
        /\ worker' = [busy |-> worker'.busy, idx |-> worker'.idx, loaded |-> worker'.loaded]
    BY <1>2
  <2>2. 1 <= Len(resources) + 1  BY <1>3
  <2>. QED  BY <1>1, <1>2, <1>3, <2>1, <2>2 DEF FreshInv, FreshTypes
<1>5. LoadedUpTo(worker.idx - 1, worker.loaded)'
  BY <1>2 DEF LoadedUpTo
<1>. QED  BY <1>2, <1>4, <1>5 DEF FreshInv

\* One more resource is loaded, or the reconcile ends with a failure.
LEMMA FreshLoad ==
    ASSUME FreshInv, LoadResource
    PROVE  FreshInv'
<1>1. /\ UNCHANGED <<resources, secrets, slices, events, queued, cache>>
      /\ worker.busy /\ worker.idx \in DOMAIN resources
  BY DEF LoadResource, cluster
<1>2. FreshTypes /\ resources # None /\ resources \in Seq(Resource)
  BY <1>1 DEF FreshInv, FreshTypes
<1>3. PICK n \in DOMAIN resources : n = worker.idx  BY <1>1
<1>4. PICK r \in Resource : r = resources[n]  BY <1>2
<1>5. PICK result \in Load(r) :
          /\ worker' = IF result.failure = "none"
                       THEN [worker EXCEPT !.idx = @ + 1,
                                           !.loaded[r.type] =
                                               Append(@, [name |-> result.name,
                                                          body |-> result.body])]
                       ELSE IdleWorker
          /\ faults' = faults \cup ({result.failure} \ {"none"})
          /\ retry' = (retry \/ result.failure = "transient")
          /\ timer' = (timer \/ result.failure = "invalid")
  BY <1>3, <1>4 DEF LoadResource
<1>6. CASE result.failure = "none"
  <2>. DEFINE entry == [name |-> result.name, body |-> result.body]
              after == [worker.loaded EXCEPT ![r.type] = Append(@, entry)]
  <2>1. r.type \in Types  BY DEF Resource
  <2>2. worker' = [busy |-> TRUE, idx |-> n + 1, loaded |-> after]
    BY <1>1, <1>2, <1>3, <1>5, <1>6, <2>1 DEF FreshTypes
  <2>3. after = [t \in Types |-> after[t]]  BY <1>2 DEF FreshTypes
  <2>4. \A t \in Types : after[t] \in Seq(Range(after[t]))
    <3>1. \A t \in Types \ {r.type} : after[t] = worker.loaded[t]  BY <1>2 DEF FreshTypes
    <3>2. after[r.type] = Append(worker.loaded[r.type], entry)  BY <1>2, <2>1 DEF FreshTypes
    <3>3. ASSUME NEW S, NEW s \in Seq(S), NEW x PROVE Append(s, x) \in Seq(Range(Append(s, x)))
      <4>. DEFINE a == Append(s, x)
      <4>1. a \in Seq(S \cup {x})  OBVIOUS
      <4>. HIDE DEF a
      <4>2. /\ Len(a) \in Nat /\ a = [i \in 1..Len(a) |-> a[i]]
            /\ DOMAIN a = 1..Len(a)
        BY <4>1
      <4>3. \A i \in 1..Len(a) : a[i] \in Range(a)  BY <4>2 DEF Range
      <4>4. a \in Seq(Range(a))  BY <4>2, <4>3, SequenceOver
      <4>. QED  BY <4>4 DEF a
    <3>4. \A t \in Types : worker.loaded[t] \in Seq(Range(worker.loaded[t]))
      BY <1>2 DEF FreshTypes
    <3>. HIDE DEF after, entry
    <3>5. Append(worker.loaded[r.type], entry) \in Seq(Range(Append(worker.loaded[r.type], entry)))
      BY <2>1, <3>3, <3>4
    <3>. QED  BY <3>1, <3>2, <3>4, <3>5
  <2>5. n \in 1..Len(resources)  BY <1>2
  <2>6. FreshTypes'
    <3>. HIDE DEF after
    <3>1. /\ worker'.busy \in BOOLEAN /\ worker'.idx \in Nat \ {0}
          /\ worker' = [busy |-> worker'.busy, idx |-> worker'.idx, loaded |-> worker'.loaded]
          /\ worker'.loaded = after
          /\ worker'.idx <= Len(resources) + 1
      BY <1>2, <2>2, <2>5
    <3>. QED  BY <1>1, <1>2, <2>3, <2>4, <3>1 DEF FreshTypes
  <2>7. ASSUME ~Noticed' PROVE LoadedUpTo(n, after)
    <3>1. ~Noticed
      <4>1. retry => retry'  BY <1>5
      <4>2. faults \subseteq faults'  BY <1>5
      <4>3. \A e : Relevant(e) => Relevant(e)'
        BY <1>1 DEF Relevant, SecretsEventHandler, EndpointSlicesEventHandler
      <4>. QED  BY <1>1, <2>7, <4>1, <4>2, <4>3 DEF Noticed
    <3>2. LoadedUpTo(n - 1, worker.loaded)
      BY <1>1, <1>2, <1>3, <3>1 DEF FreshInv
    <3>3. entry.name = NameOf(resources[n]) /\ IsNow(resources[n], entry.body) /\ Sourced(resources[n])
      BY <1>2, <1>4, <1>6, LoadedIsNow
    <3>4. /\ worker.loaded = [t \in Types |-> worker.loaded[t]]
          /\ \A t \in Types : worker.loaded[t] \in Seq(Range(worker.loaded[t]))
      BY <1>2 DEF FreshTypes
    <3>. HIDE DEF entry
    <3>. QED  BY <1>2, <1>4, <2>5, <3>2, <3>3, <3>4, LoadedOneMore
  <2>8. SourcesStay  BY <1>1 DEF SourcesStay, Sourced, IsNow, Selected
  <2>9. ASSUME ~Noticed' PROVE LoadedUpTo(worker.idx - 1, worker.loaded)'
    <3>1. PICK lists : lists = after  OBVIOUS
    <3>2. n \in 0..Len(resources)  BY <2>5
    <3>3. LoadedUpTo(n, lists)'
      BY <1>1, <1>2, <2>7, <2>8, <2>9, <3>1, <3>2, LoadedStays
    <3>4. lists = worker'.loaded /\ n = worker'.idx - 1
      <4>. HIDE DEF after
      <4>1. worker'.loaded = after /\ worker'.idx = n + 1  BY <2>2
      <4>. QED  BY <2>5, <3>1, <4>1
    <3>. QED  BY <3>3, <3>4
  <2>10. worker'.busy  BY <2>2
  <2>. QED  BY <2>6, <2>9, <2>10 DEF FreshInv
<1>7. CASE result.failure # "none"
  <2>1. worker' = IdleWorker  BY <1>5, <1>7
  <2>2. FreshTypes'
    <3>1. ~worker'.busy /\ worker'.busy \in BOOLEAN  BY <2>1, IdleWorkerTypes
    <3>. QED  BY <1>1, <1>2, <2>1, <3>1, IdleWorkerTypes DEF FreshTypes
  <2>3. result.failure \in {"invalid", "transient", "panic"}
    <3>1. result.failure \in {"none", "invalid", "transient", "panic"}
      BY DEF Load, LoadEndpoints, LoadTlsSecret, LoadOpaqueSecret, LoadValue, Failure, Success
    <3>. QED  BY <1>7, <3>1
  <2>4. Noticed'  BY <1>5, <2>3 DEF Noticed
  <2>. QED  BY <2>2, <2>4 DEF FreshInv
<1>. QED  BY <1>6, <1>7

\* The snapshot is written, unless it is the same as the one there is.
LEMMA FreshWrite ==
    ASSUME FreshInv, WriteSnapshot
    PROVE  FreshInv'
<1>1. /\ UNCHANGED <<resources, secrets, slices, events, queued, retry, faults>>
      /\ worker.busy /\ worker.idx = Len(resources) + 1
      /\ worker' = IdleWorker
  BY DEF WriteSnapshot, cluster
<1>2. FreshTypes /\ resources # None /\ resources \in Seq(Resource)
  BY <1>1 DEF FreshInv, FreshTypes
<1>3. FreshTypes'  BY <1>1, <1>2, IdleWorkerTypes DEF FreshTypes
<1>4. PICK lists : lists = worker.loaded  OBVIOUS
<1>5. (\A t \in Types : cache[t] = SetResources(lists[t]))' /\ (cache # NoSnapshot)'
  <2>. DEFINE snap == [t \in Types |-> SetResources(lists[t])]
  <2>1. cache' = IF cache = NoSnapshot THEN snap
                 ELSE IF areDifferent(snap, cache) THEN snap ELSE cache
    BY <1>4 DEF WriteSnapshot
  <2>2. snap # NoSnapshot
    <3>1. DOMAIN snap # DOMAIN NoSnapshot  BY DEF NoSnapshot, Types
    <3>. QED  BY <3>1
  <2>3. cache' # NoSnapshot  BY <2>1, <2>2
  <2>4. \A t \in Types : cache'[t] = snap[t]  BY <2>1 DEF areDifferent
  <2>5. \A t \in Types : snap[t] = SetResources(lists[t])  OBVIOUS
  <2>6. (\A t \in Types : cache[t] = SetResources(lists[t]))'
    BY <2>4, <2>5 DEF SetResources
  <2>. QED  BY <2>3, <2>6 DEF NoSnapshot
<1>6. ASSUME ~Noticed'
      PROVE  (UpToDate /\ \A i \in DOMAIN resources : Sourced(resources[i]))'
  <2>1. ~Noticed  BY <1>1, <1>6, NoticedStays
  <2>2. PICK n \in 0..Len(resources) : n = Len(resources)  BY <1>2
  <2>3. LoadedUpTo(n, lists)  BY <1>1, <1>2, <1>4, <2>1, <2>2 DEF FreshInv
  <2>4. SourcesStay  BY <1>1 DEF SourcesStay, Sourced, IsNow, Selected
  <2>5. LoadedUpTo(n, lists)'  BY <1>1, <1>2, <2>2, <2>3, <2>4, LoadedStays
  <2>6. LoadedUpTo(Len(resources), lists)'  BY <1>1, <2>2, <2>5
  <2>7. (\A t \in Types : lists[t] \in Seq(Range(lists[t])))'  BY <1>2, <1>4 DEF FreshTypes
  <2>8. (resources \in Seq(Resource))'  BY <1>1, <1>2
  <2>. QED  BY <1>5, <2>6, <2>7, <2>8, SnapshotOfLoaded
<1>7. ~worker'.busy  BY <1>1, IdleWorkerTypes
<1>. QED  BY <1>3, <1>6, <1>7 DEF FreshInv

\* Every step preserves the invariant.
LEMMA FreshStep == LoadingInv /\ FreshInv /\ [Next]_vars => FreshInv'
<1>. SUFFICES ASSUME LoadingInv, FreshInv, [Next]_vars PROVE FreshInv'  OBVIOUS
<1>1. ASSUME NEW s \in Specs, Submit(s) PROVE FreshInv'
  <2>1. resources' = None /\ UNCHANGED <<resources, secrets, slices, queued, retry, timer, worker>>
    BY <1>1 DEF Submit, cluster, LoadingInv
  <2>. QED  BY <2>1 DEF FreshInv, FreshTypes
<1>2. CASE Publish
  <2>1. /\ UNCHANGED <<secrets, slices, worker>> /\ queued' /\ resources = None
        /\ spec \in EnvoyConfigSpec /\ Validate(spec)
    BY <1>2 DEF Publish, cluster, LoadingInv
  <2>2. resources' \in Seq(Resource)
    <3>1. CASE spec.envoyResources # None
      BY <1>2, <2>1, <3>1, ConvertedType DEF Publish
    <3>2. CASE spec.envoyResources = None
      BY <1>2, <2>1, <3>2 DEF Publish, Validate, EnvoyConfigSpec
    <3>. QED  BY <3>1, <3>2
  <2>3. resources' # None  BY <2>2, LoadingAssumption
  <2>4. FreshTypes'  BY <2>1, <2>2, <2>3 DEF FreshInv, FreshTypes
  <2>5. Noticed'  BY <2>1 DEF Noticed
  <2>. QED  BY <2>4, <2>5 DEF FreshInv
<1>3. CASE FailToPublish
  <2>1. resources' = None /\ UNCHANGED <<resources, secrets, slices, queued, retry, timer, worker>>
    BY <1>3 DEF FailToPublish, cluster
  <2>. QED  BY <2>1 DEF FreshInv, FreshTypes
<1>4. CASE Requeue
  <2>1. /\ UNCHANGED <<resources, secrets, slices, worker>> /\ queued' /\ (retry \/ timer)
    BY <1>4 DEF Requeue, cluster
  <2>2. FreshTypes'  BY <2>1 DEF FreshInv, FreshTypes
  <2>3. Noticed'  BY <2>1 DEF Noticed
  <2>. QED  BY <2>2, <2>3 DEF FreshInv
<1>5. CASE Restart
  <2>1. UNCHANGED <<resources, secrets, slices>> /\ queued' /\ resources # None /\ worker' = IdleWorker
    BY <1>5 DEF Restart
  <2>2. ~worker'.busy /\ worker'.busy \in BOOLEAN  BY <2>1, IdleWorkerTypes
  <2>3. FreshTypes'  BY <2>1, <2>2, IdleWorkerTypes DEF FreshInv, FreshTypes
  <2>4. Noticed'  BY <2>1 DEF Noticed
  <2>. QED  BY <2>3, <2>4 DEF FreshInv
<1>6. CASE UNCHANGED vars
  <2>1. FreshTypes'  BY <1>6 DEF vars, FreshInv, FreshTypes
  <2>2. Noticed => Noticed'  BY <1>6, NoticedStays DEF vars
  <2>3. SourcesStay  BY <1>6 DEF vars, SourcesStay, Sourced, IsNow, Selected
  <2>. QED  BY <1>6, <2>1, <2>2, <2>3, FreshAside DEF vars
<1>. QED
  BY <1>1, <1>2, <1>3, <1>4, <1>5, <1>6, FreshSecret, FreshSlice, FreshEvent, FreshStart,
     FreshLoad, FreshWrite
     DEF Next, Environment, Controllers

(***************************************************************************)
(* The snapshot is what the Secrets and EndpointSlices of now give as soon *)
(* as nothing is queued, whatever the resources and however many changes   *)
(* happen in the middle of GenerateSnapshot: the event handlers of the     *)
(* EnvoyConfigRevision controller need no help of its timer.               *)
(***************************************************************************)
THEOREM SnapshotIsFresh == Spec => []SnapshotFresh
<1>1. FreshInv => SnapshotFresh
  BY DEF FreshInv, SnapshotFresh, Quiet, Noticed
<1>. QED  BY <1>1, FreshInit, FreshStep, LoadingInit, LoadingStep, PTL DEF Spec
=============================================================================
