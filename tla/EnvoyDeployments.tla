-------------------------- MODULE EnvoyDeployments --------------------------
(***************************************************************************)
(* The EnvoyDeployment controller, composed with the pod of EnvoyPod.  For *)
(* an EnvoyDeployment it keeps a client certificate object, a Deployment,  *)
(* an autoscaler if the replicas are dynamic and a disruption budget if    *)
(* one is asked for.  A change of the pod template replaces the pod.       *)
(*                                                                         *)
(* A reconcile reads the EnvoyDeployment, the DiscoveryService and the     *)
(* EnvoyConfig first and then writes one owned object after another, while *)
(* users and the autoscaler change things.  A pod may also be a user's     *)
(* own, with the sidecar that the webhook injects.                         *)
(***************************************************************************)
EXTENDS EnvoyPod

CONSTANTS
  Specs,         \* the EnvoyDeployment specs users apply
  Annotations,   \* the annotations of the pods users create
  OtherContainers,
  EnvoyConfigs,
  NodeIDs,
  DSName,        \* the DiscoveryService the specs refer to
  Addresses,     \* the addresses it may have
  Scales,        \* the numbers of replicas the autoscaler asks for
  MaxChanges     \* bound: what users change

\* The pod templates and the Deployments the controller may write.
Templates == {Template(s, a, n) : s \in Specs, a \in Addresses, n \in NodeIDs}
Deployments == [template : Templates, replicas : Scales \cup {Static(s) : s \in Specs}]

ASSUME EnvoyDeploymentsAssumption ==
  /\ Specs \subseteq EnvoyDeploymentSpec
  /\ \A s \in Specs : s.ec \in EnvoyConfigs
  /\ None \notin Specs \cup Templates \cup Deployments
  /\ MaxChanges \in Nat

VARIABLES
  spec,        \* the EnvoyDeployment, None if there is none
  ecs,         \* the node id in each EnvoyConfig, None if it does not exist
  services,    \* the address of each DiscoveryService
  queued,      \* a reconcile of the EnvoyDeployment is requested
  worker,      \* the reconcile in progress
  cert,        \* the client certificate object exists
  deployment,  \* the Deployment, None if there is none
  hpa,         \* the HorizontalPodAutoscaler exists
  pdb,         \* the bound in the PodDisruptionBudget, {} if there is none
  changes

owned == <<cert, deployment, hpa, pdb>>
edVars == <<spec, ecs, services, queued, worker, owned, changes>>
vars == <<podVars, edVars>>

Idle == [at |-> "idle", spec |-> None, template |-> None]

Init ==
  /\ PodInit
  /\ spec = None
  /\ ecs \in [EnvoyConfigs -> NodeIDs]
  /\ services \in [{DSName} -> Addresses]
  /\ queued = FALSE
  /\ worker = Idle
  /\ cert = FALSE /\ deployment = None /\ hpa = FALSE /\ pdb = {}
  /\ changes = 0

-----------------------------------------------------------------------------
(***************************************************************************)
(* Users.                                                                  *)
(***************************************************************************)

Change ==
  /\ changes < MaxChanges
  /\ changes' = changes + 1

\* An EnvoyDeployment is created or changed; the webhook validates it.
ApplyEnvoyDeployment(s) ==
  /\ Change
  /\ spec # None \/ pod = None
  /\ Validate(s) /\ s # spec
  /\ spec' = s
  /\ queued' = TRUE
  /\ UNCHANGED <<podVars, ecs, services, worker, owned>>

\* No event of an EnvoyConfig is of interest.
EnvoyConfigHandlerNone(e) == FALSE

\* EnvoyConfigHandler: is an event of this EnvoyConfig of interest?
EnvoyConfigHandler(e) == spec # None /\ spec.ec = e

\* DiscoveryServiceHandler.
DiscoveryServiceHandler(d) == spec # None /\ spec.ds = d

ChangeEnvoyConfig(e) ==
  /\ Change
  /\ \E n \in (NodeIDs \cup {None}) \ {ecs[e]} : ecs' = [ecs EXCEPT ![e] = n]
  /\ queued' = (queued \/ EnvoyConfigHandler(e))
  /\ UNCHANGED <<podVars, spec, services, worker, owned>>

ChangeDiscoveryService ==
  /\ Change
  /\ \E new \in {<<>>} \cup [{DSName} -> Addresses] : new # services /\ services' = new
  /\ queued' = (queued \/ DiscoveryServiceHandler(DSName))
  /\ UNCHANGED <<podVars, spec, ecs, worker, owned>>

\* Somebody deletes an owned object: its event requests a reconcile.
DeleteOwned ==
  /\ Change
  /\ \/ cert /\ cert' = FALSE /\ UNCHANGED <<deployment, hpa, pdb>>
     \/ deployment # None /\ deployment' = None /\ UNCHANGED <<cert, hpa, pdb>>
     \/ hpa /\ hpa' = FALSE /\ UNCHANGED <<cert, deployment, pdb>>
     \/ pdb # {} /\ pdb' = {} /\ UNCHANGED <<cert, deployment, hpa>>
  /\ queued' = TRUE
  /\ UNCHANGED <<podVars, spec, ecs, services, worker>>

\* A user creates a pod of their own, if the webhook admits it.
CreatePod(a) ==
  /\ Change
  /\ spec = None
  /\ Handle(a, OtherContainers, services) # None
  /\ StartPod(Handle(a, OtherContainers, services))
  /\ UNCHANGED <<spec, ecs, services, queued, worker, owned>>

EvictPod ==
  /\ Change
  /\ DeletePod
  /\ UNCHANGED <<spec, ecs, services, queued, worker, owned>>

-----------------------------------------------------------------------------
(***************************************************************************)
(* The controller.  Every write of an owned object is an event that        *)
(* requests a reconcile, as is every change somebody else makes.           *)
(***************************************************************************)

\* Both objects the EnvoyDeployment refers to exist.
Resolved == /\ spec # None
            /\ spec.ds \in DOMAIN services
            /\ ecs[spec.ec] # None

\* The pod template for the present state of what it is made from.
Wanted == Template(spec, services[spec.ds], ecs[spec.ec])

\* Reconcile, up to the generators; an object that is missing is an error and
\* the request comes back.
StartReconcile ==
  /\ queued /\ worker = Idle
  /\ Resolved
  /\ queued' = FALSE
  /\ worker' = [at |-> "certificate", spec |-> spec, template |-> Wanted]
  /\ UNCHANGED <<podVars, spec, ecs, services, owned, changes>>

ReconcileCertificate ==
  /\ worker.at = "certificate"
  /\ cert' = TRUE
  /\ queued' = (queued \/ ~cert)
  /\ worker' = [worker EXCEPT !.at = "deployment"]
  /\ UNCHANGED <<podVars, spec, ecs, services, deployment, hpa, pdb, changes>>

\* SetDeploymentReplicas: the number of a Deployment that exists is replaced
\* only if the replicas are static.
SetDeploymentReplicas(s) ==
  IF Dynamic(s) /\ deployment # None THEN deployment.replicas ELSE Static(s)

ReconcileDeployment ==
  LET new == [template |-> worker.template,
              replicas |-> SetDeploymentReplicas(worker.spec)]
  IN  /\ worker.at = "deployment"
      /\ deployment' = new
      /\ queued' = (queued \/ deployment # new)
      /\ worker' = [worker EXCEPT !.at = "autoscaler"]
      /\ UNCHANGED <<podVars, spec, ecs, services, cert, hpa, pdb, changes>>

\* A template that is not enabled deletes its object.
ReconcileHPA ==
  /\ worker.at = "autoscaler"
  /\ hpa' = Dynamic(worker.spec)
  /\ queued' = (queued \/ hpa # hpa')
  /\ worker' = [worker EXCEPT !.at = "budget"]
  /\ UNCHANGED <<podVars, spec, ecs, services, cert, deployment, pdb, changes>>

ReconcilePDB ==
  /\ worker.at = "budget"
  /\ pdb' = worker.spec.pdb
  /\ queued' = (queued \/ pdb # pdb')
  /\ worker' = Idle
  /\ UNCHANGED <<podVars, spec, ecs, services, cert, deployment, hpa, changes>>

\* The operator restarts: the reconcile is lost, and every object is requested.
RestartOperator ==
  /\ faults < MaxFaults
  /\ faults' = faults + 1
  /\ worker' = Idle
  /\ queued' = (spec # None)
  /\ UNCHANGED <<pod, deleted, up, step, attempts, ready, draining, open, quiet,
                 unheard, excused, spec, ecs, services, owned, changes>>

-----------------------------------------------------------------------------
(***************************************************************************)
(* The controllers of Kubernetes.                                          *)
(***************************************************************************)

Autoscale ==
  /\ hpa /\ deployment # None
  /\ \E n \in Scales \ {deployment.replicas} :
        deployment' = [deployment EXCEPT !.replicas = n]
  /\ queued' = TRUE
  /\ UNCHANGED <<podVars, spec, ecs, services, worker, cert, hpa, pdb, changes>>

\* The pod of the Deployment follows its template.
RollOut ==
  /\ spec # None
  /\ \/ deployment # None /\ StartPod(deployment.template)
     \/ deployment = None /\ DeletePod
     \/ deployment # None /\ pod # deployment.template /\ DeletePod
  /\ UNCHANGED edVars

Reconcile ==
  \/ StartReconcile \/ ReconcileCertificate \/ ReconcileDeployment
  \/ ReconcileHPA \/ ReconcilePDB

Users ==
  \/ \E s \in Specs : ApplyEnvoyDeployment(s)
  \/ \E e \in EnvoyConfigs : ChangeEnvoyConfig(e)
  \/ ChangeDiscoveryService
  \/ DeleteOwned
  \/ \E a \in Annotations : CreatePod(a)
  \/ EvictPod

Next ==
  \/ Users \/ Reconcile \/ RestartOperator \/ Autoscale \/ RollOut
  \/ PodStep /\ UNCHANGED edVars

Spec == Init /\ [][Next]_vars

\* The operator serves its queue, and Kubernetes goes on.
Fairness ==
  /\ WF_vars(Reconcile)
  /\ WF_vars(RollOut)
  /\ WF_vars(Kubelet /\ UNCHANGED edVars)

FairSpec == Spec /\ Fairness

-----------------------------------------------------------------------------
(***************************************************************************)
(* Properties.                                                             *)
(***************************************************************************)

\* Whenever no reconcile is requested or in progress, and what the
\* EnvoyDeployment refers to exists, its objects are those of its present spec:
\* no change by a user, by the autoscaler or by a deletion in the middle of a
\* reconcile is forgotten, and an autoscaler that raced with a switch to static
\* replicas has not left its number behind.
SettledObjects ==
  (~queued /\ worker = Idle /\ Resolved) =>
    /\ cert
    /\ deployment # None
    /\ deployment.template = Wanted
    /\ ~Dynamic(spec) => deployment.replicas = Static(spec)
    /\ hpa = Dynamic(spec)
    /\ pdb = spec.pdb

\* A pod of the present template serves: it is not being stopped or drained.
Serving ==
  /\ pod = Wanted /\ ~deleted
  /\ Envoy \in up /\ step[Envoy] = "none" /\ ~draining

\* Again and again, and so forever once users, faults and the autoscaler are
\* quiet, Envoy serves with the present configuration: every pod with an older
\* one drains and ends, and an Envoy that was drained because its manager was
\* replaced comes back.
PodFollowsSpec == []<>(Resolved => Serving)
=============================================================================
