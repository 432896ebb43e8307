-------------------------- MODULE EnvoyContainers --------------------------
(***************************************************************************)
(* How the containers of an Envoy pod are configured: from the             *)
(* annotations of a pod, by the mutating webhook that injects the sidecar, *)
(* or from an EnvoyDeployment, by its controller.  Both fill the same      *)
(* ContainerConfig.  What is kept of a pod is what the rest of the system  *)
(* tells apart: the preStop hook of each container, the ports, the node id *)
(* and the address of the discovery service.                               *)
(***************************************************************************)
EXTENDS Integers, Sequences, FiniteSetsExt, Functions

CONSTANTS None, NotANumber   \* NotANumber: a text that is no integer

EnvoyAdminPort == 9901
ShtdnMgrDefaultServerPort == 8090

\* The names of the containers the code adds to a pod.
Envoy == "envoy"
Mgr == "envoy-shtdn-mgr"

-----------------------------------------------------------------------------
(***************************************************************************)
(* ContainerConfig.                                                        *)
(***************************************************************************)

\* The preStop hook of Containers(): what a container calls on the shutdown
\* manager before it is stopped; None if it has no hook.
Hook(cc, c) ==
  IF ~cc.shutdown THEN None
  ELSE IF c = Envoy THEN "/shutdown" ELSE IF c = Mgr THEN "/drain" ELSE None

\* The init manager's bootstrap file: where Envoy's admin API listens, and the
\* discovery service that Envoy connects to.
getAdminPort(port) == IF port = 0 THEN 9001 ELSE port
GenerateStatic(cc) == [admin |-> getAdminPort(cc.admin), xdss |-> cc.xdss]

\* A pod: the containers others put in it, then those of Containers().
Pod(cc, others) ==
  [hooks |-> [c \in others \cup {Envoy} \cup (IF cc.shutdown THEN {Mgr} ELSE {}) |->
                Hook(cc, c)],
   port  |-> cc.mgrPort,       \* where the manager listens and the hooks call
   admin |-> GenerateStatic(cc).admin,
   xdss  |-> GenerateStatic(cc).xdss,
   ports |-> cc.ports,
   node  |-> cc.node, cluster |-> cc.cluster]

\* The manager is started with its port only, and calls the default admin port.
Reaches(pod) == pod.admin = EnvoyAdminPort

-----------------------------------------------------------------------------
(***************************************************************************)
(* The sidecar.  An annotation is None when it is absent, lists are        *)
(* sequences and the fields of a port specification a sequence too.        *)
(***************************************************************************)

Param(value, default) == IF value = None THEN default ELSE value

\* portNumber: None is the error.
portNumber(s) == IF s \in Int /\ s >= 1024 /\ s <= 65535 THEN s ELSE None

getPortOrDefault(s, default) == Param(portNumber(s), default)

\* parsePortSpec of name:port[:protocol]; fields after the third are let pass.
parsePortSpec(params) ==
  IF \/ Len(params) < 2
     \/ portNumber(params[2]) = None
     \/ Len(params) = 3 /\ params[3] \notin {"TCP", "UDP", "SCTP"}
  THEN None
  ELSE [name |-> params[1], port |-> params[2], host |-> 0]

\* hostPortMapping: the first mapping of the name, 0 if there is none; it is an
\* error to meet a malformed mapping on the way.
hostPortMapping(name, mappings) ==
  LET specs == Param(mappings, <<>>)
      stops == {i \in DOMAIN specs : Len(specs[i]) # 2 \/ specs[i][1] = name}
  IN  IF stops = {} THEN 0
      ELSE LET s == specs[Min(stops)]
           IN  IF Len(s) # 2 THEN None ELSE portNumber(s[2])

getContainerPorts(a) ==
  LET specs == Param(a.ports, <<>>)
      port(i) == LET p == parsePortSpec(specs[i])
                     h == hostPortMapping(p.name, a.hostPorts)
                 IN  IF p = None THEN None
                     ELSE IF h = None THEN None ELSE [p EXCEPT !.host = h]
  IN  IF \E i \in DOMAIN specs : port(i) = None THEN None
      ELSE [i \in DOMAIN specs |-> port(i)]

\* getContainerResourceRequirements fails on a quantity that does not parse.
ResourcesParse(a) == NotANumber \notin a.resources

\* isShtdnMgrEnabled: a text that is not a Boolean disables it.
isShtdnMgrEnabled(a) == a.enabled = "true"

\* getDiscoveryServiceAddress: the one named, or the only one of the namespace.
getDiscoveryServiceAddress(a, services) ==
  IF a.ds # None
  THEN IF a.ds \in DOMAIN services THEN services[a.ds] ELSE None
  ELSE IF Cardinality(DOMAIN services) = 1
       THEN services[CHOOSE d \in DOMAIN services : TRUE] ELSE None

PopulateFromAnnotations(a, services) ==
  IF \/ getContainerPorts(a) = None
     \/ ~ResourcesParse(a)
     \/ getDiscoveryServiceAddress(a, services) = None
  THEN None
  ELSE [shutdown |-> isShtdnMgrEnabled(a),
        mgrPort  |-> getPortOrDefault(a.mgrPort, ShtdnMgrDefaultServerPort),
        admin    |-> getPortOrDefault(a.adminPort, EnvoyAdminPort),
        ports    |-> getContainerPorts(a),
        node     |-> a.node,
        cluster  |-> Param(a.cluster, a.node),
        xdss     |-> getDiscoveryServiceAddress(a, services)]

\* Handle: None when the webhook refuses the pod.  With the shutdown manager,
\* the containers the pod names call /drain before they stop.
Handle(a, others, services) ==
  LET cc == PopulateFromAnnotations(a, services)
      extra == IF isShtdnMgrEnabled(a) THEN Range(Param(a.hooks, <<>>)) ELSE {}
  IN  IF a.node = None THEN None
      ELSE IF cc = None THEN None
      ELSE LET pod == Pod(cc, others)
           IN  IF ~(extra \subseteq DOMAIN pod.hooks) THEN None
               ELSE [pod EXCEPT !.hooks = [c \in DOMAIN pod.hooks |->
                        IF c \in extra THEN "/drain" ELSE pod.hooks[c]]]

-----------------------------------------------------------------------------
(***************************************************************************)
(* The EnvoyDeployment.                                                    *)
(***************************************************************************)

\* Its spec: the replicas, the bounds of the disruption budget, the shutdown
\* manager if there is one, and what the pod template is made from.
EnvoyDeploymentSpec ==
  [static : Nat \cup {None}, dynamic : BOOLEAN, pdb : SUBSET {"min", "max"},
   shutdown : BOOLEAN, adminPort : Nat \cup {None},
   ports : Seq([name : STRING, port : Nat, host : Nat]),
   cluster : STRING \cup {None}, ds : STRING, ec : STRING]

\* The webhook: one of static and dynamic, one of minAvailable, maxUnavailable.
Validate(spec) ==
  /\ ~(spec.static # None /\ spec.dynamic)
  /\ Cardinality(spec.pdb) <= 1

\* Replicas(): dynamic, or a number that defaults to one.
Dynamic(spec) == spec.static = None /\ spec.dynamic
Static(spec) == Param(spec.static, 1)

\* Deployment(): the pod template.  The manager's port is always the default.
Template(spec, address, nodeID) ==
  Pod([shutdown |-> spec.shutdown,
       mgrPort  |-> ShtdnMgrDefaultServerPort,
       admin    |-> Param(spec.adminPort, EnvoyAdminPort),
       ports    |-> spec.ports,
       node     |-> nodeID,
       cluster  |-> Param(spec.cluster, nodeID),
       xdss     |-> address], {})
=============================================================================
