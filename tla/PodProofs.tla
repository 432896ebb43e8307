----------------------------- MODULE PodProofs -----------------------------
(***************************************************************************)
(* The pods of EnvoyDeployments implement GracefulStop.  The proof needs   *)
(* that only Envoy and the shutdown manager are replaced by a liveness     *)
(* probe, and that the extra lifecycle hooks are those of other            *)
(* containers: else a ready file outlives the drain it stands for.  And    *)
(* once a reconcile of the EnvoyDeployment is followed by no other one,    *)
(* its objects are as the spec and what the spec refers to have them.      *)
(***************************************************************************)
EXTENDS EnvoyDeployments, TLAPS

OwnProbes == Probed \subseteq {Envoy, Mgr}

OtherHooks ==
  /\ Envoy \notin OtherContainers /\ Mgr \notin OtherContainers
  /\ \A a \in Annotations : Range(Param(a.hooks, <<>>)) \subseteq OtherContainers

-----------------------------------------------------------------------------
(***************************************************************************)
(* The inductive invariant.                                                *)
(***************************************************************************)

\* What the pods that are ever started have in common.
PodOK(p) ==
  /\ p # None
  /\ Envoy \in DOMAIN p.hooks
  /\ p.hooks[Envoy] \in {None, "/shutdown"}
  /\ Mgr \in DOMAIN p.hooks => p.hooks[Mgr] # None

PodType ==
  /\ open \in Nat
  /\ deleted \in BOOLEAN /\ ready \in BOOLEAN
  /\ draining \in BOOLEAN /\ quiet \in BOOLEAN
  /\ unheard \in BOOLEAN /\ excused \in BOOLEAN
  /\ pod = None => up = {} /\ ~deleted
  /\ pod # None => /\ PodOK(pod)
                   /\ up \subseteq DOMAIN pod.hooks
                   /\ step \in [DOMAIN pod.hooks -> {"none", "signal", "poll", "wait", "done"}]

\* Requests and the ready file do not outlive the manager, and what Envoy knows
\* does not outlive Envoy.
Lifetimes ==
  /\ Envoy \notin up => open = 0 /\ ~draining /\ ~quiet
  /\ ready => Mgr \in up
  /\ \A c \in up : step[c] # "none" => Mgr \in up
  /\ Envoy \in up => step[Envoy] \notin {"signal", "poll"}
  /\ pod # None => \A c \in DOMAIN pod.hooks \ up : step[c] = "none"

\* While Envoy runs, a poll stands for an Envoy that drains or could not be told
\* to, and a ready file and an answered request for one found with few connections.
StandsForDrained ==
  Envoy \in up =>
    /\ ready => quiet
    /\ \A c \in up : /\ step[c] = "poll" => draining \/ unheard
                     /\ step[c] = "done" => quiet

\* In a pod that stays, only the manager creates the ready file, just before it
\* is replaced itself; so none is left when Envoy starts again.
NothingLeft ==
  ~deleted =>
    /\ \A c \in up \ {Envoy, Mgr} : step[c] = "none"
    /\ ready => step[Mgr] = "done"
    /\ Envoy \in up /\ step[Envoy] = "done" => Mgr \in up /\ step[Mgr] = "done"
    /\ Envoy \notin up => \A c \in up : step[c] = "poll" => unheard

PodInv == PodType /\ Lifetimes /\ (~excused => StandsForDrained /\ NothingLeft)

\* What templates are made from, and the pod templates on their way to a pod.
TemplatesOK ==
  /\ spec \in Specs \cup {None}
  /\ ecs \in [EnvoyConfigs -> NodeIDs \cup {None}]
  /\ \A d \in DOMAIN services : services[d] \in Addresses
  /\ deployment # None => PodOK(deployment.template)
  /\ worker.at \in {"certificate", "deployment"} => PodOK(worker.template)

Inv == PodInv /\ TemplatesOK

-----------------------------------------------------------------------------
(***************************************************************************)
(* The steps of the pod.                                                   *)
(***************************************************************************)

USE EnvoyPodAssumption DEF Envoy, Mgr

\* A new pod has neither requests nor a ready file.
LEMMA StartPodInv ==
  ASSUME PodInv, NEW p, PodOK(p), StartPod(p)
  PROVE  PodInv'
BY DEF PodInv, PodType, Lifetimes, StandsForDrained, NothingLeft, StartPod, PodOK, Managed

\* The kubelet calls hooks.
LEMMA TerminateInv ==
  ASSUME PodInv, pod # None, NEW S, Terminate(S),
         \/ deleted'
         \/ ~deleted' /\ ~deleted /\ S \subseteq {Envoy, Mgr},
         deleted' \in BOOLEAN
  PROVE  PodInv'
<1> DEFINE idle == {c \in S \cap up : step[c] = "none"}
           called == {c \in idle : pod.hooks[c] # None /\ Mgr \in up}
           gone == idle \ called
           first(c) == IF pod.hooks[c] = "/drain" THEN "signal" ELSE "wait"
<1>1. /\ up' = up \ gone
      /\ step' = [c \in DOMAIN step |-> IF c \in called THEN first(c) ELSE step[c]]
      /\ draining' = (draining /\ Envoy \notin gone)
      /\ quiet' = (quiet /\ Envoy \notin gone)
      /\ open' = IF Envoy \in gone THEN 0 ELSE open
      /\ excused' = (excused \/ Envoy \in gone)
      /\ pod' = pod /\ ready' = ready /\ unheard' = unheard
  BY DEF Terminate
<1>2. /\ idle \subseteq up /\ called \subseteq up /\ gone \subseteq up
      /\ \A c \in called : c \in S /\ step[c] = "none" /\ Mgr \in up
      /\ \A c \in gone : step[c] = "none"
      /\ Mgr \in up => Mgr \in up'
  BY <1>1 DEF PodInv, PodType, PodOK
<1>3. PodType'
  <2>1. step' \in [DOMAIN pod.hooks -> {"none", "signal", "poll", "wait", "done"}]
    BY <1>1 DEF PodInv, PodType
  <2>. QED  BY <1>1, <1>2, <2>1 DEF PodInv, PodType, PodOK
<1>4. Lifetimes'
  <2>1. \A c \in up' : step'[c] # "none" => Mgr \in up'
    BY <1>1, <1>2 DEF PodInv, PodType, Lifetimes
  <2>2. Envoy \in up' => step'[Envoy] \notin {"signal", "poll"}
    BY <1>1, <1>2 DEF PodInv, PodType, Lifetimes, PodOK
  <2>3. \A c \in DOMAIN pod.hooks \ up' : step'[c] = "none"
    BY <1>1, <1>2 DEF PodInv, PodType, Lifetimes
  <2>. QED  BY <1>1, <1>2, <2>1, <2>2, <2>3 DEF PodInv, PodType, Lifetimes
<1>5. ASSUME ~excused' PROVE StandsForDrained' /\ NothingLeft'
  <2>1. ~excused /\ Envoy \notin gone /\ (Envoy \in up' <=> Envoy \in up)
    BY <1>1, <1>5 DEF PodInv, PodType
  <2>2. StandsForDrained'
    BY <1>1, <1>2, <2>1 DEF PodInv, PodType, StandsForDrained
  <2>3. NothingLeft'
    BY <1>1, <1>2, <2>1 DEF PodInv, PodType, Lifetimes, NothingLeft
  <2>. QED  BY <2>2, <2>3
<1>. QED  BY <1>3, <1>4, <1>5 DEF PodInv

LEMMA SignalDrainInv ==
  ASSUME PodInv, NEW c, SignalDrain(c)
  PROVE  PodInv'
BY DEF PodInv, PodType, Lifetimes, StandsForDrained, NothingLeft, SignalDrain, PodOK

LEMMA SignalFailsInv ==
  ASSUME PodInv, NEW c, SignalFails(c)
  PROVE  PodInv'
<1>1. CASE attempts[c] < 3
  <2>1. UNCHANGED <<pod, deleted, up, step, ready, draining, open, quiet, unheard, excused>>
    BY <1>1 DEF SignalFails
  <2>. QED  BY <2>1 DEF PodInv, PodType, Lifetimes, StandsForDrained, NothingLeft, PodOK
<1>2. CASE ~(attempts[c] < 3)
  <2>1. /\ c \in up /\ step[c] = "signal"
        /\ step' = [step EXCEPT ![c] = "poll"] /\ unheard' = TRUE
        /\ UNCHANGED <<pod, deleted, up, ready, draining, open, quiet, excused>>
    BY <1>2 DEF SignalFails
  <2>. QED  BY <2>1 DEF PodInv, PodType, Lifetimes, StandsForDrained, NothingLeft, PodOK
<1>. QED  BY <1>1, <1>2

\* The manager never counts fewer connections than there are.
LEMMA CountedAreOpen ==
  ASSUME open \in Nat, OpenConnections <= MinOpenConnections
  PROVE  open <= MinOpenConnections
<1>1. Labels * open = open + (Labels - 1) * open
  OBVIOUS
<1>2. (Labels - 1) * open \in Nat
  OBVIOUS
<1>. QED  BY <1>1, <1>2 DEF OpenConnections

LEMMA PollInv ==
  ASSUME PodInv, NEW c, Poll(c)
  PROVE  PodInv'
<1>1. quiet' = TRUE
  BY CountedAreOpen DEF Poll, Observe, PodInv, PodType
<1>2. /\ c \in up /\ step[c] = "poll" /\ Envoy \in up
      /\ ready' \in {ready, TRUE}
      /\ step' = [step EXCEPT ![c] = "done"]
      /\ UNCHANGED <<pod, deleted, up, draining, open, unheard, excused>>
  BY DEF Poll
<1>. QED
  BY <1>1, <1>2 DEF PodInv, PodType, Lifetimes, StandsForDrained, NothingLeft, PodOK

LEMMA CheckReadyInv ==
  ASSUME PodInv, NEW c, CheckReady(c)
  PROVE  PodInv'
BY DEF PodInv, PodType, Lifetimes, StandsForDrained, NothingLeft, CheckReady, PodOK

LEMMA RestartContainerInv ==
  ASSUME PodInv, NEW c, RestartContainer(c)
  PROVE  PodInv'
BY DEF PodInv, PodType, Lifetimes, StandsForDrained, NothingLeft, RestartContainer, PodOK

LEMMA OpenInv ==
  ASSUME PodInv, Open
  PROVE  PodInv'
BY DEF PodInv, PodType, Lifetimes, StandsForDrained, NothingLeft, Open, PodOK

LEMMA CloseInv ==
  ASSUME PodInv, Close
  PROVE  PodInv'
BY DEF PodInv, PodType, Lifetimes, StandsForDrained, NothingLeft, Close, PodOK

LEMMA RemovePodInv ==
  ASSUME PodInv, RemovePod
  PROVE  PodInv'
BY DEF PodInv, PodType, Lifetimes, StandsForDrained, NothingLeft, RemovePod, PodOK

LEMMA HookIsOverInv ==
  ASSUME PodInv, NEW c, HookIsOver(c)
  PROVE  PodInv'
BY DEF PodInv, PodType, Lifetimes, StandsForDrained, NothingLeft, HookIsOver, PodOK, Stopping, Stopped

LEMMA GracePeriodEndsInv ==
  ASSUME PodInv, NEW c, GracePeriodEnds(c)
  PROVE  PodInv'
BY DEF PodInv, PodType, Lifetimes, StandsForDrained, NothingLeft, GracePeriodEnds, PodOK, Stopping, Stopped

LEMMA CrashInv ==
  ASSUME PodInv, NEW c, Crash(c)
  PROVE  PodInv'
BY DEF PodInv, PodType, Lifetimes, StandsForDrained, NothingLeft, Crash, PodOK, Stopping, Stopped

\* A pod is deleted, or the probe of a container fails.
LEMMA DeletePodInv ==
  ASSUME PodInv, DeletePod
  PROVE  PodInv'
BY TerminateInv DEF DeletePod

LEMMA ProbeInv ==
  ASSUME OwnProbes, PodInv,
         (\E c \in Containers : ProbeFails(c)) \/ DrainingProbeFails
  PROVE  PodInv'
<1>1. CASE \E c \in Containers : ProbeFails(c)
  <2>1. PICK c \in Containers : ProbeFails(c)
    BY <1>1
  <2>2. /\ pod # None /\ Terminate({c}) /\ {c} \subseteq {Envoy, Mgr}
        /\ ~deleted /\ deleted' = deleted /\ ~deleted' /\ deleted' \in BOOLEAN
    BY <2>1 DEF ProbeFails, Containers, OwnProbes, PodInv, PodType
  <2>. QED  BY <2>2, TerminateInv
<1>2. CASE DrainingProbeFails
  <2>1. /\ pod # None /\ Terminate({Envoy})
        /\ ~deleted /\ ~deleted' /\ deleted' \in BOOLEAN
    BY <1>2 DEF DrainingProbeFails, PodInv, PodType
  <2>. QED  BY <2>1, TerminateInv
<1>. QED  BY <1>1, <1>2

LEMMA PodStepInv ==
  ASSUME OwnProbes, PodInv, PodStep
  PROVE  PodInv'
<1>1. CASE Kubelet
  BY <1>1, SignalDrainInv, SignalFailsInv, PollInv, CheckReadyInv, HookIsOverInv,
     GracePeriodEndsInv, RestartContainerInv, ProbeInv, RemovePodInv DEF Kubelet
<1>2. CASE PodFault
  BY <1>2, ProbeInv, CrashInv DEF PodFault
<1>. QED  BY <1>1, <1>2, OpenInv, CloseInv DEF PodStep

-----------------------------------------------------------------------------
(***************************************************************************)
(* The whole system.                                                       *)
(***************************************************************************)

\* Both generators make pods that are in order.
LEMMA TemplateOK ==
  ASSUME NEW s \in Specs, NEW address \in Addresses, NEW nodeID \in NodeIDs
  PROVE  PodOK(Template(s, address, nodeID))
<1>1. Template(s, address, nodeID) # None
  BY EnvoyDeploymentsAssumption DEF Templates
<1>. QED  BY <1>1 DEF Template, Pod, Hook, PodOK

LEMMA HandleOK ==
  ASSUME OtherHooks, NEW a \in Annotations, NEW ss, Handle(a, OtherContainers, ss) # None
  PROVE  PodOK(Handle(a, OtherContainers, ss))
<1> DEFINE cc == PopulateFromAnnotations(a, ss)
           extra == IF isShtdnMgrEnabled(a) THEN Range(Param(a.hooks, <<>>)) ELSE {}
           p == Pod(cc, OtherContainers)
           q == [p EXCEPT !.hooks = [c \in DOMAIN p.hooks |->
                    IF c \in extra THEN "/drain" ELSE p.hooks[c]]]
<1>1. Handle(a, OtherContainers, ss) = q /\ q # None
  BY DEF Handle
<1>2. Envoy \notin extra
  BY DEF OtherHooks
<1> HIDE DEF cc, extra
<1>3. /\ Envoy \in DOMAIN p.hooks /\ p.hooks[Envoy] \in {None, "/shutdown"}
      /\ Mgr \in DOMAIN p.hooks => p.hooks[Mgr] = "/drain"
      /\ q.hooks = [c \in DOMAIN p.hooks |-> IF c \in extra THEN "/drain" ELSE p.hooks[c]]
  BY DEF Pod, Hook, OtherHooks
<1> HIDE DEF p, q
<1>. QED  BY <1>1, <1>2, <1>3 DEF PodOK

\* A step that leaves the pod alone.
LEMMA PodUnchanged ==
  ASSUME PodInv,
         UNCHANGED <<pod, deleted, up, step, ready, draining, open, quiet, unheard, excused>>
  PROVE  PodInv'
BY DEF PodInv, PodType, Lifetimes, StandsForDrained, NothingLeft, PodOK

LEMMA NextInv ==
  ASSUME OwnProbes, OtherHooks, Inv, [Next]_vars
  PROVE  Inv'
<1>1. ASSUME UNCHANGED podVars PROVE PodInv'
  BY <1>1, PodUnchanged DEF Inv, podVars
<1>2. ASSUME UNCHANGED edVars PROVE TemplatesOK'
  BY <1>2 DEF Inv, TemplatesOK, PodOK, edVars, owned
<1>3. CASE UNCHANGED vars
  BY <1>1, <1>2, <1>3 DEF Inv, vars
<1>4. CASE PodStep /\ UNCHANGED edVars
  BY <1>2, <1>4, PodStepInv DEF Inv
<1>5. CASE RollOut
  <2>1. PodInv'
    BY <1>5, StartPodInv, DeletePodInv DEF RollOut, Inv, TemplatesOK
  <2>. QED  BY <1>2, <1>5, <2>1 DEF Inv, RollOut
<1>6. CASE RestartOperator
  BY <1>6, PodUnchanged DEF RestartOperator, Inv, TemplatesOK, PodOK, owned, Idle
<1>7. CASE Autoscale
  BY <1>1, <1>7 DEF Autoscale, Inv, TemplatesOK, PodOK
<1>8. CASE Reconcile
  <2>1. CASE StartReconcile
    <3>1. /\ spec \in Specs /\ ecs[spec.ec] \in NodeIDs
          /\ services[spec.ds] \in Addresses
      BY <2>1, EnvoyDeploymentsAssumption DEF StartReconcile, Resolved, Inv, TemplatesOK
    <3>2. PodOK(Wanted)
      BY <3>1, TemplateOK DEF Wanted
    <3>. QED  BY <1>1, <2>1, <3>2 DEF StartReconcile, Inv, TemplatesOK, PodOK, owned
  <2>2. CASE ReconcileCertificate
    BY <1>1, <2>2 DEF ReconcileCertificate, Inv, TemplatesOK, PodOK
  <2>3. CASE ReconcileDeployment
    BY <1>1, <2>3 DEF ReconcileDeployment, Inv, TemplatesOK, PodOK
  <2>4. CASE ReconcileHPA
    BY <1>1, <2>4 DEF ReconcileHPA, Inv, TemplatesOK, PodOK
  <2>5. CASE ReconcilePDB
    BY <1>1, <2>5 DEF ReconcilePDB, Inv, TemplatesOK, PodOK, Idle
  <2>. QED  BY <1>8, <2>1, <2>2, <2>3, <2>4, <2>5 DEF Reconcile
<1>9. CASE Users
  <2>1. ASSUME NEW s \in Specs, ApplyEnvoyDeployment(s) PROVE Inv'
    BY <1>1, <2>1 DEF ApplyEnvoyDeployment, Inv, TemplatesOK, PodOK, owned
  <2>2. ASSUME NEW e \in EnvoyConfigs, ChangeEnvoyConfig(e) PROVE Inv'
    BY <1>1, <2>2 DEF ChangeEnvoyConfig, Inv, TemplatesOK, PodOK, owned
  <2>3. CASE ChangeDiscoveryService
    BY <1>1, <2>3 DEF ChangeDiscoveryService, Inv, TemplatesOK, PodOK, owned
  <2>4. CASE DeleteOwned
    BY <1>1, <2>4 DEF DeleteOwned, Inv, TemplatesOK, PodOK
  <2>5. ASSUME NEW a \in Annotations, CreatePod(a) PROVE Inv'
    BY <2>5, HandleOK, StartPodInv DEF CreatePod, Inv, TemplatesOK, PodOK, owned
  <2>6. CASE EvictPod
    BY <2>6, DeletePodInv DEF EvictPod, Inv, TemplatesOK, PodOK, owned
  <2>. QED  BY <1>9, <2>1, <2>2, <2>3, <2>4, <2>5, <2>6 DEF Users
<1>. QED  BY <1>3, <1>4, <1>5, <1>6, <1>7, <1>8, <1>9 DEF Next

\* What the promise is about.
Seen == <<up, draining, open, quiet, unheard, excused>>

\* A step that starts Envoy; stops it, found with few connections or with an
\* excuse; opens or closes a connection; tells Envoy to drain or fails to; finds
\* few connections open; makes an excuse; or leaves all that alone, is promised.
PromisedStep ==
  \/ UNCHANGED Seen
  \/ /\ Envoy \notin up /\ Envoy \in up' /\ UNCHANGED <<draining, open, quiet>>
     /\ unheard' \in {unheard, FALSE} /\ excused' \in BOOLEAN
  \/ /\ Envoy \in up /\ Envoy \in up' /\ UNCHANGED <<draining, quiet, unheard, excused>>
     /\ open' = open + 1 \/ (open > 0 /\ open' = open - 1)
  \/ /\ Envoy \in up /\ Envoy \in up' /\ UNCHANGED <<open, quiet, unheard, excused>>
     /\ draining' = TRUE
  \/ /\ Envoy \in up' <=> Envoy \in up
     /\ UNCHANGED <<draining, open, quiet, excused>> /\ unheard' = TRUE
  \/ /\ Envoy \in up /\ Envoy \in up' /\ UNCHANGED <<draining, open, unheard, excused>>
     /\ draining \/ unheard \/ excused
     /\ open <= MinOpenConnections /\ quiet' = TRUE
  \/ /\ Envoy \in up' <=> Envoy \in up
     /\ UNCHANGED <<draining, open, quiet, unheard>> /\ excused' \in {excused, TRUE}
  \/ /\ Envoy \in up /\ Envoy \notin up'
     /\ draining' = FALSE /\ open' = 0 /\ quiet' = FALSE /\ unheard' = unheard
     /\ excused' \in {excused, TRUE}
     /\ quiet \/ excused'

LEMMA PromisedSteps ==
  ASSUME PodInv, PromisedStep
  PROVE  [Promise!Next]_(Promise!vars)
<1> DEFINE running == Envoy \in up
<1>1. running \in BOOLEAN /\ running' \in BOOLEAN /\ excused \in BOOLEAN
  BY DEF PodInv, PodType
<1>2. CASE UNCHANGED Seen
  BY <1>2 DEF Promise!vars, Seen
<1>3. CASE /\ ~running /\ running' /\ UNCHANGED <<draining, open, quiet>>
           /\ unheard' \in {unheard, FALSE} /\ excused' \in BOOLEAN
  <2>1. running' = TRUE
    BY <1>1, <1>3
  <2>. QED  BY <1>3, <2>1 DEF Promise!Next, Promise!Start
<1>4. CASE running' <=> running
  <2>1. running' = running
    BY <1>1, <1>4
  <2>. QED
    BY <1>4, <2>1 DEF PromisedStep, Seen, Promise!Next, Promise!Open, Promise!Close,
       Promise!Drain, Promise!GiveUp, Promise!FindFew, Promise!Excuse, Promise!vars
<1>5. CASE /\ running /\ ~running'
           /\ draining' = FALSE /\ open' = 0 /\ quiet' = FALSE /\ unheard' = unheard
           /\ excused' \in {excused, TRUE}
           /\ quiet \/ excused'
  <2>1. running' = FALSE
    BY <1>1, <1>5
  <2>. QED  BY <1>5, <2>1 DEF Promise!Next, Promise!Stop
<1>. QED  BY <1>2, <1>3, <1>4, <1>5 DEF PromisedStep

\* The actions that may start or stop Envoy.
LEMMA StartIsPromised ==
  ASSUME PodInv, NEW p, PodOK(p), StartPod(p)
  PROVE  PromisedStep
BY DEF StartPod, PodOK, PodInv, PodType, Lifetimes, PromisedStep

LEMMA TerminateIsPromised ==
  ASSUME PodInv, NEW S, Terminate(S)
  PROVE  PromisedStep
BY DEF Terminate, PodInv, PodType, Lifetimes, PromisedStep

LEMMA HookIsOverIsPromised ==
  ASSUME PodInv, NEW c, HookIsOver(c)
  PROVE  PromisedStep
BY DEF HookIsOver, Stopping, Stopped, PodInv, PodType, Lifetimes, StandsForDrained,
       PromisedStep

LEMMA AbruptStopIsPromised ==
  ASSUME PodInv, NEW c, GracePeriodEnds(c) \/ Crash(c)
  PROVE  PromisedStep
BY DEF GracePeriodEnds, Crash, Stopping, Stopped, PodInv, PodType, Lifetimes, PromisedStep

LEMMA OtherPodStepIsPromised ==
  ASSUME PodInv, NEW c,
         \/ SignalDrain(c) \/ SignalFails(c) \/ Poll(c) \/ CheckReady(c)
         \/ RestartContainer(c) \/ RemovePod \/ Open \/ Close
  PROVE  PromisedStep
<1>1. CASE CheckReady(c) \/ RemovePod
  BY <1>1 DEF CheckReady, RemovePod, PromisedStep, Seen
<1>2. CASE SignalDrain(c)
  BY <1>2 DEF SignalDrain, PromisedStep
<1>3. CASE SignalFails(c)
  <2>1. UNCHANGED <<up, draining, open, quiet, excused>> /\ unheard' \in {unheard, TRUE}
    BY <1>3 DEF SignalFails
  <2>. QED  BY <2>1 DEF PromisedStep, Seen
<1>4. CASE Poll(c)
  <2>1. open <= MinOpenConnections /\ quiet' = TRUE
    BY <1>4, CountedAreOpen DEF Poll, Observe, PodInv, PodType
  <2>2. draining \/ unheard \/ excused
    BY <1>4 DEF Poll, PodInv, StandsForDrained
  <2>3. Envoy \in up /\ Envoy \in up' /\ UNCHANGED <<draining, open, unheard, excused>>
    BY <1>4 DEF Poll
  <2>. QED  BY <2>1, <2>2, <2>3 DEF PromisedStep
<1>5. CASE RestartContainer(c)
  BY <1>5 DEF RestartContainer, PodInv, PodType, PromisedStep
<1>6. CASE Open
  BY <1>6 DEF Open, PromisedStep
<1>7. CASE Close
  <2>1. Envoy \in up
    BY <1>7 DEF Close, PodInv, Lifetimes
  <2>. QED  BY <1>7, <2>1 DEF Close, PromisedStep
<1>. QED  BY <1>1, <1>2, <1>3, <1>4, <1>5, <1>6, <1>7

LEMMA NextIsPromised ==
  ASSUME OtherHooks, Inv, [Next]_vars
  PROVE  PromisedStep
<1>1. CASE UNCHANGED Seen
  BY <1>1 DEF PromisedStep
<1>2. CASE PodStep
  <2>1. CASE Kubelet
    BY <2>1, TerminateIsPromised, HookIsOverIsPromised, AbruptStopIsPromised,
       OtherPodStepIsPromised DEF Kubelet, DrainingProbeFails, Inv
  <2>2. CASE PodFault
    BY <2>2, TerminateIsPromised, AbruptStopIsPromised DEF PodFault, ProbeFails, Inv
  <2>. QED  BY <1>2, <2>1, <2>2, OtherPodStepIsPromised DEF PodStep, Inv
<1>3. CASE RollOut \/ EvictPod
  BY <1>3, StartIsPromised, TerminateIsPromised
     DEF RollOut, EvictPod, DeletePod, Inv, TemplatesOK
<1>4. ASSUME NEW a \in Annotations, CreatePod(a) PROVE PromisedStep
  BY <1>4, HandleOK, StartIsPromised DEF CreatePod, Inv
<1>. QED
  BY <1>1, <1>2, <1>3, <1>4
     DEF Next, Users, Reconcile, ApplyEnvoyDeployment, ChangeEnvoyConfig,
         ChangeDiscoveryService, DeleteOwned, StartReconcile, ReconcileCertificate,
         ReconcileDeployment, ReconcileHPA, ReconcilePDB, RestartOperator, Autoscale,
         podVars, vars, Seen

\* For any specs, annotations, bounds, labels and numbers of connections: with
\* probes that fail only for Envoy and its shutdown manager, and extra hooks only
\* in other containers, no interleaving of hooks, drain requests, probes, pod
\* deletions and clients stops Envoy before its connections were found few,
\* unless the grace period ends or a container crashes.
THEOREM EnvoyStopsGracefully ==
  ASSUME OwnProbes, OtherHooks
  PROVE  Spec => StopsGracefully
<1>1. Init => Inv
  <2> SUFFICES ASSUME Init PROVE Inv
    OBVIOUS
  <2>1. PodInv
    BY DEF Init, PodInit, NoPod, PodInv, PodType, Lifetimes, StandsForDrained, NothingLeft
  <2>2. TemplatesOK
    BY DEF Init, TemplatesOK, Idle
  <2>. QED  BY <2>1, <2>2 DEF Inv
<1>2. Inv /\ [Next]_vars => Inv'
  BY NextInv
<1>3. Init => Promise!Init
  <2> SUFFICES ASSUME Init PROVE Promise!Init
    OBVIOUS
  <2>1. /\ up = {} /\ draining = FALSE /\ open = 0 /\ quiet = FALSE
        /\ unheard = FALSE /\ excused = FALSE
    BY DEF Init, PodInit, NoPod
  <2> DEFINE running == Envoy \in up
  <2>2. running = FALSE
    <3>1. running \in BOOLEAN /\ ~running
      BY <2>1
    <3> HIDE DEF running
    <3>. QED  BY <3>1
  <2>. QED  BY <2>1, <2>2 DEF Promise!Init
<1>4. Inv /\ [Next]_vars => [Promise!Next]_(Promise!vars)
  BY NextIsPromised, PromisedSteps DEF Inv
<1>. QED  BY <1>1, <1>2, <1>3, <1>4, PTL DEF Spec, StopsGracefully, Promise!Spec

-----------------------------------------------------------------------------
(***************************************************************************)
(* The objects of an EnvoyDeployment.                                      *)
(***************************************************************************)

ObjectsType ==
  /\ spec \in Specs \cup {None}
  /\ ecs \in [EnvoyConfigs -> NodeIDs \cup {None}]
  /\ services \in {<<>>} \cup [{DSName} -> Addresses]
  /\ queued \in BOOLEAN /\ cert \in BOOLEAN /\ hpa \in BOOLEAN
  /\ \/ worker = Idle
     \/ worker \in [at : {"certificate", "deployment", "autoscaler", "budget"},
                    spec : Specs, template : Templates]
  /\ deployment \in Deployments \cup {None}

DeploymentDone ==
  /\ deployment # None
  /\ deployment.template = Wanted
  /\ ~Dynamic(spec) => deployment.replicas = Static(spec)

\* As long as no other reconcile is requested, the one in progress works with
\* the present state of what it has read, and what it has passed is done.
ReconcileIsCurrent ==
  /\ worker.at # "idle" => worker.spec = spec
  /\ worker.at \in {"certificate", "deployment"} => worker.template = Wanted
  /\ worker.at # "certificate" => cert
  /\ worker.at \in {"autoscaler", "budget", "idle"} => DeploymentDone
  /\ worker.at \in {"budget", "idle"} => hpa = Dynamic(spec)
  /\ worker.at = "idle" => pdb = spec.pdb

ObjectsInv == ObjectsType /\ (~queued /\ Resolved => ReconcileIsCurrent)

\* What keeps an EnvoyDeployment and what it is made from keeps the invariant,
\* if it keeps the worker and the objects or requests a reconcile.
LEMMA ObjectsFrame ==
  ASSUME ObjectsInv, ObjectsType',
         \/ queued'
         \/ UNCHANGED <<spec, ecs, services, queued, worker, owned>>
  PROVE  ObjectsInv'
<1>1. CASE queued'
  BY <1>1 DEF ObjectsInv
<1>2. CASE UNCHANGED <<spec, ecs, services, queued, worker, owned>>
  <2>1. UNCHANGED <<Resolved, Wanted>>
    BY <1>2 DEF Resolved, Wanted
  <2>2. Resolved /\ ~queued /\ ReconcileIsCurrent => ReconcileIsCurrent'
    BY <1>2, <2>1 DEF ReconcileIsCurrent, DeploymentDone, owned
  <2>. QED  BY <1>2, <2>1, <2>2 DEF ObjectsInv
<1>. QED  BY <1>1, <1>2

\* A reconcile starts with nothing compared yet.
LEMMA StartReconcileObjects ==
  ASSUME ObjectsInv, StartReconcile
  PROVE  ObjectsInv'
<1>1. /\ spec \in Specs /\ ecs[spec.ec] \in NodeIDs
      /\ services[spec.ds] \in Addresses
  <2>1. spec \in Specs /\ spec.ec \in EnvoyConfigs
    BY EnvoyDeploymentsAssumption DEF StartReconcile, Resolved, ObjectsInv, ObjectsType
  <2>2. ecs[spec.ec] \in NodeIDs
    BY <2>1 DEF StartReconcile, Resolved, ObjectsInv, ObjectsType
  <2>3. services[spec.ds] \in Addresses
    BY DEF StartReconcile, Resolved, ObjectsInv, ObjectsType
  <2>. QED  BY <2>1, <2>2, <2>3
<1>2. Wanted \in Templates
  BY <1>1 DEF Wanted, Templates
<1>3. UNCHANGED <<spec, ecs, services, owned, Wanted>>
  BY DEF StartReconcile, Wanted
<1>4. worker' = [at |-> "certificate", spec |-> spec, template |-> Wanted] /\ queued' = FALSE
  BY DEF StartReconcile
<1> HIDE DEF Wanted
<1>5. ObjectsType'
  BY <1>1, <1>2, <1>3, <1>4 DEF ObjectsInv, ObjectsType, owned
<1>6. ReconcileIsCurrent'
  BY <1>3, <1>4 DEF ReconcileIsCurrent
<1>. QED  BY <1>5, <1>6 DEF ObjectsInv

\* A write that changes its object requests another reconcile; so when none is
\* requested after it, the object was there already.
LEMMA ReconcileCertificateObjects ==
  ASSUME ObjectsInv, ReconcileCertificate
  PROVE  ObjectsInv'
<1>1. worker' = [worker EXCEPT !.at = "deployment"] /\ worker.at = "certificate"
      /\ worker \in [at : {"certificate", "deployment", "autoscaler", "budget"},
                     spec : Specs, template : Templates]
  BY DEF ReconcileCertificate, ObjectsInv, ObjectsType, Idle
<1>2. ObjectsType'
  BY <1>1 DEF ReconcileCertificate, ObjectsInv, ObjectsType
<1>3. UNCHANGED <<spec, ecs, services, deployment, hpa, pdb, Resolved, Wanted>>
  BY DEF ReconcileCertificate, Resolved, Wanted
<1>4. ~queued' => ~queued /\ cert'
  BY DEF ReconcileCertificate, ObjectsInv, ObjectsType
<1>5. ~queued' /\ Resolved' => ReconcileIsCurrent'
  BY <1>1, <1>3, <1>4 DEF ObjectsInv, ReconcileIsCurrent
<1>. QED  BY <1>2, <1>5 DEF ObjectsInv

\* The Deployment is then as the reconcile wants it, or another one is asked for.
LEMMA ReconcileDeploymentObjects ==
  ASSUME ObjectsInv, ReconcileDeployment
  PROVE  ObjectsInv'
<1> DEFINE new == [template |-> worker.template,
                   replicas |-> SetDeploymentReplicas(worker.spec)]
<1>1. worker' = [worker EXCEPT !.at = "autoscaler"] /\ worker.at = "deployment"
      /\ worker \in [at : {"certificate", "deployment", "autoscaler", "budget"},
                     spec : Specs, template : Templates]
  BY DEF ReconcileDeployment, ObjectsInv, ObjectsType, Idle
<1>2. /\ deployment' = new
      /\ queued' = (queued \/ deployment # new)
      /\ UNCHANGED <<spec, ecs, services, cert, hpa, pdb>>
  BY DEF ReconcileDeployment
<1>3. new \in Deployments
  <2>1. SetDeploymentReplicas(worker.spec) \in Scales \cup {Static(s) : s \in Specs}
    BY <1>1 DEF ObjectsInv, ObjectsType, SetDeploymentReplicas, Deployments
  <2>. QED  BY <1>1, <2>1 DEF Deployments
<1>4. new # None
  BY <1>3, EnvoyDeploymentsAssumption
<1>5. new.template = worker.template
      /\ (~Dynamic(worker.spec) => new.replicas = Static(worker.spec))
  BY DEF SetDeploymentReplicas
<1> HIDE DEF new
<1>6. ObjectsType'
  BY <1>1, <1>2, <1>3 DEF ObjectsInv, ObjectsType
<1>7. UNCHANGED <<Resolved, Wanted>>
  BY <1>2 DEF Resolved, Wanted
<1>8. ~queued' => ~queued
  BY <1>2 DEF ObjectsInv, ObjectsType
<1>9. ASSUME ~queued', Resolved' PROVE ReconcileIsCurrent'
  <2>1. ReconcileIsCurrent
    BY <1>7, <1>8, <1>9 DEF ObjectsInv
  <2>2. worker.spec = spec /\ worker.template = Wanted /\ cert
    BY <1>1, <2>1 DEF ReconcileIsCurrent
  <2>3. DeploymentDone'
    BY <1>2, <1>4, <1>5, <1>7, <2>2 DEF DeploymentDone
  <2>. QED  BY <1>1, <1>2, <2>2, <2>3 DEF ReconcileIsCurrent
<1>. QED  BY <1>6, <1>9 DEF ObjectsInv

\* So is the HorizontalPodAutoscaler.
LEMMA ReconcileHPAObjects ==
  ASSUME ObjectsInv, ReconcileHPA
  PROVE  ObjectsInv'
<1>1. worker' = [worker EXCEPT !.at = "budget"] /\ worker.at = "autoscaler"
      /\ worker \in [at : {"certificate", "deployment", "autoscaler", "budget"},
                     spec : Specs, template : Templates]
  BY DEF ReconcileHPA, ObjectsInv, ObjectsType, Idle
<1>2. hpa' = Dynamic(worker.spec) /\ Dynamic(worker.spec) \in BOOLEAN
  BY DEF ReconcileHPA, Dynamic
<1>3. UNCHANGED <<spec, ecs, services, cert, deployment, pdb, Resolved, Wanted>>
  BY DEF ReconcileHPA, Resolved, Wanted
<1>4. queued' \in BOOLEAN /\ (~queued' => ~queued)
  BY DEF ReconcileHPA, ObjectsInv, ObjectsType
<1> HIDE DEF Dynamic
<1>5. ObjectsType'
  BY <1>1, <1>2, <1>3, <1>4 DEF ObjectsInv, ObjectsType
<1>6. ASSUME ~queued', Resolved' PROVE ReconcileIsCurrent'
  <2>1. worker.spec = spec /\ cert /\ DeploymentDone
    BY <1>1, <1>3, <1>4, <1>6 DEF ObjectsInv, ReconcileIsCurrent
  <2>2. DeploymentDone'
    BY <1>3, <2>1 DEF DeploymentDone
  <2>. QED  BY <1>1, <1>2, <1>3, <2>1, <2>2 DEF ReconcileIsCurrent
<1>. QED  BY <1>5, <1>6 DEF ObjectsInv

\* So is the PodDisruptionBudget.
LEMMA ReconcilePDBObjects ==
  ASSUME ObjectsInv, ReconcilePDB
  PROVE  ObjectsInv'
<1>1. worker' = Idle /\ worker'.at = "idle" /\ worker.at = "budget"
  BY DEF ReconcilePDB, Idle
<1>2. pdb' = worker.spec.pdb
      /\ UNCHANGED <<spec, ecs, services, cert, deployment, hpa, Resolved, Wanted>>
  BY DEF ReconcilePDB, Resolved, Wanted
<1>3. queued' \in BOOLEAN /\ (~queued' => ~queued)
  BY DEF ReconcilePDB, ObjectsInv, ObjectsType
<1>4. ObjectsType'
  BY <1>1, <1>2, <1>3 DEF ObjectsInv, ObjectsType
<1>5. ASSUME ~queued', Resolved' PROVE ReconcileIsCurrent'
  <2>1. worker.spec = spec /\ cert /\ DeploymentDone /\ hpa = Dynamic(spec)
    BY <1>1, <1>2, <1>3, <1>5 DEF ObjectsInv, ReconcileIsCurrent
  <2>2. DeploymentDone'
    BY <1>2, <2>1 DEF DeploymentDone
  <2>. QED  BY <1>1, <1>2, <2>1, <2>2 DEF ReconcileIsCurrent
<1>. QED  BY <1>4, <1>5 DEF ObjectsInv

\* The handlers of EnvoyConfigs and of DiscoveryServices request a reconcile
\* whenever the template may be another one.
LEMMA UsersObjects ==
  ASSUME ObjectsInv, Users
  PROVE  ObjectsInv'
<1>1. ASSUME NEW s \in Specs, ApplyEnvoyDeployment(s) PROVE ObjectsInv'
  <2>1. ObjectsType'
    BY <1>1 DEF ApplyEnvoyDeployment, ObjectsInv, ObjectsType, owned
  <2>. QED  BY <1>1, <2>1, ObjectsFrame DEF ApplyEnvoyDeployment
<1>2. ASSUME NEW e \in EnvoyConfigs, ChangeEnvoyConfig(e) PROVE ObjectsInv'
  <2>1. PICK n \in NodeIDs \cup {None} : ecs' = [ecs EXCEPT ![e] = n]
    BY <1>2 DEF ChangeEnvoyConfig
  <2>2. UNCHANGED <<spec, services, worker, owned>>
    BY <1>2 DEF ChangeEnvoyConfig
  <2>3. queued' \in BOOLEAN /\ (~queued' => ~queued /\ ~EnvoyConfigHandler(e))
    BY <1>2 DEF ChangeEnvoyConfig, ObjectsInv, ObjectsType
  <2>4. ObjectsType'
    BY <2>1, <2>2, <2>3 DEF ObjectsInv, ObjectsType, owned
  <2>5. ASSUME ~queued', Resolved' PROVE ReconcileIsCurrent'
    <3>1. spec \in Specs /\ spec.ec \in EnvoyConfigs /\ spec.ec # e
      BY <2>2, <2>3, <2>5, EnvoyDeploymentsAssumption
         DEF Resolved, EnvoyConfigHandler, ObjectsInv, ObjectsType
    <3>2. ecs'[spec.ec] = ecs[spec.ec]
      BY <2>1, <3>1 DEF ObjectsInv, ObjectsType
    <3>3. UNCHANGED <<Resolved, Wanted>>
      BY <2>2, <3>2 DEF Resolved, Wanted
    <3>4. ReconcileIsCurrent
      BY <2>3, <2>5, <3>3 DEF ObjectsInv
    <3>. QED  BY <2>2, <3>3, <3>4 DEF ReconcileIsCurrent, DeploymentDone, owned
  <2>. QED  BY <2>4, <2>5 DEF ObjectsInv
<1>3. CASE ChangeDiscoveryService
  <2>1. services' \in {<<>>} \cup [{DSName} -> Addresses] /\ UNCHANGED <<spec, ecs, worker, owned>>
    BY <1>3 DEF ChangeDiscoveryService
  <2>2. queued' \in BOOLEAN /\ (~queued' => ~DiscoveryServiceHandler(DSName))
    BY <1>3 DEF ChangeDiscoveryService, ObjectsInv, ObjectsType
  <2>3. ObjectsType'
    BY <2>1, <2>2 DEF ObjectsInv, ObjectsType, owned
  <2>4. DOMAIN services' \subseteq {DSName}
    BY <2>1
  <2>5. ~queued' => ~Resolved'
    BY <2>1, <2>2, <2>4 DEF Resolved, DiscoveryServiceHandler
  <2>. QED  BY <2>3, <2>5 DEF ObjectsInv
<1>4. CASE DeleteOwned
  <2>1. ObjectsType'
    BY <1>4 DEF DeleteOwned, ObjectsInv, ObjectsType
  <2>. QED  BY <1>4, <2>1, ObjectsFrame DEF DeleteOwned
<1>5. ASSUME UNCHANGED <<spec, ecs, services, queued, worker, owned>> PROVE ObjectsInv'
  <2>1. ObjectsType'
    BY <1>5 DEF ObjectsInv, ObjectsType, owned
  <2>. QED  BY <1>5, <2>1, ObjectsFrame
<1>6. ASSUME NEW a \in Annotations, CreatePod(a) PROVE ObjectsInv'
  BY <1>5, <1>6 DEF CreatePod
<1>7. CASE EvictPod
  BY <1>5, <1>7 DEF EvictPod
<1>. QED  BY <1>1, <1>2, <1>3, <1>4, <1>6, <1>7 DEF Users

\* Every step keeps ObjectsInv.
LEMMA NextObjects ==
  ASSUME ObjectsInv, [Next]_vars
  PROVE  ObjectsInv'
<1>1. ASSUME UNCHANGED edVars PROVE ObjectsInv'
  <2>1. ObjectsType'
    BY <1>1 DEF ObjectsInv, ObjectsType, edVars, owned
  <2>. QED  BY <1>1, <2>1, ObjectsFrame DEF edVars
<1>2. CASE RestartOperator
  <2>1. worker' = Idle /\ queued' = (spec # None) /\ UNCHANGED <<spec, ecs, services, owned>>
    BY <1>2 DEF RestartOperator
  <2>2. ObjectsType'
    BY <2>1 DEF ObjectsInv, ObjectsType, owned
  <2>3. Resolved' => queued'
    BY <2>1 DEF Resolved
  <2>. QED  BY <2>2, <2>3 DEF ObjectsInv
<1>3. CASE Autoscale
  <2>1. PICK n \in Scales : deployment' = [deployment EXCEPT !.replicas = n]
    BY <1>3 DEF Autoscale
  <2>2. deployment' \in Deployments
    BY <1>3, <2>1 DEF Autoscale, ObjectsInv, ObjectsType, Deployments
  <2>3. ObjectsType'
    BY <1>3, <2>2 DEF Autoscale, ObjectsInv, ObjectsType
  <2>. QED  BY <1>3, <2>3, ObjectsFrame DEF Autoscale
<1>4. CASE Reconcile
  BY <1>4, StartReconcileObjects, ReconcileCertificateObjects, ReconcileDeploymentObjects,
     ReconcileHPAObjects, ReconcilePDBObjects DEF Reconcile
<1>. QED  BY <1>1, <1>2, <1>3, <1>4, UsersObjects DEF Next, RollOut, vars

(***************************************************************************)
(* Whatever users, the autoscaler and restarts do between the steps of a   *)
(* reconcile: when the controller has nothing left to do, the certificate, *)
(* the Deployment, the autoscaler and the disruption budget are those of   *)
(* the present spec.                                                       *)
(***************************************************************************)
THEOREM ObjectsFollowSpec == Spec => []SettledObjects
<1>1. Init => ObjectsInv
  <2>. SUFFICES ASSUME Init PROVE ObjectsInv
    OBVIOUS
  <2>1. ObjectsType
    BY DEF Init, ObjectsType
  <2>2. ~Resolved
    BY DEF Init, Resolved
  <2>. QED  BY <2>1, <2>2 DEF ObjectsInv
<1>2. ObjectsInv => SettledObjects
  <2>. SUFFICES ASSUME ObjectsInv, ~queued, worker = Idle, Resolved PROVE SettledObjects
    BY DEF SettledObjects
  <2>1. worker.at = "idle"
    BY DEF Idle
  <2>2. ReconcileIsCurrent
    BY DEF ObjectsInv
  <2>3. cert /\ DeploymentDone /\ hpa = Dynamic(spec) /\ pdb = spec.pdb
    BY <2>1, <2>2 DEF ReconcileIsCurrent
  <2>. QED  BY <2>3 DEF DeploymentDone, SettledObjects
<1>. QED  BY <1>1, <1>2, NextObjects, PTL DEF Spec
=============================================================================
