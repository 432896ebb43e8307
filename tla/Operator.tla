------------------------------ MODULE Operator ------------------------------
(***************************************************************************)
(* The DiscoveryService controller, composed with the certificate          *)
(* controller of Certificates, which runs in the same operator.  For its   *)
(* DiscoveryService it keeps a root, a server and a client certificate     *)
(* object, the Service and the objects for access control, and a           *)
(* Deployment that carries the hash of the server certificate as a pod     *)
(* label, so that a new certificate rolls out a new pod.  The pod loads    *)
(* the server certificate and the root it verifies its clients with when   *)
(* it starts, and only then.                                               *)
(***************************************************************************)
EXTENDS Certificates

CONSTANTS
  root, server,  \* two of the certificates of the DiscoveryService, which Certs are
  Kinds          \* the kinds of its other objects: Service, Role, ...

\* What a running pod has: the label of its template, and what it loaded.
Pod == [label : Serials, server : Certificate, ca : Certificate]

\* The root asks for its renewal, and the server certificate is renewed by default.
ASSUME OperatorAssumption ==
  /\ root \in Certs /\ server \in Certs
  /\ Issuer[root] = None /\ Issuer[server] = root
  /\ {root, server} \subseteq Renewed
  /\ None \notin Pod

VARIABLES
  dsQueued,    \* a reconcile of the DiscoveryService is requested
  owned,       \* the kinds whose object exists
  deployment,  \* the hash label of the pod template; None: no Deployment
  pod          \* what the running pod loaded, None if there is no pod

dsVars == <<dsQueued, owned, deployment, pod>>
vars == <<certVars, dsVars>>

\* The DiscoveryService has just been created.
Created ==
  /\ CertInit
  /\ dsQueued = TRUE
  /\ owned = {}
  /\ deployment = None
  /\ pod = None

Init == Created /\ faults = 0

-----------------------------------------------------------------------------
(***************************************************************************)
(* The DiscoveryService controller.                                        *)
(***************************************************************************)

\* Owns: an event of a certificate object requests a reconcile.
Notice == dsQueued' = (dsQueued \/ (up /\ status' # status))

\* calculateServerCertificateHash: "" (None) if there is no object or no hash.
ServerHash == IF status[server] = None THEN None ELSE status[server].hash

\* What a pod with this label loads if it starts now: loadCertificate, loadCA.
Loaded(label) == [label |-> label, server |-> secret[server], ca |-> secret[root]]

\* Its container starts once the Secrets it mounts, those of all the
\* certificates of the DiscoveryService, exist.
CanLoad == \A c \in Certs : secret[c] # None

\* The label is put on the Deployment instead of its pods: a running pod stays.
RollOutInPlace(label) ==
  pod' = IF label # None /\ pod # None THEN [pod EXCEPT !.label = label]
         ELSE IF label # None /\ CanLoad THEN Loaded(label) ELSE None

\* A change of the pod template replaces the pod (the strategy is Recreate).
\* It starts at once if it can: a pod that starts later loads what is newer.
RollOut(label) ==
  pod' = IF label = deployment THEN pod
         ELSE IF label # None /\ CanLoad THEN Loaded(label) ELSE None

\* Reconcile: ReconcileOwnedResources creates what is missing and changes what
\* differs; the Deployment is disabled, that is deleted, as long as there is no
\* hash.  Every change is an event of an owned object, and without a hash the
\* reconcile asks for another one.  An event that arrives meanwhile leads to
\* another reconcile too, so that this one may be taken as a single step.
ReconcileDiscoveryService ==
  LET missing == {c \in Certs : status[c] = None}
  IN  /\ up /\ dsQueued
      /\ status' = [c \in Certs |-> IF c \in missing THEN NewStatus ELSE status[c]]
      /\ queue' = queue \cup missing \cup {c \in Certs : Issuer[c] \in missing}
      /\ owned' = Kinds
      /\ deployment' = ServerHash
      /\ RollOut(ServerHash)
      /\ dsQueued' = (\/ ServerHash = None \/ missing # {}
                      \/ owned # Kinds \/ deployment # ServerHash)
      /\ UNCHANGED <<now, secret, cached, orphans, timer, worker, up, faults>>

-----------------------------------------------------------------------------
(***************************************************************************)
(* Kubernetes and its users.                                               *)
(***************************************************************************)

\* Somebody deletes the Deployment or another object of the DiscoveryService.
DeleteOwned ==
  /\ Fault
  /\ \/ \E k \in owned : owned' = owned \ {k} /\ UNCHANGED <<deployment, pod>>
     \/ deployment # None /\ deployment' = None /\ pod' = None /\ UNCHANGED owned
  /\ dsQueued' = up
  /\ UNCHANGED <<now, secret, cached, orphans, status, queue, timer, worker, up>>

\* A pod that had to wait for its Secrets starts.
StartPod ==
  /\ pod = None /\ deployment # None /\ CanLoad
  /\ pod' = Loaded(deployment)
  /\ UNCHANGED <<certVars, dsQueued, owned, deployment>>

\* The container restarts and loads the files again.
RestartPod ==
  /\ Fault
  /\ pod # None /\ CanLoad
  /\ pod' = Loaded(deployment)
  /\ UNCHANGED <<now, secret, cached, orphans, status, queue, timer, worker, up,
                 dsQueued, owned, deployment>>

\* Nothing is left to do until time passes.
Quiet == QuietCerts /\ ~dsQueued /\ (deployment # None => pod # None)

\* Time passes under the assumption of Tick, for both controllers and the pod.
OperatorTick ==
  /\ up => Quiet
  /\ Tick
  /\ UNCHANGED dsVars

OperatorCrash ==
  /\ Crash
  /\ dsQueued' = FALSE
  /\ UNCHANGED <<owned, deployment, pod>>

OperatorRestart ==
  /\ Restart
  /\ dsQueued' = TRUE
  /\ UNCHANGED <<owned, deployment, pod>>

\* A step of Certificates; the DiscoveryService controller may notice it.
With(step) ==
  /\ step
  /\ Notice
  /\ UNCHANGED <<owned, deployment, pod>>

\* The serial numbers that are not in use.
Fresh ==
  Serials \ (KnownSerials \cup {deployment}
               \cup IF pod = None THEN {}
                    ELSE {pod.label} \cup SerialsOf(pod.server) \cup SerialsOf(pod.ca))

\* A step, in which a new certificate has one of the serial numbers S.
NextWith(S) ==
  \/ \E c \in Certs : \E s \in S : With(CertStep(c, s))
  \/ ReconcileDiscoveryService \/ DeleteOwned \/ StartPod \/ RestartPod
  \/ OperatorTick \/ OperatorCrash \/ OperatorRestart

Next == NextWith(Fresh)

Spec == Init /\ [][Next]_vars

\* A reconcile in progress goes on, and so do the informer of Secrets, the
\* timers, the garbage collector and the kubelet; the workqueue hands out
\* requests first come, first served, so that no request waits for ever behind
\* one that is made again and again; an operator that stopped is started again.
\* Nobody has to delete anything, and the bounded clock may stop.
Fairness ==
  /\ WF_vars(worker # Idle /\ \E s \in Fresh : With(Controller(worker.cert, s)))
  /\ \A c \in Certs : SF_vars(With(Reconcile(c))) /\ WF_vars(With(SyncCache(c)))
  /\ WF_vars(\E c \in Certs : With(FireTimer(c)))
  /\ WF_vars(\E c \in Certs : With(CollectSecret(c)))
  /\ WF_vars(ReconcileDiscoveryService)
  /\ WF_vars(StartPod)
  /\ WF_vars(OperatorRestart)

FairSpec == Spec /\ Fairness

-----------------------------------------------------------------------------
(***************************************************************************)
(* Properties.                                                             *)
(***************************************************************************)

\* Whenever the operator has nothing left to do, every certificate object has
\* its certificate, with its hash and whether it verifies in the status; one
\* with renewal is fit and has a request scheduled before its window opens.
\* No wakeup is lost: not that of a new root, of a Secret deleted during a
\* reconcile, or of a timer that a crash forgot.
NoLostWakeup ==
  Quiet => \A c \in Certs :
             /\ status[c] # None /\ secret[c] # None
             /\ status[c].hash = secret[c].serial
             /\ status[c].ready = Verifies(secret[c], RootIn(secret, c))
             /\ c \in Renewed => Fit(c) /\ timer[c] # None
                                 /\ timer[c] <= 5 * secret[c].until - (secret[c].until - secret[c].from)

\* Once the operator is quiet and the pod has started, the pod serves the server
\* certificate and trusts the root that the Secrets hold, although only the hash
\* of the server certificate rolls it out: a new root reaches it too.
PodTrustsRoot ==
  Quiet =>
    /\ owned = Kinds
    /\ pod # None /\ pod.label = deployment
    /\ pod.server = secret[server]
    /\ pod.ca = secret[root]

\* After every deletion, crash or renewal the operator comes to rest with
\* everything in place.
Settles == []<>Quiet
=============================================================================
