------------------------------ MODULE EnvoyPod ------------------------------
(***************************************************************************)
(* One pod with an Envoy server, from its start to its removal, and the    *)
(* shutdown manager in it.  When a container is to be stopped (because the *)
(* pod is deleted, or because its own liveness probe fails), the kubelet   *)
(* first calls its preStop hook, an HTTP request to the manager:           *)
(*   /drain     tells Envoy to drain (four attempts), then polls its open  *)
(*              HTTP connections until they are few, creates the ready     *)
(*              file and answers;                                          *)
(*   /shutdown  answers when the ready file exists.                        *)
(* The container is stopped when its hook is answered, when the request    *)
(* breaks, or when the grace period is over.  Delays are not measured: the *)
(* grace period may end at any moment.  A connection is an HTTP connection *)
(* of a listener other than admin: the manager counts no other.            *)
(***************************************************************************)
EXTENDS EnvoyContainers

CONSTANTS
  Probed,              \* the containers whose liveness probe may fail
  MinOpenConnections,
  Labels,              \* the labels of each metric of prometheusStat
  MaxConnections,      \* bound: the open connections
  MaxFaults            \* bound: failing probes and crashes

ASSUME EnvoyPodAssumption ==
  /\ MinOpenConnections \in Nat /\ MaxConnections \in Nat /\ MaxFaults \in Nat
  /\ Labels \in Nat \ {0}
  /\ None # "/drain"

VARIABLES
  pod,        \* the pod, None if there is none
  deleted,    \* its deletion is requested
  up,         \* its running containers
  step,       \* where the preStop request of each container is
  attempts,   \* the failed attempts of each /drain to signal Envoy
  ready,      \* the ready file exists, in the container of the manager
  draining,   \* Envoy was told to fail its health check and drain
  open,       \* Envoy's open connections
  quiet,      \* history: a poll found few of them since Envoy started
  unheard,    \* history: Envoy could not be told to drain
  excused,    \* history: a reason to cut connections, see GracefulStop
  faults

podVars == <<pod, deleted, up, step, attempts, ready, draining, open, quiet, unheard, excused, faults>>

Managed(p) == Mgr \in DOMAIN p.hooks

NoPod ==
  /\ pod = None /\ deleted = FALSE /\ up = {} /\ step = <<>> /\ attempts = <<>>
  /\ ready = FALSE /\ draining = FALSE /\ open = 0 /\ quiet = FALSE

PodInit ==
  /\ NoPod
  /\ unheard = FALSE /\ excused = FALSE
  /\ faults = 0

\* The kubelet starts the containers of a new pod.
StartPod(p) ==
  /\ pod = None
  /\ pod' = p
  /\ up' = DOMAIN p.hooks
  /\ step' = [c \in DOMAIN p.hooks |-> "none"]
  /\ attempts' = [c \in DOMAIN p.hooks |-> 0]
  /\ unheard' = FALSE /\ excused' = ~Managed(p)
  /\ UNCHANGED <<deleted, ready, draining, open, quiet, faults>>

-----------------------------------------------------------------------------
(***************************************************************************)
(* Stopping containers.                                                    *)
(***************************************************************************)

\* The containers that stop when S does: a manager that is told to terminate
\* exits at once and breaks every request it is serving.
Stopping(S) == S \cup {c \in up : Mgr \in S /\ step[c] # "none"}

\* What a stop leaves.  The ready file goes with the manager's container.
Stopped(S) ==
  /\ up' = up \ S
  /\ step' = [c \in DOMAIN step |-> IF c \in S THEN "none" ELSE step[c]]
  /\ attempts' = [c \in DOMAIN attempts |-> IF c \in S THEN 0 ELSE attempts[c]]
  /\ draining' = (draining /\ Envoy \notin S)
  /\ quiet' = (quiet /\ Envoy \notin S)
  /\ open' = IF Envoy \in S THEN 0 ELSE open

\* The kubelet begins to stop the containers S: it calls their hooks.  One
\* without a hook, or whose request nobody answers, stops at once.
Terminate(S) ==
  LET idle == {c \in S \cap up : step[c] = "none"}
      called == {c \in idle : pod.hooks[c] # None /\ Mgr \in up}
      gone == idle \ called
      first(c) == IF pod.hooks[c] = "/drain" THEN "signal" ELSE "wait"
  IN  /\ up' = up \ gone
      /\ step' = [c \in DOMAIN step |-> IF c \in called THEN first(c) ELSE step[c]]
      /\ draining' = (draining /\ Envoy \notin gone)
      /\ quiet' = (quiet /\ Envoy \notin gone)
      /\ open' = IF Envoy \in gone THEN 0 ELSE open
      /\ excused' = (excused \/ Envoy \in gone)
      /\ UNCHANGED <<pod, attempts, ready, unheard>>

\* The deletion of the pod stops all its containers.
DeletePod ==
  /\ pod # None /\ ~deleted
  /\ deleted' = TRUE
  /\ Terminate(DOMAIN pod.hooks)
  /\ UNCHANGED faults

\* The liveness probe of a container fails and the kubelet replaces it.
ProbeFails(c) ==
  /\ ~deleted /\ c \in up \cap Probed /\ step[c] = "none"
  /\ faults < MaxFaults
  /\ faults' = faults + 1
  /\ Terminate({c})
  /\ UNCHANGED deleted

\* A probe of Envoy that does not notice that it drains.
DrainingProbePasses == FALSE /\ UNCHANGED podVars

\* Envoy's probe is /ready, which fails as long as it drains.
DrainingProbeFails ==
  /\ pod # None /\ ~deleted /\ draining /\ step[Envoy] = "none"
  /\ Terminate({Envoy})
  /\ UNCHANGED <<deleted, faults>>

-----------------------------------------------------------------------------
(***************************************************************************)
(* The requests the manager serves.                                        *)
(***************************************************************************)

\* shutdownEnvoy: POST /healthcheck/fail.
SignalDrain(c) ==
  /\ c \in up /\ step[c] = "signal"
  /\ Envoy \in up /\ Reaches(pod)
  /\ draining' = TRUE
  /\ step' = [step EXCEPT ![c] = "poll"]
  /\ attempts' = [attempts EXCEPT ![c] = 0]
  /\ UNCHANGED <<pod, deleted, up, ready, open, quiet, unheard, excused, faults>>

\* An attempt fails; after the fourth one the handler goes on all the same.
SignalFails(c) ==
  /\ c \in up /\ step[c] = "signal"
  /\ IF attempts[c] < 3
     THEN /\ attempts' = [attempts EXCEPT ![c] = @ + 1]
          /\ UNCHANGED <<step, unheard>>
     ELSE /\ attempts' = [attempts EXCEPT ![c] = 0]
          /\ step' = [step EXCEPT ![c] = "poll"]
          /\ unheard' = TRUE
  /\ UNCHANGED <<pod, deleted, up, ready, draining, open, quiet, excused, faults>>

\* The manager takes note that Envoy is idle, if it is.
Observe == quiet' = (quiet \/ open <= MinOpenConnections)

\* A poll that takes any number for few enough.
PollAny(c) ==
  /\ c \in up /\ step[c] = "poll"
  /\ Envoy \in up /\ Reaches(pod)
  /\ ready' \in {ready, TRUE}
  /\ Observe
  /\ step' = [step EXCEPT ![c] = "done"]
  /\ UNCHANGED <<pod, deleted, up, attempts, draining, open, unheard, excused, faults>>

\* parseOpenConnections adds the value of a metric once for each of its labels.
OpenConnections == Labels * open

\* The poll finds few enough: create the ready file, which may fail, and answer.
\* Any other poll, or one that fails, changes nothing.
Poll(c) ==
  /\ c \in up /\ step[c] = "poll"
  /\ Envoy \in up /\ Reaches(pod)
  /\ OpenConnections <= MinOpenConnections
  /\ ready' \in {ready, TRUE}
  /\ Observe
  /\ step' = [step EXCEPT ![c] = "done"]
  /\ UNCHANGED <<pod, deleted, up, attempts, draining, open, unheard, excused, faults>>

\* shutdownHandler finds the ready file.
CheckReady(c) ==
  /\ c \in up /\ step[c] = "wait"
  /\ ready
  /\ step' = [step EXCEPT ![c] = "done"]
  /\ UNCHANGED <<pod, deleted, up, attempts, ready, draining, open, quiet, unheard, excused, faults>>

-----------------------------------------------------------------------------
(***************************************************************************)
(* The kubelet, the clients of Envoy, and faults.                          *)
(***************************************************************************)

\* The hook of c is over: the kubelet stops it.
HookIsOver(c) ==
  /\ c \in up /\ step[c] = "done"
  /\ Stopped(Stopping({c}))
  /\ ready' = (ready /\ c # Mgr)
  /\ UNCHANGED <<pod, deleted, unheard, excused, faults>>

\* The grace period ends before the hook of c does; when the pod is being
\* deleted it ends for all containers.
GracePeriodEnds(c) ==
  LET S == Stopping(IF deleted THEN up ELSE {c})
  IN  /\ c \in up /\ step[c] # "none"
      /\ Stopped(S)
      /\ ready' = (ready /\ Mgr \notin S)
      /\ excused' = TRUE
      /\ UNCHANGED <<pod, deleted, unheard, faults>>

\* A container crashes.
Crash(c) ==
  /\ c \in up /\ faults < MaxFaults
  /\ faults' = faults + 1
  /\ Stopped(Stopping({c}))
  /\ ready' = (ready /\ c # Mgr)
  /\ excused' = TRUE
  /\ UNCHANGED <<pod, deleted, unheard>>

\* A stopped container of a pod that stays is started again.  It takes longer
\* than to stop one whose hook is over.
RestartContainer(c) ==
  /\ pod # None /\ ~deleted
  /\ c \in DOMAIN pod.hooks \ up
  /\ \A d \in up : step[d] # "done"
  /\ up' = up \cup {c}
  /\ UNCHANGED <<pod, deleted, step, attempts, ready, draining, open, quiet, unheard, excused, faults>>

RemovePod ==
  /\ pod # None /\ deleted /\ up = {}
  /\ pod' = None
  /\ deleted' = FALSE
  /\ step' = <<>> /\ attempts' = <<>>
  /\ UNCHANGED <<up, ready, draining, open, quiet, unheard, excused, faults>>

\* A client connects, even to an Envoy that drains: its listeners stay open.
Open ==
  /\ Envoy \in up
  /\ open < MaxConnections
  /\ open' = open + 1
  /\ UNCHANGED <<pod, deleted, up, step, attempts, ready, draining, quiet, unheard, excused, faults>>

Close ==
  /\ open > 0
  /\ open' = open - 1
  /\ UNCHANGED <<pod, deleted, up, step, attempts, ready, draining, quiet, unheard, excused, faults>>

Containers == IF pod = None THEN {} ELSE DOMAIN pod.hooks

\* What happens by itself, sooner or later.
Kubelet ==
  \/ \E c \in Containers : \/ SignalDrain(c) \/ SignalFails(c) \/ Poll(c)
                           \/ CheckReady(c) \/ HookIsOver(c)
                           \/ GracePeriodEnds(c) \/ RestartContainer(c)
  \/ DrainingProbeFails
  \/ RemovePod

PodFault == \E c \in Containers : ProbeFails(c) \/ Crash(c)

PodStep == Kubelet \/ PodFault \/ Open \/ Close

-----------------------------------------------------------------------------
(***************************************************************************)
(* The promise of the shutdown manager.                                    *)
(***************************************************************************)

Promise == INSTANCE GracefulStop WITH running <- Envoy \in up

\* Every behaviour is one of GracefulStop: with the shutdown manager, and
\* unless the grace period ends or a container crashes, Envoy stops only after
\* a drain request told it to drain (or failed to, four times) and found no more
\* than MinOpenConnections open since Envoy started, however the requests of the
\* containers and the clients interleave.
StopsGracefully == Promise!Spec
=============================================================================
