--------------------------- MODULE OperatorProofs ---------------------------
(***************************************************************************)
(* What the operator does, for every set of certificates, every clock and  *)
(* every number of faults: a certificate that is fit is kept, no wakeup is *)
(* lost, and the pod ends with the certificates in the Secrets.            *)
(***************************************************************************)
EXTENDS Operator, TLAPS

(***************************************************************************)
(* The inductive invariant.                                                *)
(***************************************************************************)

Busy == [cert : Certs, step : {"create", "update", "report"}, current : BOOLEAN,
         read : Certificate \cup {None}, ready : BOOLEAN]

TypeOK ==
  /\ now \in Nat /\ up \in BOOLEAN
  /\ secret \in [Certs -> Certificate \cup {None}]
  /\ cached \in [Certs -> Certificate \cup {None}]
  /\ status \in [Certs -> Status \cup {None}]
  /\ queue \subseteq Certs
  /\ timer \in [Certs -> Nat \cup {None}]
  /\ worker \in Busy \cup {Idle}
  /\ worker # Idle => up
  /\ dsQueued \in BOOLEAN
  /\ deployment \in Serials \cup {None}
  /\ pod \in Pod \cup {None}
  /\ pod # None => deployment # None

\* What GenerateCertificate makes of the spec of c.
IssuedFor(c, crt) ==
  crt # None => /\ crt.issuer = None <=> Issuer[c] = None
                /\ crt.until = crt.from + ValidFor[c]

Issued ==
  /\ \A c \in Certs : IssuedFor(c, secret[c]) /\ IssuedFor(c, cached[c])
  /\ worker.step = "report" => worker.read # None /\ IssuedFor(worker.cert, worker.read)

\* Nothing that was read so far tells of the certificate with serial number n.
Unseen(n) ==
  /\ n \notin SerialsOf(worker.read)
  /\ \A c \in Certs : /\ n \notin SerialsOf(cached[c])
                      /\ secret[c] # None => secret[c].issuer # n
                      /\ status[c] # None => status[c].hash # n

\* A certificate that the cache does not hold yet has not been seen, and it was
\* issued this very tick; no two certificates have the same serial number.
Stale(c) == secret[c] # None /\ cached[c] # secret[c]

SerialsInv ==
  /\ \A c \in Certs, n \in Serials : Stale(c) /\ secret[c].serial = n => Unseen(n)
  /\ \A c, d \in Certs : secret[c] # None /\ secret[d] # None /\ secret[c].serial = secret[d].serial
                           => c = d

StaleInv == up => \A c \in Certs : Stale(c) => secret[c].from = now

\* A certificate about to be replaced is not fit.
UpdateInv ==
  worker.step = "update" =>
    /\ worker.cert \in Renewed
    /\ secret[worker.cert] # None /\ Fit(worker.cert) => secret[worker.cert].from = now

CertInv == TypeOK /\ Issued /\ SerialsInv /\ StaleInv /\ UpdateInv

-----------------------------------------------------------------------------
\* A reconcile of c is to come.
Pending(c) == c \in queue \/ worker.cert = c \/ cached[c] # secret[c] \/ Due(c)

\* The status of the issuer of c says what the cache holds.
IssuerReported(c) ==
  LET r == Issuer[c]
  IN  r # None => /\ status[r] # None /\ cached[r] # None
                  /\ status[r].hash = cached[r].serial
                  /\ status[r].ready = (now <= cached[r].until)

\* A delayed request will come before c has to be looked at again.
Scheduled(c) ==
  /\ c \in Renewed =>
       /\ Verifies(cached[c], RootIn(cached, c)) /\ ~InWindow(cached[c])
       /\ timer[c] # None
       /\ timer[c] <= 5 * cached[c].until - (cached[c].until - cached[c].from)
  /\ c \notin Renewed /\ now <= cached[c].until =>
       timer[c] # None /\ timer[c] <= 5 * cached[c].until + 1

Settled(c) ==
  /\ cached[c] # None
  /\ status[c].hash = cached[c].serial
  /\ status[c].ready = Verifies(cached[c], RootIn(cached, c))
  /\ Scheduled(c)

\* What a reconcile is about to report still holds, or another one is to come.
ReportInv ==
  worker.step = "report" =>
    /\ worker.cert \in Renewed => worker.ready /\ ~InWindow(worker.read)
    /\ \/ worker.cert \in queue
       \/ /\ worker.read = cached[worker.cert]
          /\ IssuerReported(worker.cert) =>
               worker.ready = Verifies(worker.read, RootIn(cached, worker.cert))

\* An object is settled, or it will be looked at again, if not at once then
\* after the status of its issuer has changed.
ObjectInv(c) ==
  /\ cached[c] = None => c \in queue \/ worker.cert = c
  /\ Pending(c) \/ ~IssuerReported(c) \/ Settled(c)

DeploymentInv ==
  ~dsQueued => /\ owned = Kinds
               /\ \A c \in Certs : status[c] # None
               /\ deployment = ServerHash /\ deployment # None

WakeupInv ==
  /\ ReportInv
  /\ up => (\A c \in Certs : status[c] # None => ObjectInv(c)) /\ DeploymentInv

\* A pod with the label of the present server certificate loaded it; and if that
\* was signed by the present root, the pod loaded this root too.
PodInv ==
  pod # None =>
    /\ pod.label = deployment
    /\ secret[server] # None /\ pod.label = secret[server].serial => pod.server = secret[server]
    /\ secret[root] # None /\ pod.server.issuer = secret[root].serial => pod.ca = secret[root]

Inv == CertInv /\ WakeupInv /\ PodInv

-----------------------------------------------------------------------------
(***************************************************************************)
(* Types.                                                                  *)
(***************************************************************************)

\* None is neither a certificate, a name of one nor a number.
LEMMA NoneIsApart ==
  None \notin Certs /\ None \notin Nat /\ None \notin Serials /\ None \notin Certificate
BY CertificatesAssumption

\* The worker without a reconcile.
LEMMA IdleWorker ==
  Idle.cert = None /\ Idle.step = "idle" /\ Idle.read = None
BY DEF Idle

\* The signed certificate.
LEMMA Generated ==
  ASSUME TypeOK, NEW c \in Certs, NEW s \in Serials, ~NoIssuer(c)
  PROVE  /\ GenerateCertificate(c, s) \in Certificate
         /\ GenerateCertificate(c, s) # None
         /\ IssuedFor(c, GenerateCertificate(c, s))
         /\ GenerateCertificate(c, s).serial = s
         /\ GenerateCertificate(c, s).from = now
<1>. DEFINE i == IF Issuer[c] = None THEN None ELSE cached[Issuer[c]].serial
<1>1. i \in Serials \cup {None} /\ (i = None <=> Issuer[c] = None)
  <2>1. CASE Issuer[c] = None
    BY <2>1
  <2>2. CASE Issuer[c] # None
    <3>1. Issuer[c] \in Certs
      BY <2>2, CertificatesAssumption
    <3>2. cached[Issuer[c]] \in Certificate
      BY <2>2, <3>1 DEF TypeOK, NoIssuer
    <3>3. cached[Issuer[c]].serial \in Serials
      BY <3>2 DEF Certificate
    <3>. QED  BY <2>2, <3>3, CertificatesAssumption
  <2>. QED  BY <2>1, <2>2
<1>2. now \in Nat /\ now + ValidFor[c] \in Nat
  BY CertificatesAssumption DEF TypeOK
<1>3. GenerateCertificate(c, s) =
        [serial |-> s, issuer |-> i, from |-> now, until |-> now + ValidFor[c]]
  BY DEF GenerateCertificate
<1>. HIDE DEF i
<1>4. GenerateCertificate(c, s) \in Certificate
  BY <1>1, <1>2, <1>3 DEF Certificate
<1>5. GenerateCertificate(c, s) # None
  BY <1>4, CertificatesAssumption
<1>. QED  BY <1>1, <1>3, <1>4, <1>5 DEF IssuedFor

\* The delayed request that ReportStatus leaves.
LEMMA ScheduleType ==
  ASSUME TypeOK, NEW c \in Certs, NEW crt \in Certificate, IssuedFor(c, crt)
  PROVE  Schedule(c, crt) \in Nat \cup {None}
<1>1. crt.until \in Nat /\ crt.from \in Nat /\ crt.from <= crt.until /\ crt # None
  BY CertificatesAssumption DEF Certificate, IssuedFor
<1>2. 5 * crt.until - (crt.until - crt.from) \in Nat /\ 5 * crt.until + 1 \in Nat
  BY <1>1
<1>. QED  BY <1>2 DEF Schedule, TypeOK

\* What a new pod loads.
LEMMA LoadedType ==
  ASSUME TypeOK, CanLoad, NEW label \in Serials
  PROVE  Loaded(label) \in Pod /\ Loaded(label) # None
<1>1. secret[server] \in Certificate /\ secret[root] \in Certificate
  BY OperatorAssumption DEF TypeOK, CanLoad
<1>2. Loaded(label) \in Pod
  BY <1>1 DEF Loaded, Pod
<1>. QED  BY <1>2, OperatorAssumption

\* What every step of the certificate controller leaves to the other one.
LEMMA NoticeType ==
  ASSUME TypeOK, Notice
  PROVE  dsQueued' \in BOOLEAN
BY DEF TypeOK, Notice

\* The worker after the first reads of a reconcile.
LEMMA ReconcileType ==
  ASSUME TypeOK, NEW c \in Certs, Reconcile(c)
  PROVE  /\ worker' \in Busy \cup {Idle} /\ (worker' # Idle => up)
         /\ queue' \subseteq Certs
<1>. DEFINE crt == cached[c]
            ready == crt # None /\ Verifies(crt, RootIn(cached, c))
            step == IF crt = None THEN "create"
                    ELSE IF c \in Renewed /\ (~ready \/ InWindow(crt)) THEN "update"
                    ELSE "report"
<1>1. worker' = IF status[c] = None THEN Idle
                ELSE [cert |-> c, step |-> step, current |-> TRUE,
                      read  |-> IF step = "report" THEN crt ELSE None,
                      ready |-> step = "report" /\ ready]
  BY DEF Reconcile
<1>2. crt \in Certificate \cup {None}
  BY DEF TypeOK
<1>3. step \in {"create", "update", "report"}
  OBVIOUS
<1>4. (step = "report" /\ ready) \in BOOLEAN
  OBVIOUS
<1>. HIDE DEF crt, ready, step
<1>5. worker' \in Busy \cup {Idle}
  BY <1>1, <1>2, <1>3, <1>4 DEF Busy
<1>. QED  BY <1>5 DEF Reconcile, TypeOK

\* Every step keeps the types.
LEMMA TypeStep ==
  ASSUME TypeOK, Issued, [Next]_vars
  PROVE  TypeOK'
<1>1. ASSUME NEW c \in Certs, NEW s \in Fresh, With(CertStep(c, s)) PROVE TypeOK'
  <2>0. s \in Serials /\ dsQueued' \in BOOLEAN /\ UNCHANGED <<owned, deployment, pod>>
    BY <1>1, NoticeType DEF With, Fresh
  <2>1. CASE Reconcile(c)
    BY <2>0, <2>1, ReconcileType DEF Reconcile, TypeOK
  <2>2. CASE CreateCertificate(c, s)
    <3>1. secret' \in [Certs -> Certificate \cup {None}]
      BY <2>0, <2>2, Generated DEF CreateCertificate, TypeOK
    <3>2. worker' = Idle /\ queue' \subseteq Certs /\ up
      BY <2>2 DEF CreateCertificate, Requeued, TypeOK
    <3>. QED  BY <2>0, <2>2, <3>1, <3>2 DEF CreateCertificate, TypeOK
  <2>3. CASE UpdateCertificate(c, s)
    <3>1. secret' \in [Certs -> Certificate \cup {None}]
      BY <2>0, <2>3, Generated DEF UpdateCertificate, TypeOK
    <3>2. worker' = Idle /\ queue' \subseteq Certs /\ up
      BY <2>3 DEF UpdateCertificate, Requeued, TypeOK
    <3>. QED  BY <2>0, <2>3, <3>1, <3>2 DEF UpdateCertificate, TypeOK
  <2>4. CASE ReportStatus(c)
    <3>1. worker' = Idle /\ queue' \subseteq Certs
      BY <2>4 DEF ReportStatus, Requeued, ObjectEvent, IssuerChangedHandler, TypeOK
    <3>2. worker \in Busy /\ worker.cert = c /\ worker.read \in Certificate
          /\ IssuedFor(c, worker.read)
      BY <2>4 DEF ReportStatus, TypeOK, Issued, Busy, Idle
    <3>3. timer' \in [Certs -> Nat \cup {None}]
      BY <2>4, <3>2, ScheduleType DEF ReportStatus, TypeOK
    <3>4. [hash |-> worker.read.serial, ready |-> worker.ready] \in Status
      BY <3>2 DEF Status, Certificate, Busy
    <3>5. status' \in [Certs -> Status \cup {None}]
      BY <2>4, <3>4 DEF ReportStatus, TypeOK
    <3>. QED  BY <2>0, <2>4, <3>1, <3>3, <3>5 DEF ReportStatus, TypeOK
  <2>5. CASE FireTimer(c)
    BY <2>0, <2>5 DEF FireTimer, TypeOK
  <2>6. CASE SyncCache(c)
    BY <2>0, <2>6 DEF SyncCache, TypeOK
  <2>7. CASE CollectSecret(c) \/ DeleteSecret(c)
    BY <2>0, <2>7 DEF CollectSecret, DeleteSecret, TypeOK
  <2>8. CASE DeleteObject(c)
    <3>1. worker' \in Busy \cup {Idle} /\ (worker' # Idle => worker # Idle)
      <4>1. CASE worker = Idle
        BY <2>8, <4>1, CertificatesAssumption DEF DeleteObject, Idle
      <4>2. CASE worker \in Busy
        <5>1. worker # Idle
          BY <4>2, CertificatesAssumption DEF Busy, Idle
        <5>2. worker' = worker \/ worker' = [worker EXCEPT !.current = FALSE]
          BY <2>8 DEF DeleteObject
        <5>3. worker' \in Busy
          BY <4>2, <5>2 DEF Busy
        <5>. QED  BY <5>1, <5>3
      <4>. QED  BY <4>1, <4>2 DEF TypeOK
    <3>2. queue' \subseteq Certs /\ status' \in [Certs -> Status \cup {None}]
      BY <2>8 DEF DeleteObject, ObjectEvent, IssuerChangedHandler, TypeOK
    <3>. QED  BY <2>0, <2>8, <3>1, <3>2 DEF DeleteObject, TypeOK
  <2>. QED  BY <1>1, <2>1, <2>2, <2>3, <2>4, <2>5, <2>6, <2>7, <2>8
            DEF With, CertStep, Controller, User
<1>2. CASE ReconcileDiscoveryService
  <2>1. status' \in [Certs -> Status \cup {None}]
    BY <1>2 DEF ReconcileDiscoveryService, NewStatus, Status, TypeOK
  <2>2. ServerHash \in Serials \cup {None}
    BY OperatorAssumption DEF ServerHash, Status, TypeOK
  <2>3. pod' \in Pod \cup {None} /\ (pod' # None => deployment' # None)
    BY <1>2, <2>2, LoadedType DEF ReconcileDiscoveryService, RollOut, TypeOK
  <2>4. queue' \subseteq Certs /\ dsQueued' \in BOOLEAN
    BY <1>2 DEF ReconcileDiscoveryService, TypeOK
  <2>. QED  BY <1>2, <2>1, <2>2, <2>3, <2>4 DEF ReconcileDiscoveryService, TypeOK
<1>3. CASE DeleteOwned
  BY <1>3 DEF DeleteOwned, TypeOK
<1>4. CASE StartPod
  <2>1. pod' \in Pod
    BY <1>4, LoadedType DEF StartPod, TypeOK
  <2>. QED  BY <1>4, <2>1 DEF StartPod, TypeOK, certVars
<1>5. CASE RestartPod
  <2>1. pod' \in Pod \cup {None}
    BY <1>5, LoadedType DEF RestartPod, TypeOK
  <2>. QED  BY <1>5, <2>1 DEF RestartPod, TypeOK
<1>6. CASE OperatorTick
  BY <1>6 DEF OperatorTick, Tick, dsVars, TypeOK
<1>7. CASE OperatorCrash
  BY <1>7 DEF OperatorCrash, Crash, TypeOK
<1>8. CASE OperatorRestart
  BY <1>8 DEF OperatorRestart, Restart, TypeOK
<1>9. CASE UNCHANGED vars
  BY <1>9 DEF vars, certVars, dsVars, TypeOK
<1>. QED  BY <1>1, <1>2, <1>3, <1>4, <1>5, <1>6, <1>7, <1>8, <1>9 DEF Next, NextWith

-----------------------------------------------------------------------------
(***************************************************************************)
(* Certificates and their serial numbers.                                  *)
(***************************************************************************)

\* What the first reads of Reconcile decide.
LEMMA ReconcileDecides ==
  ASSUME TypeOK, NEW c \in Certs, Reconcile(c)
  PROVE  \/ worker' = Idle /\ status[c] = None
         \/ /\ worker'.cert = c /\ status[c] # None /\ ~NoIssuer(c)
            /\ worker'.step \in {"create", "update", "report"}
            /\ worker'.step # "report" => worker'.read = None
            /\ worker'.step = "update" =>
                 /\ c \in Renewed /\ cached[c] # None
                 /\ ~Verifies(cached[c], RootIn(cached, c)) \/ InWindow(cached[c])
            /\ worker'.step = "report" =>
                 /\ cached[c] # None /\ worker'.read = cached[c]
                 /\ worker'.ready = Verifies(cached[c], RootIn(cached, c))
                 /\ c \in Renewed => worker'.ready /\ ~InWindow(cached[c])
<1>. DEFINE crt == cached[c]
            verified == Verifies(crt, RootIn(cached, c))
            ready == crt # None /\ verified
            step == IF crt = None THEN "create"
                    ELSE IF c \in Renewed /\ (~ready \/ InWindow(crt)) THEN "update"
                    ELSE "report"
<1>1. /\ status[c] # None => ~NoIssuer(c)
      /\ worker' = IF status[c] = None THEN Idle
                   ELSE [cert |-> c, step |-> step, current |-> TRUE,
                         read  |-> IF step = "report" THEN crt ELSE None,
                         ready |-> step = "report" /\ ready]
  BY DEF Reconcile
<1>2. verified \in BOOLEAN
  BY DEF Verifies
<1>3. step \in {"create", "update", "report"}
  OBVIOUS
<1>4. step = "update" => c \in Renewed /\ crt # None /\ (~verified \/ InWindow(crt))
  OBVIOUS
<1>5. step = "report" => crt # None /\ (c \in Renewed => verified /\ ~InWindow(crt))
  OBVIOUS
<1>6. step = "report" => (step = "report" /\ ready) = verified
  BY <1>2, <1>5
<1>. HIDE DEF verified, step, ready
<1>7. CASE status[c] = None
  BY <1>1, <1>7
<1>8. CASE status[c] # None
  <2>1. /\ worker'.cert = c /\ worker'.step = step
        /\ worker'.read = IF step = "report" THEN crt ELSE None
        /\ worker'.ready = (step = "report" /\ ready)
    BY <1>1, <1>8
  <2>2. step # "report" => worker'.read = None
    BY <2>1
  <2>3. step = "report" => worker'.read = crt /\ worker'.ready = verified
    BY <1>6, <2>1
  <2>. QED  BY <1>1, <1>3, <1>4, <1>5, <1>8, <2>1, <2>2, <2>3 DEF verified
<1>. QED  BY <1>7, <1>8

\* A fresh serial number is that of no certificate.
LEMMA FreshIsNew ==
  ASSUME TypeOK, NEW s \in Fresh
  PROVE  /\ s \in Serials /\ s # None /\ s # deployment
         /\ s \notin SerialsOf(worker.read)
         /\ \A c \in Certs : /\ s \notin SerialsOf(secret[c])
                             /\ s \notin SerialsOf(cached[c])
                             /\ status[c] # None => status[c].hash # s
         /\ pod # None => s # pod.label /\ s \notin SerialsOf(pod.server)
<1>1. s \in Serials /\ s \notin KnownSerials /\ s # deployment
  BY DEF Fresh
<1>2. s # None
  BY <1>1, CertificatesAssumption
<1>3. pod # None => s # pod.label /\ s \notin SerialsOf(pod.server)
  BY DEF Fresh
<1>. DEFINE held(c) == SerialsOf(secret[c]) \cup SerialsOf(cached[c])
            reported == {status[c].hash : c \in {d \in Certs : status[d] # None}}
            all == UNION {held(c) : c \in Certs}
            read == SerialsOf(worker.read)
<1>0. KnownSerials = all \cup read \cup reported
  BY DEF KnownSerials
<1>. HIDE DEF held, reported, all, read
<1>4. s \notin all /\ s \notin read /\ s \notin reported
  BY <1>0, <1>1
<1>5. ASSUME NEW c \in Certs
      PROVE  s \notin SerialsOf(secret[c]) /\ s \notin SerialsOf(cached[c])
  <2>1. s \notin held(c)
    BY <1>4, <1>5 DEF all
  <2>. QED  BY <2>1 DEF held
<1>6. ASSUME NEW c \in Certs, status[c] # None PROVE status[c].hash # s
  BY <1>4, <1>6 DEF reported
<1>. QED  BY <1>1, <1>2, <1>3, <1>4, <1>5, <1>6 DEF read

\* Every step keeps what the certificates are.
LEMMA IssuedStep ==
  ASSUME TypeOK, Issued, [Next]_vars
  PROVE  Issued'
<1>1. ASSUME UNCHANGED <<secret, cached>>, worker'.step # "report" PROVE Issued'
  BY <1>1 DEF Issued, IssuedFor
<1>2. ASSUME UNCHANGED <<secret, cached>>, UNCHANGED worker PROVE Issued'
  BY <1>2 DEF Issued, IssuedFor
<1>3. ASSUME NEW c \in Certs, NEW s \in Fresh, With(CertStep(c, s)) PROVE Issued'
  <2>1. CASE Reconcile(c)
    <3>1. worker'.step = "report" => /\ worker'.cert = c /\ worker'.read = cached[c]
                                     /\ cached[c] # None
      BY <2>1, ReconcileDecides DEF Idle
    <3>2. UNCHANGED <<secret, cached>>
      BY <2>1 DEF Reconcile
    <3>. QED  BY <3>1, <3>2 DEF Issued, IssuedFor
  <2>2. CASE CreateCertificate(c, s) \/ UpdateCertificate(c, s)
    <3>1. s \in Serials
      BY DEF Fresh
    <3>2. secret' = secret \/ (~NoIssuer(c) /\ secret' = [secret EXCEPT ![c] = GenerateCertificate(c, s)])
      BY <2>2 DEF CreateCertificate, UpdateCertificate
    <3>3. \A d \in Certs : IssuedFor(d, secret'[d])
      <4>1. \A d \in Certs : IssuedFor(d, secret[d])
        BY DEF Issued
      <4>2. ~NoIssuer(c) => IssuedFor(c, GenerateCertificate(c, s))
        BY <3>1, Generated
      <4>. QED  BY <3>2, <4>1, <4>2 DEF TypeOK
    <3>4. cached' = cached /\ worker'.step = "idle"
      <4>1. cached' = cached /\ worker' = Idle
        BY <2>2 DEF CreateCertificate, UpdateCertificate, Requeued
      <4>. QED  BY <4>1 DEF Idle
    <3>. QED  BY <3>3, <3>4 DEF Issued, IssuedFor
  <2>3. CASE ReportStatus(c)
    BY <1>1, <2>3 DEF ReportStatus, Requeued, Idle
  <2>4. CASE FireTimer(c)
    BY <1>2, <2>4 DEF FireTimer
  <2>5. CASE SyncCache(c)
    <3>1. /\ \A d \in Certs : cached'[d] \in {cached[d], secret[d]}
          /\ UNCHANGED <<secret, worker>>
      BY <2>5 DEF SyncCache, TypeOK
    <3>. QED  BY <3>1 DEF Issued, IssuedFor
  <2>6. CASE CollectSecret(c) \/ DeleteSecret(c)
    <3>1. /\ \A d \in Certs : secret'[d] \in {secret[d], None}
          /\ UNCHANGED <<cached, worker>>
      BY <2>6 DEF CollectSecret, DeleteSecret, TypeOK
    <3>. QED  BY <3>1 DEF Issued, IssuedFor
  <2>7. CASE DeleteObject(c)
    <3>1. worker'.step = worker.step /\ worker'.read = worker.read /\ worker'.cert = worker.cert
      BY <2>7 DEF DeleteObject, TypeOK, Busy, Idle
    <3>2. UNCHANGED <<secret, cached>>
      BY <2>7 DEF DeleteObject
    <3>. QED  BY <3>1, <3>2 DEF Issued, IssuedFor
  <2>. QED  BY <1>3, <2>1, <2>2, <2>3, <2>4, <2>5, <2>6, <2>7
            DEF With, CertStep, Controller, User
<1>4. CASE ReconcileDiscoveryService \/ DeleteOwned \/ StartPod \/ RestartPod \/ OperatorTick
  BY <1>2, <1>4
     DEF ReconcileDiscoveryService, DeleteOwned, StartPod, RestartPod, OperatorTick, Tick, certVars
<1>5. CASE OperatorCrash
  BY <1>1, <1>5 DEF OperatorCrash, Crash, Idle
<1>6. CASE OperatorRestart
  BY <1>6 DEF OperatorRestart, Restart, Issued, IssuedFor
<1>7. CASE UNCHANGED vars
  BY <1>2, <1>7 DEF vars, certVars
<1>. QED  BY <1>3, <1>4, <1>5, <1>6, <1>7 DEF Next, NextWith

\* What a step may have seen in addition.
LEMMA UnseenKept ==
  ASSUME NEW n, Unseen(n), n # None,
         \/ UNCHANGED worker.read \/ worker'.read = None
         \/ \E c \in Certs : worker'.read = cached[c],
         UNCHANGED cached,
         \A c \in Certs : secret'[c] # None => \/ secret[c] # None /\ secret'[c].issuer = secret[c].issuer
                                               \/ secret'[c].issuer # n,
         \A c \in Certs : status'[c] # None => \/ status[c] # None /\ status'[c].hash = status[c].hash
                                               \/ status'[c].hash # n
  PROVE  Unseen(n)'
<1>1. n \notin SerialsOf(worker'.read)
  BY DEF Unseen, SerialsOf
<1>. QED  BY <1>1 DEF Unseen

\* A new certificate.
LEMMA IssueSerials ==
  ASSUME TypeOK, SerialsInv, NEW c \in Certs, NEW s \in Fresh, ~NoIssuer(c),
         secret' = [secret EXCEPT ![c] = GenerateCertificate(c, s)],
         worker' = Idle, UNCHANGED <<cached, status>>
  PROVE  SerialsInv'
<1>. DEFINE new == GenerateCertificate(c, s)
<1>1. /\ new # None /\ new.serial = s /\ s \in Serials /\ s # None
      /\ \/ new.issuer = None
         \/ Issuer[c] \in Certs /\ cached[Issuer[c]] # None /\ new.issuer = cached[Issuer[c]].serial
  <2>1. s \in Serials /\ s # None
    BY FreshIsNew
  <2>2. new # None /\ new.serial = s
    BY <2>1, Generated
  <2>3. new.issuer = IF Issuer[c] = None THEN None ELSE cached[Issuer[c]].serial
    BY DEF GenerateCertificate
  <2>4. Issuer[c] # None => Issuer[c] \in Certs /\ cached[Issuer[c]] # None
    BY CertificatesAssumption DEF NoIssuer
  <2>. HIDE DEF new
  <2>. QED  BY <2>1, <2>2, <2>3, <2>4
<1>2. /\ secret'[c] = new /\ \A d \in Certs \ {c} : secret'[d] = secret[d]
      /\ worker'.read = None
  BY DEF TypeOK, Idle
<1>. HIDE DEF new
<1>3. Unseen(s) /\ new.issuer # s
  BY <1>1, FreshIsNew DEF Unseen, SerialsOf
<1>4. ASSUME NEW d \in Certs, NEW n \in Serials, Stale(d)', secret'[d].serial = n
      PROVE  Unseen(n)'
  <2>1. Unseen(n) /\ n # None /\ new.issuer # n
    <3>1. CASE d = c
      BY <1>1, <1>2, <1>3, <1>4, <3>1
    <3>2. CASE d # c
      <4>1. Stale(d) /\ secret[d].serial = n
        BY <1>2, <1>4, <3>2 DEF Stale
      <4>2. Unseen(n) /\ n # None
        BY <4>1, CertificatesAssumption DEF SerialsInv
      <4>. QED  BY <1>1, <4>2 DEF Unseen, SerialsOf
    <3>. QED  BY <3>1, <3>2
  <2>. QED  BY <1>2, <2>1, UnseenKept
<1>5. ASSUME NEW d \in Certs, NEW e \in Certs, secret'[d] # None, secret'[e] # None,
             secret'[d].serial = secret'[e].serial
      PROVE  d = e
  <2>1. \A f \in Certs : secret[f] # None => secret[f].serial # s
    BY FreshIsNew DEF SerialsOf
  <2>. QED  BY <1>1, <1>2, <1>5, <2>1 DEF SerialsInv
<1>. QED  BY <1>4, <1>5 DEF SerialsInv

\* Every step keeps new certificates unseen and serial numbers apart.
LEMMA SerialsStep ==
  ASSUME TypeOK, Issued, SerialsInv, [Next]_vars
  PROVE  SerialsInv'
<1>0. None \notin Serials
  BY CertificatesAssumption
<1>1. ASSUME \A c \in Certs : secret'[c] \in {secret[c], None}, UNCHANGED cached,
             \/ UNCHANGED worker.read \/ worker'.read = None
             \/ \E c \in Certs : worker'.read = cached[c],
             \A c \in Certs : status'[c] # None =>
               \/ status[c] # None /\ status'[c].hash = status[c].hash
               \/ status'[c].hash = None
               \/ worker.read # None /\ status'[c].hash = worker.read.serial
      PROVE  SerialsInv'
  <2>1. ASSUME NEW c \in Certs, NEW n \in Serials, Stale(c)', secret'[c].serial = n
        PROVE  Unseen(n)'
    <3>1. Unseen(n) /\ n # None
      BY <1>0, <1>1, <2>1 DEF Stale, SerialsInv
    <3>2. worker.read # None => worker.read.serial # n
      BY <3>1 DEF Unseen, SerialsOf
    <3>. QED  BY <1>1, <3>1, <3>2, UnseenKept
  <2>2. ASSUME NEW c \in Certs, NEW d \in Certs, secret'[c] # None, secret'[d] # None,
               secret'[c].serial = secret'[d].serial
        PROVE  c = d
    BY <1>1, <2>2 DEF SerialsInv
  <2>. QED  BY <2>1, <2>2 DEF SerialsInv
<1>2. ASSUME UNCHANGED <<secret, cached, worker, status>> PROVE SerialsInv'
  BY <1>2 DEF SerialsInv, Stale, Unseen
<1>3. ASSUME NEW c \in Certs, NEW s \in Fresh, With(CertStep(c, s)) PROVE SerialsInv'
  <2>1. CASE Reconcile(c)
    <3>1. worker'.read = None \/ worker'.read = cached[c]
      <4>1. \/ worker' = Idle
            \/ /\ worker'.step \in {"create", "update", "report"}
               /\ worker'.step # "report" => worker'.read = None
               /\ worker'.step = "report" => worker'.read = cached[c]
        BY <2>1, ReconcileDecides
      <4>. QED  BY <4>1, IdleWorker
    <3>. QED  BY <1>1, <2>1, <3>1 DEF Reconcile
  <2>2. CASE CreateCertificate(c, s) \/ UpdateCertificate(c, s)
    <3>1. secret' = secret \/ (~NoIssuer(c) /\ secret' = [secret EXCEPT ![c] = GenerateCertificate(c, s)])
      BY <2>2 DEF CreateCertificate, UpdateCertificate
    <3>2. worker' = Idle /\ worker'.read = None /\ UNCHANGED <<cached, status>>
      BY <2>2, IdleWorker DEF CreateCertificate, UpdateCertificate, Requeued
    <3>. QED  BY <1>1, <3>1, <3>2, IssueSerials
  <2>3. CASE ReportStatus(c)
    <3>1. worker.read # None /\ worker'.read = None /\ UNCHANGED <<secret, cached>>
      <4>1. worker.step = "report" /\ worker' = Idle /\ UNCHANGED <<secret, cached>>
        BY <2>3 DEF ReportStatus, Requeued
      <4>2. worker.read # None
        BY <4>1 DEF Issued
      <4>. QED  BY <4>1, <4>2, IdleWorker
    <3>2. \/ status' = status
          \/ status' = [status EXCEPT ![c] = [hash |-> worker.read.serial, ready |-> worker.ready]]
      BY <2>3 DEF ReportStatus
    <3>3. \A d \in Certs : status'[d] = status[d] \/ status'[d].hash = worker.read.serial
      BY <3>2 DEF TypeOK
    <3>. QED  BY <1>1, <3>1, <3>3
  <2>4. CASE FireTimer(c)
    BY <1>2, <2>4 DEF FireTimer
  <2>5. CASE SyncCache(c)
    <3>1. /\ cached'[c] = secret[c] /\ \A d \in Certs \ {c} : cached'[d] = cached[d]
          /\ UNCHANGED <<secret, worker, status>> /\ cached[c] # secret[c]
      BY <2>5 DEF SyncCache, TypeOK
    <3>2. ASSUME NEW d \in Certs, NEW n \in Serials, Stale(d)', secret[d].serial = n
          PROVE  Unseen(n)'
      <4>1. d # c /\ Stale(d) /\ Unseen(n)
        BY <3>1, <3>2 DEF Stale, SerialsInv
      <4>2. n \notin SerialsOf(secret[c])
        BY <3>2, <4>1 DEF SerialsInv, Unseen, SerialsOf, Stale
      <4>. QED  BY <3>1, <4>1, <4>2 DEF Unseen
    <3>. QED  BY <3>1, <3>2 DEF SerialsInv
  <2>6. CASE CollectSecret(c) \/ DeleteSecret(c)
    <3>1. /\ \A d \in Certs : secret'[d] \in {secret[d], None}
          /\ UNCHANGED <<cached, worker, status>>
      BY <2>6 DEF CollectSecret, DeleteSecret, TypeOK
    <3>. QED  BY <1>1, <3>1
  <2>7. CASE DeleteObject(c)
    <3>1. worker'.read = worker.read
      BY <2>7 DEF DeleteObject, TypeOK, Busy, Idle
    <3>2. \A d \in Certs : status'[d] \in {status[d], None}
      BY <2>7 DEF DeleteObject, TypeOK
    <3>. QED  BY <1>1, <2>7, <3>1, <3>2 DEF DeleteObject
  <2>. QED  BY <1>3, <2>1, <2>2, <2>3, <2>4, <2>5, <2>6, <2>7
            DEF With, CertStep, Controller, User
<1>4. CASE ReconcileDiscoveryService
  <2>1. \A d \in Certs : (status[d] = None /\ status'[d].hash = None) \/ status'[d] = status[d]
    BY <1>4 DEF ReconcileDiscoveryService, NewStatus
  <2>. QED  BY <1>1, <1>4, <2>1 DEF ReconcileDiscoveryService
<1>5. CASE DeleteOwned \/ StartPod \/ RestartPod \/ OperatorTick
  BY <1>2, <1>5 DEF DeleteOwned, StartPod, RestartPod, OperatorTick, Tick, certVars
<1>6. CASE OperatorCrash
  BY <1>1, <1>6 DEF OperatorCrash, Crash, Idle
<1>7. CASE OperatorRestart
  BY <1>7 DEF OperatorRestart, Restart, SerialsInv, Stale
<1>8. CASE UNCHANGED vars
  BY <1>2, <1>8 DEF vars, certVars
<1>. QED  BY <1>3, <1>4, <1>5, <1>6, <1>7, <1>8 DEF Next, NextWith

-----------------------------------------------------------------------------
(***************************************************************************)
(* Renewal.                                                                *)
(***************************************************************************)

\* Without a new certificate and in the same tick, no certificate gets fit.
LEMMA FitLost ==
  ASSUME Issued, UNCHANGED now, NEW c \in Certs,
         \A d \in Certs : secret'[d] \in {secret[d], None},
         secret'[c] # None, Fit(c)'
  PROVE  secret'[c] = secret[c] /\ Fit(c)
<1>1. secret'[c] = secret[c]
  OBVIOUS
<1>2. CASE Issuer[c] = None
  BY <1>1, <1>2 DEF Fit, Verifies, RootIn, Issued, IssuedFor
<1>3. CASE Issuer[c] # None
  <2>1. Issuer[c] \in Certs /\ secret[c].issuer # None
    BY <1>1, <1>3, CertificatesAssumption DEF Issued, IssuedFor
  <2>2. RootIn(secret, c)' # None
    BY <1>1, <2>1 DEF Fit, Verifies
  <2>3. RootIn(secret, c)' = RootIn(secret, c)
    BY <1>3, <2>1, <2>2 DEF RootIn
  <2>. QED  BY <1>1, <2>3 DEF Fit, Verifies
<1>. QED  BY <1>2, <1>3

\* A reconcile that decides to replace the certificate has looked at the one in
\* the Secret, or that one was issued this very tick.
LEMMA UpdateIsDue ==
  ASSUME TypeOK, Issued, SerialsInv, StaleInv, up, NEW c \in Certs, ~NoIssuer(c),
         ~Verifies(cached[c], RootIn(cached, c)) \/ InWindow(cached[c]),
         secret[c] # None, Fit(c)
  PROVE  secret[c].from = now
<1>1. CASE cached[c] # secret[c]
  BY <1>1 DEF StaleInv, Stale
<1>2. CASE cached[c] = secret[c]
  <2>1. secret[c].until \in Nat /\ secret[c].from \in Nat /\ now \in Nat
    BY DEF TypeOK, Certificate
  <2>2. ~InWindow(cached[c])
    BY <1>2, <2>1 DEF Fit, InWindow
  <2>3. Verifies(secret[c], RootIn(secret, c)) /\ ~Verifies(secret[c], RootIn(cached, c))
    BY <1>2, <2>2 DEF Fit
  <2>4. Issuer[c] \in Certs /\ cached[Issuer[c]] # secret[Issuer[c]]
    BY <2>3, CertificatesAssumption DEF RootIn
  <2>5. /\ secret[c].issuer # None /\ secret[Issuer[c]] # None
        /\ secret[Issuer[c]].serial = secret[c].issuer
    BY <2>3, <2>4, CertificatesAssumption DEF Issued, IssuedFor, Verifies, RootIn
  <2>6. Unseen(secret[Issuer[c]].serial)
    BY <2>4, <2>5 DEF SerialsInv, Stale, TypeOK, Certificate
  <2>. QED  BY <2>5, <2>6 DEF Unseen
<1>. QED  BY <1>1, <1>2

\* Every step keeps that a reconcile replaces only what is not fit.
LEMMA RenewalStep ==
  ASSUME CertInv, [Next]_vars
  PROVE  StaleInv' /\ UpdateInv'
<1>0. TypeOK /\ Issued /\ SerialsInv /\ StaleInv /\ UpdateInv
  BY DEF CertInv
<1>1. ASSUME UNCHANGED <<now, cached, up>>, \A c \in Certs : secret'[c] \in {secret[c], None}
      PROVE  StaleInv'
  BY <1>0, <1>1 DEF StaleInv, Stale
<1>2. ASSUME UNCHANGED now, \A c \in Certs : secret'[c] \in {secret[c], None},
             worker'.step = worker.step, worker'.cert = worker.cert
      PROVE  UpdateInv'
  <2>. SUFFICES ASSUME worker.step = "update"
                PROVE  /\ worker.cert \in Renewed
                       /\ secret'[worker.cert] # None /\ Fit(worker.cert)' => secret'[worker.cert].from = now
    BY <1>2 DEF UpdateInv
  <2>1. worker.cert \in Certs /\ worker.cert \in Renewed
    BY <1>0 DEF UpdateInv, TypeOK, Busy, Idle
  <2>. QED  BY <1>0, <1>2, <2>1, FitLost DEF UpdateInv
<1>3. ASSUME worker'.step # "update" PROVE UpdateInv'
  BY <1>3 DEF UpdateInv
<1>4. ASSUME UNCHANGED <<now, secret, cached, worker, up>> PROVE StaleInv' /\ UpdateInv'
  BY <1>1, <1>2, <1>4
<1>5. ASSUME NEW c \in Certs, NEW s \in Fresh, With(CertStep(c, s)) PROVE StaleInv' /\ UpdateInv'
  <2>1. CASE Reconcile(c)
    <3>1. StaleInv' /\ up /\ UNCHANGED <<now, secret>>
      BY <1>1, <2>1 DEF Reconcile
    <3>2. ASSUME worker'.step = "update" PROVE UpdateInv'
      <4>1. /\ worker'.cert = c /\ c \in Renewed /\ ~NoIssuer(c)
            /\ ~Verifies(cached[c], RootIn(cached, c)) \/ InWindow(cached[c])
        BY <1>0, <2>1, <3>2, ReconcileDecides, IdleWorker
      <4>2. secret[c] # None /\ Fit(c) => secret[c].from = now
        BY <1>0, <3>1, <4>1, UpdateIsDue
      <4>3. Fit(c)' => Fit(c)
        BY <3>1 DEF Fit, Verifies, RootIn
      <4>. QED  BY <3>1, <4>1, <4>2, <4>3 DEF UpdateInv
    <3>. QED  BY <1>3, <3>1, <3>2
  <2>2. CASE CreateCertificate(c, s) \/ UpdateCertificate(c, s)
    <3>1. secret' = secret \/ (~NoIssuer(c) /\ secret' = [secret EXCEPT ![c] = GenerateCertificate(c, s)])
      BY <2>2 DEF CreateCertificate, UpdateCertificate
    <3>2. worker'.step # "update" /\ UNCHANGED <<now, cached, up>>
      <4>1. worker' = Idle /\ UNCHANGED <<now, cached, up>>
        BY <2>2 DEF CreateCertificate, UpdateCertificate, Requeued
      <4>. QED  BY <4>1, IdleWorker
    <3>3. \A d \in Certs : secret'[d] = secret[d] \/ secret'[d].from = now
      <4>1. ~NoIssuer(c) => GenerateCertificate(c, s).from = now
        BY DEF GenerateCertificate
      <4>2. secret = [d \in Certs |-> secret[d]]
        BY <1>0 DEF TypeOK
      <4>. QED  BY <3>1, <4>1, <4>2
    <3>4. StaleInv'
      BY <1>0, <3>2, <3>3 DEF StaleInv, Stale
    <3>. QED  BY <1>3, <3>2, <3>4
  <2>3. CASE ReportStatus(c)
    <3>1. worker' = Idle /\ UNCHANGED <<now, secret, cached, up>>
      BY <2>3 DEF ReportStatus, Requeued
    <3>. QED  BY <1>1, <1>3, <3>1, IdleWorker
  <2>4. CASE FireTimer(c)
    BY <1>4, <2>4 DEF FireTimer
  <2>5. CASE SyncCache(c)
    <3>1. /\ \A d \in Certs : cached'[d] \in {cached[d], secret[d]}
          /\ UNCHANGED <<now, secret, worker, up>>
      BY <1>0, <2>5 DEF SyncCache, TypeOK
    <3>2. StaleInv'
      BY <1>0, <3>1 DEF StaleInv, Stale
    <3>. QED  BY <1>2, <3>1, <3>2
  <2>6. CASE CollectSecret(c) \/ DeleteSecret(c)
    <3>1. /\ \A d \in Certs : secret'[d] \in {secret[d], None}
          /\ UNCHANGED <<now, cached, worker, up>>
      BY <1>0, <2>6 DEF CollectSecret, DeleteSecret, TypeOK
    <3>. QED  BY <1>1, <1>2, <3>1
  <2>7. CASE DeleteObject(c)
    <3>1. worker'.step = worker.step /\ worker'.cert = worker.cert
      BY <1>0, <2>7 DEF DeleteObject, TypeOK, Busy, Idle
    <3>. QED  BY <1>1, <1>2, <2>7, <3>1 DEF DeleteObject
  <2>. QED  BY <1>5, <2>1, <2>2, <2>3, <2>4, <2>5, <2>6, <2>7
            DEF With, CertStep, Controller, User
<1>6. CASE ReconcileDiscoveryService \/ DeleteOwned \/ StartPod \/ RestartPod
  BY <1>4, <1>6 DEF ReconcileDiscoveryService, DeleteOwned, StartPod, RestartPod, certVars
<1>7. CASE OperatorTick
  <2>1. worker = Idle /\ UNCHANGED <<secret, cached, worker, up>>
    BY <1>0, <1>7 DEF OperatorTick, Tick, QuietCerts, TypeOK
  <2>2. up => cached = secret
    BY <1>7 DEF OperatorTick, Tick, QuietCerts
  <2>. QED  BY <1>3, <2>1, <2>2 DEF StaleInv, Stale, Idle
<1>8. CASE OperatorCrash
  BY <1>3, <1>8 DEF OperatorCrash, Crash, StaleInv, Idle
<1>9. CASE OperatorRestart
  <2>1. worker'.step # "update" /\ cached' = secret'
    BY <1>0, <1>9 DEF OperatorRestart, Restart, TypeOK, Idle
  <2>. QED  BY <1>3, <2>1 DEF StaleInv, Stale
<1>10. CASE UNCHANGED vars
  BY <1>4, <1>10 DEF vars, certVars
<1>. QED  BY <1>5, <1>6, <1>7, <1>8, <1>9, <1>10 DEF Next, NextWith

\* CertInv holds before the first certificate is issued.
LEMMA CertInvInit ==
  ASSUME Init
  PROVE  CertInv
<1>1. /\ \A c \in Certs : secret[c] = None /\ cached[c] = None
      /\ worker.step = "idle" /\ worker = Idle
  BY DEF Init, Created, CertInit, Idle
<1>2. TypeOK
  BY DEF Init, Created, CertInit, TypeOK
<1>3. Issued /\ SerialsInv /\ StaleInv /\ UpdateInv
  BY <1>1 DEF Issued, IssuedFor, SerialsInv, StaleInv, Stale, UpdateInv
<1>. QED  BY <1>2, <1>3 DEF CertInv

\* Every step keeps CertInv.
LEMMA CertInvStep ==
  ASSUME CertInv, [Next]_vars
  PROVE  CertInv'
BY TypeStep, IssuedStep, SerialsStep, RenewalStep DEF CertInv

\* Only UpdateCertificate replaces a certificate.
LEMMA ReplacedIsDue ==
  ASSUME CertInv, [Next]_vars, NEW c \in Certs, Replaced(c)
  PROVE  c \in Renewed /\ (Fit(c) => secret[c].from = now)
<1>1. secret'[c] # secret[c] /\ secret[c] # None /\ secret'[c] # None
  BY DEF Replaced
<1>2. ASSUME NEW d \in Certs, NEW s \in Fresh, With(CertStep(d, s))
      PROVE  UpdateCertificate(c, s)
  <2>1. CASE CreateCertificate(d, s) \/ UpdateCertificate(d, s)
    <3>1. secret' # secret
      BY <1>1
    <3>2. secret' = [secret EXCEPT ![d] = GenerateCertificate(d, s)] /\ d = c
      BY <1>1, <2>1, <3>1 DEF CreateCertificate, UpdateCertificate, CertInv, TypeOK
    <3>3. ~CreateCertificate(d, s)
      BY <1>1, <3>1, <3>2 DEF CreateCertificate
    <3>. QED  BY <2>1, <3>2, <3>3
  <2>2. CASE CollectSecret(d) \/ DeleteSecret(d)
    BY <1>1, <2>2 DEF CollectSecret, DeleteSecret, CertInv, TypeOK
  <2>3. CASE Reconcile(d) \/ ReportStatus(d) \/ FireTimer(d) \/ SyncCache(d) \/ DeleteObject(d)
    BY <1>1, <2>3 DEF Reconcile, ReportStatus, FireTimer, SyncCache, DeleteObject
  <2>. QED  BY <1>2, <2>1, <2>2, <2>3 DEF With, CertStep, Controller, User
<1>3. PICK s \in Fresh : UpdateCertificate(c, s)
  BY <1>1, <1>2
     DEF Next, NextWith, ReconcileDiscoveryService, DeleteOwned, StartPod, RestartPod,
         OperatorTick, Tick, OperatorCrash, Crash, OperatorRestart, Restart, vars, certVars
<1>. QED  BY <1>1, <1>3 DEF UpdateCertificate, CertInv, UpdateInv

(***************************************************************************)
(* A certificate that is fit stays, whatever the informer cache shows of   *)
(* it and of its issuer, whatever users delete meanwhile and whenever the  *)
(* operator restarts: UpdateCertificate only replaces one that does not    *)
(* verify or is in its renewal window, or one of this very tick.           *)
(***************************************************************************)
THEOREM FitCertificateStays == Spec => FitIsKept
<1>1. CertInv /\ [Next]_vars =>
        [\A c \in Certs : Replaced(c) => c \in Renewed /\ (Fit(c) => secret[c].from = now)]_certVars
  BY ReplacedIsDue
<1>. QED  BY <1>1, CertInvInit, CertInvStep, PTL DEF Spec, FitIsKept

-----------------------------------------------------------------------------
(***************************************************************************)
(* Wakeups.                                                                *)
(***************************************************************************)

\* The status of an issuer comes to say what the cache holds only by a report
\* of the issuer, and that one is an event for the certificates it has signed.
LEMMA IssuerReports ==
  ASSUME CertInv, [Next]_vars, NEW c \in Certs, up, up', now' = now, IssuerReported(c)'
  PROVE  \/ IssuerReported(c) /\ RootIn(cached, c)' = RootIn(cached, c)
         \/ worker' = Idle /\ (status[c] # None => c \in queue')
<1>0. TypeOK /\ SerialsInv
  BY DEF CertInv
<1>1. CASE Issuer[c] = None
  BY <1>1 DEF IssuerReported, RootIn
<1>. DEFINE r == Issuer[c]
<1>2. CASE r # None
  <2>1. r \in Certs
    BY <1>2, CertificatesAssumption
  <2>2. status'[r] # None /\ cached'[r] # None
    BY <1>2 DEF IssuerReported
  <2>3. status'[r].hash = cached'[r].serial /\ status'[r].ready = (now <= cached'[r].until)
    BY <1>2 DEF IssuerReported
  <2>4. ASSUME UNCHANGED <<cached[r], status[r]>>
        PROVE  IssuerReported(c) /\ RootIn(cached, c)' = RootIn(cached, c)
    BY <1>2, <2>2, <2>3, <2>4 DEF IssuerReported, RootIn
  <2>5. ASSUME NEW d \in Certs, NEW s \in Fresh, With(CertStep(d, s))
        PROVE  \/ UNCHANGED <<cached[r], status[r]>>
               \/ worker' = Idle /\ (status[c] # None => c \in queue')
    <3>1. CASE \/ Reconcile(d) \/ CreateCertificate(d, s) \/ UpdateCertificate(d, s)
               \/ FireTimer(d) \/ CollectSecret(d) \/ DeleteSecret(d)
      BY <3>1 DEF Reconcile, CreateCertificate, UpdateCertificate, FireTimer, CollectSecret,
                  DeleteSecret
    <3>2. CASE ReportStatus(d)
      <4>1. CASE d # r
        BY <1>0, <2>1, <3>2, <4>1 DEF ReportStatus, TypeOK
      <4>2. CASE d = r
        <5>1. worker' = Idle /\ cached' = cached
          BY <3>2 DEF ReportStatus, Requeued
        <5>2. CASE status'[r] = status[r]
          BY <5>1, <5>2
        <5>3. CASE status'[r] # status[r]
          <6>1. queue' = queue \cup ObjectEvent(r)
            BY <1>0, <2>1, <3>2, <4>2, <5>3 DEF ReportStatus, TypeOK
          <6>2. status[c] # None => c \in IssuerChangedHandler(r)
            BY <1>2 DEF IssuerChangedHandler, CAs
          <6>. QED  BY <5>1, <6>1, <6>2 DEF ObjectEvent
        <5>. QED  BY <5>2, <5>3
      <4>. QED  BY <4>1, <4>2
    <3>3. CASE SyncCache(d)
      <4>1. CASE d # r
        BY <1>0, <2>1, <3>3, <4>1 DEF SyncCache, TypeOK
      <4>2. CASE d = r
        <5>1. cached'[r] = secret[r] /\ cached[r] # secret[r] /\ status' = status
          BY <1>0, <2>1, <3>3, <4>2 DEF SyncCache, TypeOK
        <5>2. Stale(r) /\ secret[r].serial \in Serials
          BY <1>0, <2>1, <2>2, <5>1 DEF Stale, TypeOK, Certificate
        <5>3. Unseen(secret[r].serial)
          BY <1>0, <2>1, <5>2 DEF SerialsInv
        <5>. QED  BY <2>1, <2>2, <2>3, <5>1, <5>3 DEF Unseen
      <4>. QED  BY <4>1, <4>2
    <3>4. CASE DeleteObject(d)
      BY <1>0, <2>1, <2>2, <3>4 DEF DeleteObject, TypeOK
    <3>. QED  BY <2>5, <3>1, <3>2, <3>3, <3>4 DEF With, CertStep, Controller, User
  <2>6. CASE ReconcileDiscoveryService
    <3>1. cached' = cached /\ (status[r] = None => status'[r].hash = None)
          /\ (status[r] # None => status'[r] = status[r])
      BY <2>1, <2>6 DEF ReconcileDiscoveryService, NewStatus
    <3>2. cached[r].serial # None
      BY <1>0, <2>1, <2>2, <3>1, CertificatesAssumption DEF TypeOK, Certificate
    <3>. QED  BY <2>3, <2>4, <3>1, <3>2
  <2>7. CASE DeleteOwned \/ StartPod \/ RestartPod \/ UNCHANGED vars
    BY <2>4, <2>7 DEF DeleteOwned, StartPod, RestartPod, vars, certVars
  <2>8. ~OperatorTick /\ ~OperatorCrash /\ ~OperatorRestart
    BY <1>0 DEF OperatorTick, Tick, OperatorCrash, Crash, OperatorRestart, Restart, TypeOK
  <2>. QED  BY <2>4, <2>5, <2>6, <2>7, <2>8 DEF Next, NextWith
<1>. QED  BY <1>1, <1>2

\* The delayed request of ReportStatus comes in time.
LEMMA ScheduledInTime ==
  ASSUME TypeOK, NEW c \in Certs, NEW crt \in Certificate, IssuedFor(c, crt),
         c \in Renewed => ~InWindow(crt)
  PROVE  /\ c \in Renewed => /\ Schedule(c, crt) # None
                             /\ Schedule(c, crt) <= 5 * crt.until - (crt.until - crt.from)
         /\ c \notin Renewed /\ now <= crt.until => /\ Schedule(c, crt) # None
                                                    /\ Schedule(c, crt) <= 5 * crt.until + 1
<1>1. /\ crt.until \in Nat /\ crt.from \in Nat /\ now \in Nat
      /\ timer[c] \in Nat \cup {None} /\ None \notin Nat
      /\ ValidFor[c] \in Nat /\ ValidFor[c] % 5 # 0
      /\ crt.until = crt.from + ValidFor[c]
  BY CertificatesAssumption DEF TypeOK, Certificate, IssuedFor
<1>. DEFINE due == IF c \in Renewed THEN 5 * crt.until - (crt.until - crt.from)
                   ELSE 5 * crt.until + 1
<1>2. due \in Nat
  BY <1>1
<1>3. Schedule(c, crt) = IF due <= 5 * now \/ (timer[c] # None /\ timer[c] <= due)
                         THEN timer[c] ELSE due
  BY DEF Schedule
<1>4. c \in Renewed \/ now <= crt.until => ~(due <= 5 * now)
  <2>1. ASSUME c \in Renewed PROVE ~(due <= 5 * now)
    <3>1. 5 * (crt.until - now) >= ValidFor[c] /\ due = 5 * crt.until - ValidFor[c]
      BY <1>1, <2>1 DEF InWindow
    <3>2. 5 * (crt.until - now) # ValidFor[c]
      BY <1>1
    <3>. QED  BY <1>1, <3>1, <3>2
  <2>2. ASSUME c \notin Renewed, now <= crt.until PROVE ~(due <= 5 * now)
    BY <1>1, <2>2
  <2>. QED  BY <2>1, <2>2
<1>5. c \in Renewed \/ now <= crt.until => Schedule(c, crt) # None /\ Schedule(c, crt) <= due
  <2>1. SUFFICES ASSUME c \in Renewed \/ now <= crt.until
                 PROVE  Schedule(c, crt) # None /\ Schedule(c, crt) <= due
    OBVIOUS
  <2>. HIDE DEF due
  <2>2. due \in Nat /\ due # None /\ ~(due <= 5 * now)
    BY <1>1, <1>2, <1>4, <2>1
  <2>3. CASE timer[c] # None /\ timer[c] <= due
    BY <1>3, <2>3
  <2>4. CASE ~(timer[c] # None /\ timer[c] <= due)
    <3>1. Schedule(c, crt) = due
      BY <1>3, <2>2, <2>4
    <3>. QED  BY <2>2, <3>1
  <2>. QED  BY <2>3, <2>4
<1>. QED  BY <1>5

\* A step of somebody else leaves the object c as it is.
LEMMA ObjectKept ==
  ASSUME NEW c \in Certs, ObjectInv(c), now' = now,
         status'[c] = status[c], cached'[c] = cached[c], secret'[c] = secret[c],
         timer'[c] = timer[c],
         c \in queue => c \in queue', worker.cert = c => worker'.cert = c,
         IssuerReported(c)' => \/ c \in queue'
                               \/ IssuerReported(c) /\ RootIn(cached, c)' = RootIn(cached, c)
  PROVE  ObjectInv(c)'
<1>1. Pending(c) => Pending(c)'
  BY DEF Pending, Due
<1>2. RootIn(cached, c)' = RootIn(cached, c) => (Settled(c) => Settled(c)')
  BY DEF Settled, Scheduled, Verifies, InWindow
<1>3. c \in queue' => Pending(c)'
  BY DEF Pending
<1>. QED  BY <1>1, <1>2, <1>3 DEF ObjectInv

\* An object that is asked to be reconciled.
LEMMA ObjectQueued ==
  ASSUME NEW c \in Certs, c \in queue'
  PROVE  ObjectInv(c)'
BY DEF ObjectInv, Pending

\* A report that changes nothing leaves a settled object behind, unless a
\* reconcile of the object is in the queue.
LEMMA ReportSettles ==
  ASSUME CertInv, ReportInv, NEW c \in Certs, ReportStatus(c)
  PROVE  ObjectInv(c)'
<1>. DEFINE new == [hash |-> worker.read.serial, ready |-> worker.ready]
<1>0. TypeOK /\ Issued
  BY DEF CertInv
<1>1. worker.cert = c /\ worker.step = "report" /\ UNCHANGED <<now, cached, secret>>
  BY DEF ReportStatus
<1>2. CASE ~worker.current \/ status[c] # new
  <2>1. c \in queue'
    BY <1>2 DEF ReportStatus, Requeued, ObjectEvent
  <2>. QED  BY <2>1, ObjectQueued
<1>3. CASE c \in queue
  <2>1. c \in queue'
    BY <1>3 DEF ReportStatus, Requeued
  <2>. QED  BY <2>1, ObjectQueued
<1>4. CASE worker.current /\ status[c] = new /\ c \notin queue
  <2>1. /\ worker.read = cached[c]
        /\ IssuerReported(c) => worker.ready = Verifies(worker.read, RootIn(cached, c))
        /\ c \in Renewed => worker.ready /\ ~InWindow(worker.read)
    BY <1>1, <1>4 DEF ReportInv
  <2>2. cached[c] # None /\ cached[c] \in Certificate /\ IssuedFor(c, cached[c])
    BY <1>0, <1>1, <2>1 DEF TypeOK, Issued
  <2>3. status' = status /\ timer' = [timer EXCEPT ![c] = Schedule(c, cached[c])]
    <3>1. /\ status' = [status EXCEPT ![c] = new]
          /\ timer' = [timer EXCEPT ![c] = Schedule(c, worker.read)]
      BY <1>4 DEF ReportStatus
    <3>2. [status EXCEPT ![c] = new] = status
      <4>. HIDE DEF new
      <4>. QED  BY <1>0, <1>4 DEF TypeOK
    <3>. QED  BY <2>1, <3>1, <3>2
  <2>4. timer'[c] = Schedule(c, cached[c])
    BY <1>0, <2>3 DEF TypeOK
  <2>5. ASSUME IssuerReported(c)' PROVE Settled(c)'
    <3>1. IssuerReported(c)
      BY <1>1, <2>3, <2>5 DEF IssuerReported
    <3>2. worker.ready = Verifies(cached[c], RootIn(cached, c))
      BY <2>1, <3>1
    <3>3. status[c].hash = cached[c].serial /\ status[c].ready = Verifies(cached[c], RootIn(cached, c))
      <4>. DEFINE v == Verifies(cached[c], RootIn(cached, c))
      <4>1. status[c] = [hash |-> cached[c].serial, ready |-> v]
        BY <1>4, <2>1, <3>2
      <4>. HIDE DEF v
      <4>2. status[c].hash = cached[c].serial
        BY <4>1
      <4>3. status[c].ready = v
        BY <4>1
      <4>. QED  BY <4>2, <4>3 DEF v
    <3>4. c \in Renewed => Verifies(cached[c], RootIn(cached, c)) /\ ~InWindow(cached[c])
      BY <2>1, <3>2
    <3>5. /\ Verifies(cached[c], RootIn(cached, c))' = Verifies(cached[c], RootIn(cached, c))
          /\ InWindow(cached[c])' = InWindow(cached[c])
      BY <1>1 DEF Verifies, RootIn, InWindow
    <3>6. Scheduled(c)'
      BY <1>0, <1>1, <2>2, <2>4, <3>4, <3>5, ScheduledInTime DEF Scheduled
    <3>. QED  BY <1>1, <2>2, <2>3, <3>3, <3>5, <3>6 DEF Settled
  <2>. QED  BY <1>1, <2>2, <2>5 DEF ObjectInv
<1>. QED  BY <1>2, <1>3, <1>4

\* A step of the certificates keeps every object settled or awaited.
LEMMA CertStepObjects ==
  ASSUME CertInv, WakeupInv, NEW d \in Certs, NEW s \in Fresh, With(CertStep(d, s)),
         up, up', NEW c \in Certs, status'[c] # None
  PROVE  ObjectInv(c)'
<1>0. TypeOK /\ ReportInv /\ now' = now
  BY DEF CertInv, WakeupInv, With, CertStep, Controller, User, Reconcile, CreateCertificate,
         UpdateCertificate, ReportStatus, FireTimer, SyncCache, CollectSecret, DeleteObject,
         DeleteSecret
<1>1. IssuerReported(c)' => \/ status[c] # None => c \in queue'
                            \/ IssuerReported(c) /\ RootIn(cached, c)' = RootIn(cached, c)
  BY <1>0, IssuerReports DEF Next, NextWith
<1>2. CertStep(d, s)
  BY DEF With
<1>3. CASE d # c
  <2>1. /\ status'[c] = status[c] /\ cached'[c] = cached[c] /\ secret'[c] = secret[c]
        /\ timer'[c] = timer[c]
    BY <1>0, <1>2, <1>3 DEF CertStep, Controller, User, Reconcile, CreateCertificate,
         UpdateCertificate, ReportStatus, FireTimer, SyncCache, CollectSecret, DeleteObject,
         DeleteSecret, TypeOK
  <2>2. c \in queue => c \in queue'
    BY <1>0, <1>2, <1>3 DEF CertStep, Controller, User, Reconcile, CreateCertificate,
         UpdateCertificate, ReportStatus, Requeued, FireTimer, SyncCache, CollectSecret, DeleteObject,
         DeleteSecret
  <2>3. worker.cert = c => worker'.cert = c
    <3>1. CASE Reconcile(d)
      BY <3>1, CertificatesAssumption DEF Reconcile, Idle
    <3>2. CASE DeleteObject(d)
      BY <1>3, <3>2 DEF DeleteObject
    <3>3. CASE CreateCertificate(d, s) \/ UpdateCertificate(d, s) \/ ReportStatus(d)
      BY <1>3, <3>3 DEF CreateCertificate, UpdateCertificate, ReportStatus
    <3>4. CASE FireTimer(d) \/ SyncCache(d) \/ CollectSecret(d) \/ DeleteSecret(d)
      BY <3>4 DEF FireTimer, SyncCache, CollectSecret, DeleteSecret
    <3>. QED  BY <1>2, <3>1, <3>2, <3>3, <3>4 DEF CertStep, Controller, User
  <2>4. ObjectInv(c)
    BY <2>1 DEF WakeupInv
  <2>. QED  BY <1>0, <1>1, <2>1, <2>2, <2>3, <2>4, ObjectKept
<1>4. CASE d = c
  <2>1. CASE Reconcile(c)
    <3>1. worker'.cert = c
      BY <2>1 DEF Reconcile
    <3>. QED  BY <3>1 DEF ObjectInv, Pending
  <2>2. CASE \/ CreateCertificate(c, s) \/ UpdateCertificate(c, s) \/ FireTimer(c) \/ SyncCache(c)
    <3>1. c \in queue'
      BY <2>2 DEF CreateCertificate, UpdateCertificate, Requeued, FireTimer, SyncCache
    <3>. QED  BY <3>1, ObjectQueued
  <2>3. CASE ReportStatus(c)
    BY <1>0, <2>3, ReportSettles
  <2>4. CASE CollectSecret(c) \/ DeleteSecret(c)
    <3>1. secret'[c] = None /\ UNCHANGED <<cached, status, queue, worker>>
      BY <1>0, <2>4 DEF CollectSecret, DeleteSecret, TypeOK
    <3>2. cached[c] = None => c \in queue \/ worker.cert = c
      BY <3>1 DEF WakeupInv, ObjectInv
    <3>. QED  BY <3>1, <3>2 DEF ObjectInv, Pending
  <2>5. CASE DeleteObject(c)
    BY <1>0, <2>5 DEF DeleteObject, TypeOK
  <2>. QED  BY <1>2, <1>4, <2>1, <2>2, <2>3, <2>4, <2>5 DEF CertStep, Controller, User
<1>. QED  BY <1>3, <1>4

\* In a quiet state all objects are settled: the roots first, and then the
\* certificates they have signed.
LEMMA QuietIsSettled ==
  ASSUME CertInv, WakeupInv, Quiet, NEW c \in Certs
  PROVE  /\ Settled(c) /\ IssuerReported(c)
         /\ status[c] # None /\ cached[c] = secret[c]
<1>0. TypeOK /\ Issued
  BY DEF CertInv
<1>1. /\ up /\ queue = {} /\ worker.cert = None /\ cached = secret
      /\ \A d \in Certs : ~Due(d)
      /\ \A d \in Certs : status[d] # None /\ ObjectInv(d)
  BY DEF Quiet, QuietCerts, Idle, WakeupInv, DeploymentInv
<1>2. \A d \in Certs : cached[d] # None /\ (Settled(d) \/ ~IssuerReported(d))
  BY <1>1, CertificatesAssumption DEF ObjectInv, Pending
<1>3. IssuerReported(c)
  <2>1. SUFFICES ASSUME Issuer[c] # None
                 PROVE  LET r == Issuer[c]
                        IN  /\ status[r] # None /\ cached[r] # None
                            /\ status[r].hash = cached[r].serial
                            /\ status[r].ready = (now <= cached[r].until)
    BY DEF IssuerReported
  <2>. DEFINE r == Issuer[c]
  <2>2. r \in Certs /\ Issuer[r] = None
    BY <2>1, CertificatesAssumption
  <2>3. Settled(r)
    BY <1>2, <2>2 DEF IssuerReported
  <2>4. cached[r].issuer = None
    BY <1>0, <1>2, <2>2 DEF Issued, IssuedFor
  <2>5. Verifies(cached[r], RootIn(cached, r)) = (now <= cached[r].until)
    <3>. DEFINE v == Verifies(cached[r], RootIn(cached, r))
                valid == now <= cached[r].until
    <3>1. v \in BOOLEAN /\ valid \in BOOLEAN
      BY DEF Verifies
    <3>2. v <=> valid
      BY <2>4 DEF Verifies
    <3>3. v = valid
      <4>. HIDE DEF v, valid
      <4>. QED  BY <3>1, <3>2
    <3>. QED  BY <3>3
  <2>. QED  BY <1>1, <1>2, <2>2, <2>3, <2>5 DEF Settled
<1>. QED  BY <1>1, <1>2, <1>3

\* When time passes an object stays settled, or its delayed request is due, or
\* its issuer has expired.
LEMMA TickObjects ==
  ASSUME CertInv, WakeupInv, OperatorTick, up, NEW c \in Certs
  PROVE  ObjectInv(c)'
<1>0. TypeOK /\ Issued
  BY DEF CertInv
<1>1. /\ Quiet /\ now' = now + 1 /\ now \in Nat
      /\ UNCHANGED <<secret, cached, status, timer>>
  BY <1>0 DEF OperatorTick, Tick, TypeOK
<1>2. Settled(c) /\ IssuerReported(c)
  BY <1>1, QuietIsSettled
<1>3. /\ cached[c] # None /\ cached[c].until \in Nat /\ cached[c].from \in Nat
      /\ timer[c] \in Nat \cup {None} /\ None \notin Nat
  BY <1>0, <1>2, CertificatesAssumption DEF Settled, TypeOK, Certificate
<1>4. SUFFICES ASSUME ~Due(c)', IssuerReported(c)'
               PROVE  Settled(c)'
  BY <1>1, <1>3 DEF ObjectInv, Pending
<1>5. timer[c] # None => timer[c] > 5 * (now + 1)
  BY <1>1, <1>3, <1>4 DEF Due
<1>6. (now' <= cached[c].until) = (now <= cached[c].until)
  <2>1. CASE c \in Renewed
    <3>1. cached[c].until >= cached[c].from
      <4>1. cached[c].until = cached[c].from + ValidFor[c] /\ ValidFor[c] \in Nat
        BY <1>0, <1>3, CertificatesAssumption DEF Issued, IssuedFor
      <4>. QED  BY <1>3, <4>1
    <3>2. /\ timer[c] # None
          /\ timer[c] <= 5 * cached[c].until - (cached[c].until - cached[c].from)
      BY <1>2, <2>1 DEF Settled, Scheduled
    <3>. QED  BY <1>1, <1>3, <1>5, <3>1, <3>2
  <2>2. CASE c \notin Renewed
    <3>1. now <= cached[c].until => timer[c] # None /\ timer[c] <= 5 * cached[c].until + 1
      BY <1>2, <2>2 DEF Settled, Scheduled
    <3>2. CASE now <= cached[c].until
      <4>1. now + 1 <= cached[c].until
        BY <1>1, <1>3, <1>5, <3>1, <3>2
      <4>. QED  BY <1>1, <3>2, <4>1
    <3>3. CASE ~(now <= cached[c].until)
      <4>1. ~(now + 1 <= cached[c].until)
        BY <1>1, <1>3, <3>3
      <4>. QED  BY <1>1, <3>3, <4>1
    <3>. QED  BY <3>2, <3>3
  <2>. QED  BY <2>1, <2>2
<1>7. Issuer[c] # None => (now' <= RootIn(cached, c).until) = (now <= RootIn(cached, c).until)
  <2>1. SUFFICES ASSUME Issuer[c] # None
                 PROVE  (now' <= cached[Issuer[c]].until) = (now <= cached[Issuer[c]].until)
    BY DEF RootIn
  <2>2. status[Issuer[c]].ready = (now <= cached[Issuer[c]].until)
    BY <1>2, <2>1 DEF IssuerReported
  <2>3. status'[Issuer[c]].ready = (now' <= cached'[Issuer[c]].until)
    BY <1>4, <2>1 DEF IssuerReported
  <2>. QED  BY <1>1, <2>2, <2>3
<1>8. cached[c].issuer # None => Issuer[c] # None
  BY <1>0, <1>3 DEF Issued, IssuedFor
<1>9. Verifies(cached[c], RootIn(cached, c))' = Verifies(cached[c], RootIn(cached, c))
  <2>1. RootIn(cached, c)' = RootIn(cached, c)
    BY <1>1 DEF RootIn
  <2>. QED  BY <1>1, <1>6, <1>7, <1>8, <2>1 DEF Verifies
<1>10. c \in Renewed => ~InWindow(cached[c])'
  <2>1. SUFFICES ASSUME c \in Renewed
                 PROVE  ~(5 * (cached[c].until - (now + 1)) < cached[c].until - cached[c].from)
    BY <1>1 DEF InWindow
  <2>2. /\ timer[c] # None
        /\ timer[c] <= 5 * cached[c].until - (cached[c].until - cached[c].from)
    BY <1>2, <2>1 DEF Settled, Scheduled
  <2>. QED  BY <1>1, <1>3, <1>5, <2>2
<1>11. Scheduled(c)'
  BY <1>1, <1>2, <1>6, <1>9, <1>10 DEF Settled, Scheduled
<1>. QED  BY <1>1, <1>2, <1>9, <1>11 DEF Settled

\* Every step keeps every object settled or awaited.
LEMMA ObjectsStep ==
  ASSUME CertInv, WakeupInv, [Next]_vars, up', NEW c \in Certs, status'[c] # None
  PROVE  ObjectInv(c)'
<1>0. TypeOK
  BY DEF CertInv
<1>1. CASE \E d \in Certs : \E s \in Fresh : With(CertStep(d, s))
  <2>1. PICK d \in Certs, s \in Fresh : With(CertStep(d, s))
    BY <1>1
  <2>2. up
    BY <2>1 DEF With, CertStep, Controller, User, Reconcile, CreateCertificate,
         UpdateCertificate, ReportStatus, FireTimer, SyncCache, CollectSecret, DeleteObject,
         DeleteSecret
  <2>. QED  BY <2>1, <2>2, CertStepObjects
<1>2. CASE ReconcileDiscoveryService
  <2>1. UNCHANGED <<now, secret, cached, timer, worker, up>> /\ queue \subseteq queue' /\ up
    BY <1>2 DEF ReconcileDiscoveryService
  <2>2. CASE status[c] = None
    <3>1. c \in queue'
      BY <1>2, <2>2 DEF ReconcileDiscoveryService
    <3>. QED  BY <3>1, ObjectQueued
  <2>3. CASE status[c] # None
    <3>1. status'[c] = status[c]
      BY <1>2, <2>3 DEF ReconcileDiscoveryService
    <3>2. IssuerReported(c)' => \/ c \in queue'
                                \/ IssuerReported(c) /\ RootIn(cached, c)' = RootIn(cached, c)
      BY <2>1, <2>3, IssuerReports
    <3>3. ObjectInv(c)
      BY <2>1, <2>3 DEF WakeupInv
    <3>. QED  BY <2>1, <3>1, <3>2, <3>3, ObjectKept
  <2>. QED  BY <2>2, <2>3
<1>3. CASE DeleteOwned \/ StartPod \/ RestartPod \/ UNCHANGED vars
  <2>1. UNCHANGED <<now, secret, cached, status, queue, timer, worker, up>>
    BY <1>3 DEF DeleteOwned, StartPod, RestartPod, vars, certVars
  <2>2. ObjectInv(c)
    BY <2>1 DEF WakeupInv
  <2>3. IssuerReported(c)' = IssuerReported(c) /\ RootIn(cached, c)' = RootIn(cached, c)
    BY <2>1 DEF IssuerReported, RootIn
  <2>. QED  BY <2>1, <2>2, <2>3, ObjectKept
<1>4. CASE OperatorTick
  BY <1>4, TickObjects DEF OperatorTick, Tick
<1>5. CASE OperatorCrash
  BY <1>5 DEF OperatorCrash, Crash
<1>6. CASE OperatorRestart
  <2>1. c \in queue'
    BY <1>6 DEF OperatorRestart, Restart
  <2>. QED  BY <2>1, ObjectQueued
<1>. QED  BY <1>1, <1>2, <1>3, <1>4, <1>5, <1>6 DEF Next, NextWith

\* What a reconcile is about to report stays true, or the object is in the queue.
LEMMA ReportStep ==
  ASSUME CertInv, WakeupInv, [Next]_vars
  PROVE  ReportInv'
<1>0. TypeOK /\ ReportInv
  BY DEF CertInv, WakeupInv
<1>1. SUFFICES ASSUME worker'.step = "report"
               PROVE  ReportInv'
  BY DEF ReportInv
<1>2. worker' # Idle
  BY <1>1 DEF Idle
<1>. DEFINE c == worker.cert
<1>3. ASSUME worker # Idle, worker'.cert = worker.cert, worker'.step = worker.step,
             worker'.read = worker.read, worker'.ready = worker.ready,
             up, up', now' = now, queue \subseteq queue',
             cached'[c] = cached[c] \/ c \in queue'
      PROVE  ReportInv'
  <2>1. c \in Certs /\ worker.step = "report"
    BY <1>0, <1>1, <1>3 DEF TypeOK, Busy
  <2>2. c \in Renewed => worker'.ready /\ ~InWindow(worker.read)'
    BY <1>0, <1>3, <2>1 DEF ReportInv, InWindow
  <2>3. CASE c \in queue'
    BY <1>3, <2>2, <2>3 DEF ReportInv
  <2>4. CASE c \notin queue'
    <3>1. /\ worker.read = cached[c]
          /\ IssuerReported(c) => worker.ready = Verifies(worker.read, RootIn(cached, c))
      BY <1>0, <1>3, <2>1, <2>4 DEF ReportInv
    <3>2. ASSUME IssuerReported(c)'
          PROVE  worker'.ready = Verifies(worker.read, RootIn(cached, c))'
      <4>1. IssuerReported(c) /\ RootIn(cached, c)' = RootIn(cached, c)
        <5>1. PICK d \in Certs : d = c
          BY <2>1
        <5>2. IssuerReported(d)'
          BY <1>3, <3>2, <5>1
        <5>3. IssuerReported(d) /\ RootIn(cached, d)' = RootIn(cached, d)
          BY <1>2, <1>3, <5>2, IssuerReports
        <5>. QED  BY <1>3, <5>1, <5>3
      <4>. QED  BY <1>3, <3>1, <4>1 DEF Verifies
    <3>. QED  BY <1>3, <2>2, <2>4, <3>1, <3>2 DEF ReportInv
  <2>. QED  BY <2>3, <2>4
<1>4. ASSUME NEW d \in Certs, NEW s \in Fresh, With(CertStep(d, s))
      PROVE  ReportInv'
  <2>1. CASE Reconcile(d)
    <3>1. /\ worker'.cert = d /\ cached[d] # None /\ worker'.read = cached[d]
          /\ worker'.ready = Verifies(cached[d], RootIn(cached, d))
          /\ d \in Renewed => worker'.ready /\ ~InWindow(cached[d])
      BY <1>0, <1>1, <1>2, <2>1, ReconcileDecides
    <3>2. now' = now /\ cached' = cached
      BY <2>1 DEF Reconcile
    <3>3. d \in Renewed => worker'.ready /\ ~InWindow(worker.read)'
      BY <3>1, <3>2 DEF InWindow
    <3>4. worker'.read = cached'[d] /\ worker'.ready = Verifies(worker.read, RootIn(cached, d))'
      BY <3>1, <3>2 DEF Verifies, RootIn
    <3>. QED  BY <3>1, <3>3, <3>4 DEF ReportInv
  <2>2. CASE CreateCertificate(d, s) \/ UpdateCertificate(d, s) \/ ReportStatus(d)
    BY <1>2, <2>2 DEF CreateCertificate, UpdateCertificate, ReportStatus, Requeued
  <2>3. CASE FireTimer(d) \/ CollectSecret(d) \/ DeleteSecret(d)
    <3>1. UNCHANGED <<worker, now, cached, up>> /\ queue \subseteq queue'
      BY <2>3 DEF FireTimer, CollectSecret, DeleteSecret
    <3>. QED  BY <1>0, <1>2, <1>3, <3>1 DEF TypeOK
  <2>4. CASE SyncCache(d)
    <3>1. /\ UNCHANGED <<worker, now, up>> /\ queue \subseteq queue'
          /\ d \in queue' /\ (c # d => cached'[c] = cached[c])
      BY <1>0, <2>4 DEF SyncCache, TypeOK
    <3>. QED  BY <1>0, <1>2, <1>3, <3>1 DEF TypeOK
  <2>5. CASE DeleteObject(d)
    <3>1. worker # Idle
      <4>1. worker = Idle => worker.cert # d
        BY IdleWorker, NoneIsApart
      <4>2. worker.cert # d => worker' = worker
        BY <2>5 DEF DeleteObject
      <4>. QED  BY <1>2, <4>1, <4>2
    <3>2. UNCHANGED <<now, cached, up>> /\ up /\ queue \subseteq queue'
      BY <1>0, <2>5, <3>1 DEF DeleteObject, TypeOK
    <3>3. /\ worker'.cert = worker.cert /\ worker'.step = worker.step
          /\ worker'.read = worker.read /\ worker'.ready = worker.ready
      BY <1>0, <2>5, <3>1 DEF DeleteObject, TypeOK, Busy
    <3>. QED  BY <1>3, <3>1, <3>2, <3>3
  <2>. QED  BY <1>4, <2>1, <2>2, <2>3, <2>4, <2>5 DEF With, CertStep, Controller, User
<1>5. CASE ReconcileDiscoveryService \/ DeleteOwned \/ StartPod \/ RestartPod \/ UNCHANGED vars
  <2>1. UNCHANGED <<worker, now, cached, up>> /\ queue \subseteq queue'
    BY <1>5 DEF ReconcileDiscoveryService, DeleteOwned, StartPod, RestartPod, vars, certVars
  <2>. QED  BY <1>0, <1>2, <1>3, <2>1 DEF TypeOK
<1>6. CASE OperatorTick \/ OperatorCrash \/ OperatorRestart
  BY <1>0, <1>2, <1>6 DEF OperatorTick, Tick, Quiet, QuietCerts, OperatorCrash, Crash, OperatorRestart,
                          Restart, TypeOK
<1>. QED  BY <1>4, <1>5, <1>6 DEF Next, NextWith

\* What is missing of the DiscoveryService, or a new hash of the server
\* certificate, is noticed.
LEMMA DeploymentStep ==
  ASSUME CertInv, WakeupInv, [Next]_vars, up'
  PROVE  DeploymentInv'
<1>0. TypeOK
  BY DEF CertInv
<1>1. SUFFICES ASSUME ~dsQueued'
               PROVE  DeploymentInv'
  BY DEF DeploymentInv
<1>2. ASSUME up, ~dsQueued, UNCHANGED <<owned, deployment, status>>
      PROVE  DeploymentInv'
  BY <1>2 DEF WakeupInv, DeploymentInv, ServerHash
<1>3. ASSUME NEW d \in Certs, NEW s \in Fresh, With(CertStep(d, s))
      PROVE  DeploymentInv'
  <2>1. up' = up
    BY <1>3 DEF With, CertStep, Controller, User, Reconcile, CreateCertificate,
         UpdateCertificate, ReportStatus, FireTimer, SyncCache, CollectSecret, DeleteObject,
         DeleteSecret
  <2>2. ~dsQueued /\ UNCHANGED <<owned, deployment, status>>
    BY <1>1, <1>3, <2>1 DEF With, Notice
  <2>. QED  BY <1>2, <2>1, <2>2
<1>4. CASE ReconcileDiscoveryService
  <2>1. /\ ServerHash # None /\ \A c \in Certs : status[c] # None
        /\ owned' = Kinds /\ deployment' = ServerHash
    BY <1>1, <1>4 DEF ReconcileDiscoveryService
  <2>2. status' = status
    BY <1>0, <1>4, <2>1 DEF ReconcileDiscoveryService, TypeOK
  <2>. QED  BY <2>1, <2>2 DEF DeploymentInv, ServerHash
<1>5. CASE DeleteOwned
  <2>1. dsQueued' = up /\ up' = up
    BY <1>5 DEF DeleteOwned
  <2>. QED  BY <1>1, <2>1
<1>6. CASE OperatorCrash \/ OperatorRestart
  BY <1>1, <1>6 DEF OperatorCrash, Crash, OperatorRestart
<1>7. CASE StartPod \/ RestartPod \/ OperatorTick \/ UNCHANGED vars
  <2>1. UNCHANGED <<up, dsQueued, owned, deployment, status>>
    BY <1>7 DEF StartPod, RestartPod, OperatorTick, Tick, vars, certVars, dsVars
  <2>. QED  BY <1>1, <1>2, <2>1
<1>. QED  BY <1>3, <1>4, <1>5, <1>6, <1>7 DEF Next, NextWith

\* Initially the reconcile of the DiscoveryService is queued and there are no
\* objects.
LEMMA WakeupInit ==
  ASSUME Init
  PROVE  WakeupInv
BY DEF Init, Created, CertInit, Idle, WakeupInv, ReportInv, DeploymentInv

\* Every step keeps WakeupInv.
LEMMA WakeupStep ==
  ASSUME CertInv, WakeupInv, [Next]_vars
  PROVE  WakeupInv'
BY ReportStep, ObjectsStep, DeploymentStep DEF WakeupInv

\* Whatever the order of reconciles, events, crashes, deletions and renewals, an
\* operator with nothing left to do has issued, reported and scheduled everything.
THEOREM NoWakeupIsLost == Spec => []NoLostWakeup
<1>1. ASSUME CertInv, WakeupInv
      PROVE  NoLostWakeup
  <2>1. SUFFICES ASSUME Quiet, NEW c \in Certs
                 PROVE  /\ status[c] # None /\ secret[c] # None
                        /\ status[c].hash = secret[c].serial
                        /\ status[c].ready = Verifies(secret[c], RootIn(secret, c))
                        /\ c \in Renewed =>
                             /\ Fit(c) /\ timer[c] # None
                             /\ timer[c] <= 5 * secret[c].until - (secret[c].until - secret[c].from)
    BY DEF NoLostWakeup
  <2>2. Settled(c) /\ status[c] # None /\ cached = secret
    BY <1>1, <2>1, QuietIsSettled DEF Quiet, QuietCerts
  <2>3. /\ secret[c] # None
        /\ status[c].hash = secret[c].serial
        /\ status[c].ready = Verifies(secret[c], RootIn(secret, c))
    BY <2>2 DEF Settled
  <2>4. ASSUME c \in Renewed
        PROVE  /\ Verifies(secret[c], RootIn(secret, c)) /\ ~InWindow(secret[c])
               /\ timer[c] # None
               /\ timer[c] <= 5 * secret[c].until - (secret[c].until - secret[c].from)
    BY <2>2, <2>4 DEF Settled, Scheduled
  <2>5. secret[c].until \in Nat /\ secret[c].from \in Nat /\ now \in Nat
    BY <1>1, <2>3 DEF CertInv, TypeOK, Certificate
  <2>6. c \in Renewed => Fit(c)
    <3>1. SUFFICES ASSUME c \in Renewed
                   PROVE  /\ Verifies(secret[c], RootIn(secret, c))
                          /\ 5 * (secret[c].until - now) >= secret[c].until - secret[c].from
      BY DEF Fit
    <3>2. ~(5 * (secret[c].until - now) < secret[c].until - secret[c].from)
      BY <2>4, <3>1 DEF InWindow
    <3>3. 5 * (secret[c].until - now) >= secret[c].until - secret[c].from
      BY <2>5, <3>2
    <3>. QED  BY <2>4, <3>1, <3>3
  <2>. QED  BY <2>2, <2>3, <2>4, <2>6
<1>. QED  BY <1>1, CertInvInit, CertInvStep, WakeupInit, WakeupStep, PTL DEF Spec

-----------------------------------------------------------------------------
(***************************************************************************)
(* The pod.                                                                *)
(***************************************************************************)

\* A pod that starts has loaded what the Secrets hold.
LEMMA PodLoads ==
  ASSUME NEW label, pod' = Loaded(label), deployment' = label, secret' = secret
  PROVE  PodInv'
BY DEF PodInv, Loaded

\* There is no pod yet.
LEMMA PodInit ==
  ASSUME Init
  PROVE  PodInv
BY DEF Init, Created, PodInv

\* A new certificate is neither the one in the label of the pod nor the issuer of
\* the one that the pod has loaded.
LEMMA PodStep ==
  ASSUME CertInv, PodInv, [Next]_vars
  PROVE  PodInv'
<1>0. TypeOK
  BY DEF CertInv
<1>1. root \in Certs /\ server \in Certs
  BY OperatorAssumption
<1>2. ASSUME UNCHANGED <<pod, deployment, secret>>
      PROVE  PodInv'
  BY <1>2 DEF PodInv
<1>3. CASE pod' = None
  BY <1>3 DEF PodInv
<1>4. ASSUME NEW d \in Certs, NEW s \in Fresh, With(CertStep(d, s)), pod # None
      PROVE  PodInv'
  <2>1. UNCHANGED <<pod, deployment>>
    BY <1>4 DEF With
  <2>2. s # pod.label /\ s # pod.server.issuer
    <3>1. s # pod.label /\ s \notin SerialsOf(pod.server)
      BY <1>0, <1>4, FreshIsNew
    <3>2. pod.server # None
      BY <1>0, <1>4, CertificatesAssumption DEF TypeOK, Pod
    <3>. QED  BY <3>1, <3>2 DEF SerialsOf
  <2>3. \A c \in Certs : \/ secret'[c] = secret[c] \/ secret'[c] = None
                         \/ secret'[c].serial = s
    <3>1. GenerateCertificate(d, s).serial = s
      BY DEF GenerateCertificate
    <3>2. \/ secret' = secret
          \/ secret' = [secret EXCEPT ![d] = None]
          \/ secret' = [secret EXCEPT ![d] = GenerateCertificate(d, s)]
      BY <1>4 DEF With, CertStep, Controller, User, Reconcile, CreateCertificate, UpdateCertificate,
                  ReportStatus, FireTimer, SyncCache, CollectSecret, DeleteObject, DeleteSecret
    <3>. QED  BY <1>0, <3>1, <3>2 DEF TypeOK
  <2>. QED  BY <1>1, <1>4, <2>1, <2>2, <2>3 DEF PodInv
<1>5. CASE ReconcileDiscoveryService
  <2>1. secret' = secret /\ deployment' = ServerHash /\ RollOut(ServerHash)
    BY <1>5 DEF ReconcileDiscoveryService
  <2>2. \/ ServerHash = deployment /\ pod' = pod
        \/ pod' = None
        \/ pod' = Loaded(ServerHash)
    BY <2>1 DEF RollOut
  <2>. QED  BY <1>2, <1>3, <2>1, <2>2, PodLoads
<1>6. CASE DeleteOwned
  <2>1. secret' = secret /\ (UNCHANGED <<deployment, pod>> \/ pod' = None)
    BY <1>6 DEF DeleteOwned
  <2>. QED  BY <1>2, <1>3, <2>1
<1>7. CASE StartPod \/ RestartPod
  <2>1. pod' = Loaded(deployment) /\ UNCHANGED <<deployment, secret>>
    BY <1>7 DEF StartPod, RestartPod, certVars
  <2>. QED  BY <2>1, PodLoads
<1>8. CASE OperatorTick \/ OperatorCrash \/ OperatorRestart \/ UNCHANGED vars
  BY <1>2, <1>8 DEF OperatorTick, Tick, OperatorCrash, Crash, OperatorRestart, Restart, vars, certVars,
                    dsVars
<1>. QED  BY <1>3, <1>4, <1>5, <1>6, <1>7, <1>8 DEF Next, NextWith, With

\* Whatever was deleted, renewed or restarted, and in whatever order: once the
\* operator is quiet the pod serves the server certificate and trusts the root of
\* the Secrets.
THEOREM PodFollowsRoot == Spec => []PodTrustsRoot
<1>1. ASSUME CertInv, WakeupInv, PodInv
      PROVE  PodTrustsRoot
  <2>1. SUFFICES ASSUME Quiet
                 PROVE  /\ owned = Kinds
                        /\ pod # None /\ pod.label = deployment
                        /\ pod.server = secret[server]
                        /\ pod.ca = secret[root]
    BY DEF PodTrustsRoot
  <2>2. /\ root \in Certs /\ server \in Certs /\ server \in Renewed
        /\ Issuer[root] = None /\ Issuer[server] = root /\ root # None
    BY OperatorAssumption, CertificatesAssumption
  <2>3. owned = Kinds /\ deployment = ServerHash /\ pod # None /\ cached = secret
    BY <1>1, <2>1 DEF WakeupInv, DeploymentInv, Quiet, QuietCerts
  <2>4. Settled(server) /\ Settled(root) /\ status[server] # None
    BY <1>1, <2>1, <2>2, QuietIsSettled
  <2>5. secret[server] # None /\ secret[root] # None
    BY <2>3, <2>4 DEF Settled
  <2>6. deployment = secret[server].serial
    <3>1. deployment = status[server].hash
      BY <2>3, <2>4 DEF ServerHash
    <3>. QED  BY <2>3, <2>4, <3>1 DEF Settled
  <2>7. pod.label = deployment /\ pod.server = secret[server]
    BY <1>1, <2>3, <2>5, <2>6 DEF PodInv
  <2>8. secret[server].issuer = secret[root].serial
    <3>1. secret[server].issuer # None
      BY <1>1, <2>2, <2>5 DEF CertInv, Issued, IssuedFor
    <3>2. Verifies(secret[server], secret[root])
      BY <2>2, <2>3, <2>4 DEF Settled, Scheduled, RootIn
    <3>. QED  BY <3>1, <3>2 DEF Verifies
  <2>9. pod.ca = secret[root]
    BY <1>1, <2>3, <2>5, <2>7, <2>8 DEF PodInv
  <2>. QED  BY <2>3, <2>7, <2>9
<1>. QED  BY <1>1, CertInvInit, CertInvStep, WakeupInit, WakeupStep, PodInit, PodStep, PTL DEF Spec
=============================================================================
