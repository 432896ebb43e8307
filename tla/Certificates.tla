---------------------------- MODULE Certificates ----------------------------
(***************************************************************************)
(* The DiscoveryServiceCertificate controller: it issues the certificate   *)
(* of every DiscoveryServiceCertificate object into a Secret, reissues it  *)
(* when it no longer verifies or when the last fifth of its life begins,   *)
(* and reports its hash and readiness in the status of the object.         *)
(*                                                                         *)
(* An object is named after its certificate; its Secret has the same name. *)
(* A reconcile reads Secrets from the informer cache, which lags behind    *)
(* the API server, and writes to the API server, which refuses an update   *)
(* made from a stale read.  One worker serves the queue.  Time is a count  *)
(* of ticks; see Tick for what may happen between two of them.             *)
(***************************************************************************)
EXTENDS Integers, FiniteSets

CONSTANTS
  Certs,       \* the DiscoveryServiceCertificate objects there may be
  Issuer,      \* the certificate that signs each one; None: self-signed
  Renewed,     \* those whose certificateRenewalConfig is enabled
  ValidFor,    \* spec.validFor of each, in ticks
  None,
  Deletable,   \* the objects users may delete
  Serials,     \* the serial numbers, which also stand for the hashes
  MaxTime,     \* bound: the clock
  MaxFaults    \* bound: deletions and crashes

\* The certificates that sign others: IsCA of the object is true.
CAs == {Issuer[c] : c \in Certs} \ {None}

\* A certificate: who signed it (the serial of the issuer's certificate, None if
\* self-signed), notBefore and notAfter.
Certificate ==
  [serial : Serials, issuer : Serials \cup {None}, from : Nat, until : Nat]

Status == [hash : Serials \cup {None}, ready : BOOLEAN]

\* A fifth of a life is never a whole number of ticks.  The clock reads
\* nanoseconds, so no reading falls on the very instant the renewal window
\* opens; there the computed delay is zero, which asks for no requeue at all.
ASSUME CertificatesAssumption ==
  /\ None \notin Certs /\ None \notin Nat /\ Serials \subseteq Nat
  /\ None \notin Certificate /\ None \notin Status
  /\ Issuer \in [Certs -> Certs \cup {None}]
  /\ \A c \in Certs : Issuer[c] # None => Issuer[Issuer[c]] = None
  /\ Renewed \subseteq Certs /\ Deletable \subseteq Certs
  /\ ValidFor \in [Certs -> Nat]
  /\ \A c \in Certs : ValidFor[c] % 5 # 0
  /\ MaxTime \in Nat /\ MaxFaults \in Nat

VARIABLES
  now,       \* the clock
  secret,    \* the certificate in each Secret of the API server, or None
  cached,    \* the same, in the informer cache of the operator
  orphans,   \* Secrets whose owner object is gone: garbage to collect
  status,    \* status of each object, None if there is no object
  queue,     \* reconcile requests
  timer,     \* when a delayed request joins the queue (in fifths of a tick)
  worker,    \* the reconcile in progress
  up,        \* the operator runs
  faults

certVars ==
  <<now, secret, cached, orphans, status, queue, timer, worker, up, faults>>

\* GetCertificateHash and IsReady of a status with nothing in it.
NewStatus == [hash |-> None, ready |-> FALSE]

Idle == [cert |-> None, step |-> "idle", current |-> FALSE, read |-> None, ready |-> FALSE]

CertInit ==
  /\ now = 0
  /\ secret = [c \in Certs |-> None]
  /\ cached = [c \in Certs |-> None]
  /\ orphans = {}
  /\ status = [c \in Certs |-> None]
  /\ queue = {}
  /\ timer = [c \in Certs |-> None]
  /\ worker = Idle
  /\ up = TRUE

-----------------------------------------------------------------------------
(***************************************************************************)
(* The provider.                                                           *)
(***************************************************************************)

\* VerifyCertificate: x509 verification of crt against the one certificate
\* root, for a self-signed certificate itself.
Verifies(crt, root) ==
  /\ now <= crt.until
  /\ crt.issuer # None => /\ root # None
                          /\ root.serial = crt.issuer
                          /\ now <= root.until

RootIn(secrets, c) == IF Issuer[c] = None THEN None ELSE secrets[Issuer[c]]

\* getIssuerCertificate returns an error.
NoIssuer(c) == Issuer[c] # None /\ cached[Issuer[c]] = None

\* Renewal when a fifth of the life has passed, not when a fifth is left.
InWindowEarly(crt) == 5 * (crt.until - now) < 4 * (crt.until - crt.from)

\* timeToExpire < renewBefore
InWindow(crt) == 5 * (crt.until - now) < crt.until - crt.from

\* The serial numbers of the certificates there are.
SerialsOf(crt) == IF crt = None THEN {} ELSE {crt.serial, crt.issuer}

KnownSerials ==
  (UNION {SerialsOf(secret[c]) \cup SerialsOf(cached[c]) : c \in Certs})
    \cup SerialsOf(worker.read) \cup {status[c].hash : c \in {d \in Certs : status[d] # None}}

\* A new certificate.  Its random serial number s is new.
GenerateCertificate(c, s) ==
  [serial |-> s,
   issuer |-> IF Issuer[c] = None THEN None ELSE cached[Issuer[c]].serial,
   from   |-> now,
   until  |-> now + ValidFor[c]]

-----------------------------------------------------------------------------
(***************************************************************************)
(* The controller.                                                         *)
(***************************************************************************)

\* An issuer that is not watched.
IssuerChangedHandlerNone(c) == {}

\* IssuerChangedHandler: an event of a CA's object asks for a reconcile of
\* every existing certificate that is signed with the CA's Secret.
IssuerChangedHandler(c) ==
  IF c \in CAs THEN {d \in Certs : Issuer[d] = c /\ status[d] # None} ELSE {}

\* The requests an event of the object of c leads to.
ObjectEvent(c) == {c} \cup IssuerChangedHandler(c)

\* The delayed request of a reconcile that found the certificate crt: when the
\* renewal window opens or, without renewal, just after the expiration.
\* AddAfter keeps the earlier of two requests for the same object.
Schedule(c, crt) ==
  LET due == IF c \in Renewed THEN 5 * crt.until - (crt.until - crt.from) ELSE 5 * crt.until + 1
  IN  IF due <= 5 * now \/ (timer[c] # None /\ timer[c] <= due) THEN timer[c] ELSE due

\* The first reads of Reconcile decide what it will do.  Without the object
\* there is nothing to do; without the Secret of the issuer it fails, and the
\* request stays in the queue.
Reconcile(c) ==
  LET crt   == cached[c]
      ready == crt # None /\ Verifies(crt, RootIn(cached, c))
      step  == IF crt = None THEN "create"
               ELSE IF c \in Renewed /\ (~ready \/ InWindow(crt)) THEN "update"
               ELSE "report"
  IN  /\ up /\ worker = Idle /\ c \in queue
      /\ status[c] # None => ~NoIssuer(c)
      /\ queue' = queue \ {c}
      /\ worker' = IF status[c] = None THEN Idle
                   ELSE [cert |-> c, step |-> step, current |-> TRUE,
                         read  |-> IF step = "report" THEN crt ELSE None,
                         ready |-> step = "report" /\ ready]
      /\ UNCHANGED <<now, secret, cached, orphans, status, timer, up, faults>>

\* A reconcile that ends with an error or with Requeue.
Requeued(c) ==
  /\ worker' = Idle
  /\ queue' = queue \cup {c}

\* CreateCertificate: fails if the issuer's Secret is gone or the Secret
\* exists.  The new Secret belongs to the object the reconcile read: if that
\* one was deleted meanwhile, the Secret is garbage.
CreateCertificate(c, s) ==
  /\ up /\ worker.cert = c /\ worker.step = "create"
  /\ Requeued(c)
  /\ IF NoIssuer(c) \/ cached[c] # None \/ secret[c] # None
     THEN UNCHANGED <<secret, orphans>>
     ELSE /\ secret' = [secret EXCEPT ![c] = GenerateCertificate(c, s)]
          /\ orphans' = IF worker.current THEN orphans ELSE orphans \cup {c}
  /\ UNCHANGED <<now, cached, status, timer, up, faults>>

\* UpdateCertificate: fails if a Secret it reads is gone; the API server
\* refuses the update unless the cache held the current Secret.
UpdateCertificate(c, s) ==
  /\ up /\ worker.cert = c /\ worker.step = "update"
  /\ Requeued(c)
  /\ IF NoIssuer(c) \/ cached[c] = None \/ cached[c] # secret[c]
     THEN UNCHANGED secret
     ELSE secret' = [secret EXCEPT ![c] = GenerateCertificate(c, s)]
  /\ UNCHANGED <<now, cached, orphans, status, timer, up, faults>>

\* The status is written, and an event follows, whether it changed or not.
ReportStatusAlways(c) ==
  LET new == [hash |-> worker.read.serial, ready |-> worker.ready]
  IN  /\ up /\ worker.cert = c /\ worker.step = "report"
      /\ IF ~worker.current
         THEN Requeued(c) /\ UNCHANGED <<status, timer>>
         ELSE /\ worker' = Idle
              /\ status' = [status EXCEPT ![c] = new]
              /\ queue' = queue \cup ObjectEvent(c)
              /\ timer' = [timer EXCEPT ![c] = Schedule(c, worker.read)]
      /\ UNCHANGED <<now, secret, cached, orphans, up, faults>>

\* IsStatusReconciled, the update of the status, and the delayed request.  The
\* update fails if the object is no longer the one that was read.
ReportStatus(c) ==
  LET new == [hash |-> worker.read.serial, ready |-> worker.ready]
  IN  /\ up /\ worker.cert = c /\ worker.step = "report"
      /\ IF ~worker.current
         THEN Requeued(c) /\ UNCHANGED <<status, timer>>
         ELSE /\ worker' = Idle
              /\ status' = [status EXCEPT ![c] = new]
              /\ queue' = queue \cup (IF status[c] = new THEN {} ELSE ObjectEvent(c))
              /\ timer' = [timer EXCEPT ![c] = Schedule(c, worker.read)]
      /\ UNCHANGED <<now, secret, cached, orphans, up, faults>>

\* The workqueue moves a delayed request to the queue.
Due(c) == timer[c] # None /\ timer[c] <= 5 * now

FireTimer(c) ==
  /\ up /\ Due(c)
  /\ queue' = queue \cup {c}
  /\ timer' = [timer EXCEPT ![c] = None]
  /\ UNCHANGED <<now, secret, cached, orphans, status, worker, up, faults>>

-----------------------------------------------------------------------------
(***************************************************************************)
(* Kubernetes and its users.                                               *)
(***************************************************************************)

\* The informer sees the Secret of c; its event asks for a reconcile of the
\* owner (Owns).
SyncCache(c) ==
  /\ up /\ cached[c] # secret[c]
  /\ cached' = [cached EXCEPT ![c] = secret[c]]
  /\ queue' = queue \cup {c}
  /\ UNCHANGED <<now, secret, orphans, status, timer, worker, up, faults>>

Fault ==
  /\ faults < MaxFaults
  /\ faults' = faults + 1

DeleteObject(c) ==
  /\ Fault /\ c \in Deletable /\ status[c] # None
  /\ status' = [status EXCEPT ![c] = None]
  /\ orphans' = IF secret[c] = None THEN orphans ELSE orphans \cup {c}
  /\ worker' = IF worker.cert = c THEN [worker EXCEPT !.current = FALSE] ELSE worker
  /\ queue' = IF up THEN queue \cup ObjectEvent(c) ELSE queue
  /\ UNCHANGED <<now, secret, cached, timer, up>>

DeleteSecret(c) ==
  /\ Fault /\ secret[c] # None
  /\ secret' = [secret EXCEPT ![c] = None]
  /\ orphans' = orphans \ {c}
  /\ UNCHANGED <<now, cached, status, queue, timer, worker, up>>

\* The garbage collector of Kubernetes.
CollectSecret(c) ==
  /\ c \in orphans
  /\ secret' = [secret EXCEPT ![c] = None]
  /\ orphans' = orphans \ {c}
  /\ UNCHANGED <<now, cached, status, queue, timer, worker, up, faults>>

\* The operator stops: queue, delayed requests and the reconcile are lost.
Crash ==
  /\ Fault /\ up
  /\ up' = FALSE
  /\ queue' = {}
  /\ timer' = [c \in Certs |-> None]
  /\ worker' = Idle
  /\ UNCHANGED <<now, secret, cached, orphans, status>>

\* It starts: the informers list everything, one event for each object.
Restart ==
  /\ ~up
  /\ up' = TRUE
  /\ cached' = secret
  /\ queue' = {c \in Certs : status[c] # None}
  /\ UNCHANGED <<now, secret, orphans, status, timer, worker, faults>>

\* Nothing is left to do until time passes.
QuietCerts ==
  /\ up /\ queue = {} /\ worker = Idle
  /\ cached = secret
  /\ \A c \in Certs : ~Due(c)

\* Time passes.  A running operator is assumed to keep up: what an event or a
\* timer asks for takes less than a tick, whatever the order.
Tick ==
  /\ now < MaxTime
  /\ up => QuietCerts
  /\ now' = now + 1
  /\ UNCHANGED <<secret, cached, orphans, status, queue, timer, worker, up, faults>>

Controller(c, s) ==
  Reconcile(c) \/ CreateCertificate(c, s) \/ UpdateCertificate(c, s) \/ ReportStatus(c)

User(c) == DeleteObject(c) \/ DeleteSecret(c)

CertStep(c, s) ==
  Controller(c, s) \/ FireTimer(c) \/ SyncCache(c) \/ CollectSecret(c) \/ User(c)

-----------------------------------------------------------------------------
(***************************************************************************)
(* Properties.                                                             *)
(***************************************************************************)

\* The certificate in the Secret verifies and its last fifth has not begun.
Fit(c) ==
  /\ Verifies(secret[c], RootIn(secret, c))
  /\ 5 * (secret[c].until - now) >= secret[c].until - secret[c].from

Replaced(c) == secret[c] # None /\ secret'[c] # None /\ secret'[c] # secret[c]

\* UpdateCertificate only replaces the certificate of an object with renewal, and
\* only if it is expired, signed by a former issuer or in its renewal window; or
\* if it was issued this very tick, since UpdateCertificate reads the Secret anew
\* after the reconcile has decided on a copy that may be stale.
FitIsKept ==
  [][\A c \in Certs :
       Replaced(c) => c \in Renewed /\ (Fit(c) => secret[c].from = now)]_certVars
=============================================================================
