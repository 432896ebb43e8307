----------------------------- MODULE MCOperator -----------------------------
(***************************************************************************)
(* The operator for TLC, with a root and a server certificate.             *)
(***************************************************************************)
EXTENDS Operator, FiniteSetsExt

RootSigns == [c \in Certs |-> IF c = root THEN None ELSE root]

Lifetimes == [c \in Certs |-> IF c = root THEN 2 ELSE 3]

\* The DiscoveryService was created at time zero and everything is in place.
SettledInit ==
  LET old == [c \in Certs |-> [serial |-> IF c = root THEN 1 ELSE 2,
                               issuer |-> IF c = root THEN None ELSE 1,
                               from   |-> 0,
                               until  |-> ValidFor[c]]]
  IN  /\ now = 0
      /\ secret = old /\ cached = old
      /\ orphans = {}
      /\ status = [c \in Certs |-> [hash |-> old[c].serial, ready |-> TRUE]]
      /\ queue = {}
      /\ timer = [c \in Certs |-> 4 * ValidFor[c]]
      /\ worker = Idle
      /\ up = TRUE
      /\ faults = 0
      /\ dsQueued = FALSE
      /\ owned = Kinds
      /\ deployment = 2
      /\ pod = [label |-> 2, server |-> old[server], ca |-> old[root]]

\* Any serial number that is not in use is as good as any other.
Least == {Min(Fresh)}

\* From nothing, without a fault, and from SettledInit with the faults.
MCSpec ==
  /\ (Created /\ faults = MaxFaults) \/ SettledInit
  /\ [][NextWith(Least)]_vars
  /\ Fairness
=============================================================================
