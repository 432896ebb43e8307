-------------------------- MODULE MCDiscoveryStats --------------------------
(***************************************************************************)
(* Two pods, p1 of the nodeID n1.  Every pod of n1 rejects the version     *)
(* bad; good is rejected by none.                                          *)
(***************************************************************************)
EXTENDS DiscoveryStats, TLC

CONSTANTS n1, n2, p1, p2, good, bad

\* Both pods belong to n1.
OneNode   == [p \in {p1, p2} |-> n1]
RejectBad == {p1, p2} \X {bad}
Distinct  == {<<x, x>> : x \in Names}

\* p2 belongs to n2, accepts everything, and the nodeID n1 is a part of n2, as
\* gateway is of gateway-internal.
TwoNodes      == (p1 :> n1) @@ (p2 :> n2)
RejectBadInN1 == {<<p1, bad>>}
Contained     == Distinct \cup {<<n1, n2>>}

\* Streams of p1 are sent up to two responses, those of p2 one.
Few == (p1 :> 2) @@ (p2 :> 1)

\* A store without NACKs, and no snapshot written but the first.
Start(version, cleanups) ==
    /\ served = [n \in Nodes |-> version]
    /\ deletions = {}
    /\ nonces = <<>> /\ nacks = [k \in Nodes \X Versions \X Pods |-> 0]
    /\ rejecters = {} /\ forgotten = {} /\ erased = {} /\ misled = {}
    /\ spent = [snapshots |-> 1, cleanups |-> cleanups]

\* The pods start while bad is being served, to both of them without a cleanup or
\* to p1 alone with one.
Starting ==
    /\ \/ Start(bad, MaxCleanups) /\ alive = Pods
       \/ Start(bad, 0) /\ alive = {p1}
    /\ cleaning = None
    /\ stream = [p \in Pods |-> NewStream]
    /\ requests = {}
    /\ doomed = [d \in Deleters |-> NoKeys]

\* Both pods have had good for a while, and CleanupLogic has just begun.
CleaningUp ==
    /\ Start(good, MaxCleanups)
    /\ alive = Pods
    /\ cleaning = n1
    /\ stream = [p \in Pods |-> [NewStream EXCEPT !.pc = "watch", !.nonce = 1, !.accepted = good]]
    /\ requests = {<<n1, p>> : p \in Pods}
    /\ doomed = [d \in Deleters |-> IF d = "cleanup" THEN FilterKeys(n1) ELSE NoKeys]

BadSpec == (Starting \/ CleaningUp) /\ [][Next]_vars /\ Fairness
=============================================================================
