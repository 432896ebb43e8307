---------------------------- MODULE GracefulStop ----------------------------
(***************************************************************************)
(* What the shutdown manager promises about one Envoy server: it is told   *)
(* to drain, and is stopped only after no more connections than the        *)
(* minimum were found open, unless there is an excuse (the grace period is *)
(* over, or a container crashed).  A server that cannot be told to drain   *)
(* must still be found with few connections.  A client that connects after *)
(* that is cut off.                                                        *)
(***************************************************************************)
EXTENDS Integers

CONSTANTS MinOpenConnections

VARIABLES
  running,   \* the server runs
  draining,  \* it was told to drain
  open,      \* its open connections
  quiet,     \* few connections were found since it started
  unheard,   \* it could not be told to drain
  excused    \* there is an excuse to cut them

vars == <<running, draining, open, quiet, unheard, excused>>

Init ==
  /\ running = FALSE /\ draining = FALSE
  /\ open = 0
  /\ quiet = FALSE
  /\ unheard = FALSE
  /\ excused \in BOOLEAN

\* The server starts, in a new pod without an excuse or again in its pod.
Start ==
  /\ ~running
  /\ running' = TRUE
  /\ unheard' \in {unheard, FALSE}
  /\ excused' \in BOOLEAN
  /\ UNCHANGED <<draining, open, quiet>>

Open ==
  /\ running
  /\ open' = open + 1
  /\ UNCHANGED <<running, draining, quiet, unheard, excused>>

Close ==
  /\ running /\ open > 0
  /\ open' = open - 1
  /\ UNCHANGED <<running, draining, quiet, unheard, excused>>

Drain ==
  /\ running
  /\ draining' = TRUE
  /\ UNCHANGED <<running, open, quiet, unheard, excused>>

GiveUp ==
  /\ unheard' = TRUE
  /\ UNCHANGED <<running, draining, open, quiet, excused>>

FindFew ==
  /\ running
  /\ draining \/ unheard \/ excused
  /\ open <= MinOpenConnections
  /\ quiet' = TRUE
  /\ UNCHANGED <<running, draining, open, unheard, excused>>

Excuse ==
  /\ excused' = TRUE
  /\ UNCHANGED <<running, draining, open, quiet, unheard>>

\* The connections that are still open are cut.
Stop ==
  /\ running
  /\ running' = FALSE /\ draining' = FALSE
  /\ open' = 0
  /\ quiet' = FALSE
  /\ excused' \in {excused, TRUE}
  /\ quiet \/ excused'
  /\ UNCHANGED unheard

Next == Start \/ Open \/ Close \/ Drain \/ GiveUp \/ FindFew \/ Excuse \/ Stop

Spec == Init /\ [][Next]_vars
=============================================================================
