--------------------------- MODULE EventDelivery ---------------------------
(***************************************************************************)
(* What the backend promises the consumers of its domain events: nothing   *)
(* is delivered to the exchange that was not committed with the business   *)
(* data, and as long as broker and worker stay up every committed event is *)
(* delivered at least once.                                                *)
(***************************************************************************)
CONSTANT Events

VARIABLES
  committed,  \* events whose transaction committed
  delivered,  \* events the exchange has received, once or more
  lossy       \* the broker or the worker has gone down

Init == committed = {} /\ delivered = {} /\ lossy = FALSE

Commit(e) ==
  /\ e \notin committed
  /\ committed' = committed \cup {e}
  /\ UNCHANGED <<delivered, lossy>>

Deliver(e) ==
  /\ e \in committed \ delivered
  /\ delivered' = delivered \cup {e}
  /\ UNCHANGED <<committed, lossy>>

Fail ==
  /\ lossy' = TRUE
  /\ UNCHANGED <<committed, delivered>>

Next == Fail \/ \E e \in Events : Commit(e) \/ Deliver(e)

vars == <<committed, delivered, lossy>>

Safety == Init /\ [][Next]_vars
Spec   == Safety /\ \A e \in Events : WF_vars(~lossy /\ Deliver(e))
=============================================================================
