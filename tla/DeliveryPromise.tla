-------------------------- MODULE DeliveryPromise --------------------------
(***************************************************************************)
(* What the event pipeline promises its consumers, with no outbox table,   *)
(* no job queue and no worker in sight.  An event is committed by a        *)
(* business transaction; from then on it may be under delivery (somebody   *)
(* holds the claim on it), the claim may be given back, and at some point  *)
(* the event is delivered.  A delivered event whose claim nobody holds is  *)
(* never under delivery again, whatever is retried, replayed or            *)
(* redelivered.  Delivery is at least once, not exactly once: a deliverer  *)
(* that did not hear of its own success still holds the claim, and only it *)
(* may take the delivery back.                                             *)
(***************************************************************************)
CONSTANT Events

VARIABLES
  committed,   \* events whose business transaction has committed
  held,        \* events whose delivery claim somebody holds
  delivered    \* events recorded as delivered

vars == <<committed, held, delivered>>

Init == committed = {} /\ held = {} /\ delivered = {}

Commit(e) ==
  /\ e \notin committed
  /\ committed' = committed \union {e}
  /\ UNCHANGED <<held, delivered>>

Hold(e) ==
  /\ e \in committed \ (held \union delivered)
  /\ held' = held \union {e}
  /\ UNCHANGED <<committed, delivered>>

GiveBack(e) ==
  /\ e \in held
  /\ held' = held \ {e}
  /\ UNCHANGED <<committed, delivered>>

Deliver(e) ==
  /\ e \in held
  /\ held' = held \ {e}
  /\ delivered' = delivered \union {e}
  /\ UNCHANGED committed

\* The delivery is recorded, and its deliverer told that it failed.
DeliverUnheard(e) ==
  /\ e \in held
  /\ delivered' = delivered \union {e}
  /\ UNCHANGED <<committed, held>>

TakeBack(e) ==
  /\ e \in held \intersect delivered
  /\ delivered' = delivered \ {e}
  /\ UNCHANGED <<committed, held>>

Next ==
  \E e \in Events :
    Commit(e) \/ Hold(e) \/ GiveBack(e) \/ Deliver(e) \/ DeliverUnheard(e) \/ TakeBack(e)

Spec == Init /\ [][Next]_vars
=============================================================================
