------------------------ MODULE MCNotificationDelivery ------------------------
(* Model checking of NotificationDelivery. Its workers are interchangeable,   *)
(* but the run also checks a liveness property, so no symmetry is declared.   *)
EXTENDS NotificationDelivery
============================================================================
