------------------------------- MODULE MCSaga -------------------------------
(* Model checking of Saga on short definitions: which of their steps can be undone. *)
EXTENDS Saga

MCReversible == {1, 2}
MCFirst == {1}
============================================================================
