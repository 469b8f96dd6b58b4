------------------------------ MODULE MCBilling ------------------------------
(* Model checking of Billing: two plans, the dearer of which allows more. *)
EXTENDS Billing, TLC

MCPlans == 1 .. 2
MCPrice == <<10, 20>>
MCLimit == <<1, 2>>
MCQuantity == [k \in Keys |-> 1]
MCSymmetry == Permutations(Requests) \union Permutations(Events) \union Permutations(Keys)
=============================================================================
