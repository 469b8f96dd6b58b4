-------------------------- MODULE MCCampaignDelivery --------------------------
(* Model checking of CampaignDelivery: its workers are interchangeable. *)
EXTENDS CampaignDelivery, TLC

MCSymmetry == Permutations(Workers)
============================================================================
