------------------------- MODULE MCCampaignFunding -------------------------
(* One advertiser, one campaign and two concurrent requests: every race of *)
(* CampaignFunding needs two requests of the same campaign at most.        *)
EXTENDS CampaignFunding, TLC

CONSTANTS adv, c1, e1, e2, h1, h2

MCOwner == c1 :> adv

Symmetry == Permutations({e1, e2}) \cup Permutations({h1, h2})
=============================================================================
