----------------------------- MODULE MCBilling -----------------------------
(* One campaign: a click, a conversion, and two impressions of different   *)
(* publishers, which fill a batch when one of them is delivered again.     *)
EXTENDS Billing, TLC

CONSTANTS adv, pub, pub2, c1, k1, i1, i2, x1

MCOwner == c1 :> adv
MCEvents == {k1, i1, i2, x1}
MCCampaignOf == [x \in MCEvents |-> c1]
MCPublisherOf == [x \in MCEvents |-> IF x = i2 THEN pub2 ELSE pub]
MCPrice == [x \in MCEvents |-> IF x \in Impressions THEN 1 ELSE 2]
MCRefs == {k1, x1} \cup BatchRefs
=============================================================================
