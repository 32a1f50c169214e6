------------------------------ MODULE MCTopUp ------------------------------
(* One order and three handlers: enough for a confirm call and two         *)
(* webhooks to meet, and orders share nothing but the balance.             *)
EXTENDS TopUp, TLC

CONSTANTS adv, o1, pay1, h1, h2, h3

MCOwner == [c \in {} |-> c]
MCCaptureId == o1 :> pay1

Symmetry == Permutations({h1, h2, h3})
=============================================================================
